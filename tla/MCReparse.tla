------------------------------ MODULE MCReparse ------------------------------
(* Documents and keystrokes for Reparse.                                    *)
EXTENDS Reparse

S(k) == [kind |-> k, text |-> k, ws |-> FALSE]
SpaceS(k) == [S(k) EXCEPT !.ws = TRUE]
W(w) == [kind |-> "ident", text |-> w, ws |-> FALSE]
SpaceW(w) == [W(w) EXCEPT !.ws = TRUE]
N == [kind |-> "number", text |-> "1", ws |-> FALSE]
SpaceN == [N EXCEPT !.ws = TRUE]

Rl(w) == <<S("@"), W(w)>>
BlockOf(items) == <<S("{")>> \o items \o <<S("}")>>
Decl == <<W("b"), S(":"), W("c"), S(";")>>
Var == <<S("$"), W("x"), S(":"), N, S(";")>>
RuleOf(items) == <<W("a")>> \o BlockOf(items)
If == Rl("if") \o <<SpaceW("x")>> \o BlockOf(Decl)
ElseBlock == Rl("else") \o BlockOf(Decl)
Include == Rl("include") \o <<SpaceW("m"), S("("), S("$"), W("x"), S(")"), S(";")>>
Calc == <<W("b"), S(":"), W("calc"), S("("), N, SpaceS("+"), SpaceN, S(")"), S(";")>>
Media == Rl("media") \o <<S("("), W("x"), S(":"), N, S(")")>> \o BlockOf(RuleOf(Decl))

Str == [kind |-> "string", text |-> "s", ws |-> TRUE]

MCDocument == {
    RuleOf(Calc \o Decl) \o Var,
    If \o ElseBlock \o Include \o Var,
    Media \o RuleOf(RuleOf(Decl) \o Decl),
    Var \o Var \o Var \o <<S("$"), W("x"), S(":")>>}

MCOpening ==
    {Rl(w) : w \in {"mixin", "include", "content", "function", "return", "if", "for",
                    "each", "while", "extend", "warn", "at-root", "media", "supports",
                    "keyframes", "layer", "container", "scope", "property", "namespace",
                    "charset", "page", "font-face", "use", "forward", "import", "else",
                    "other"}}
      \cup {Rl(w) \o <<S("{")>> : w \in {"at-root", "keyframes", "other"}}
      \cup {Rl(w) \o <<Str>> : w \in {"use", "forward", "import", "namespace"}}
      \cup {Rl("use") \o <<Str, W("with"), S("(")>>, Rl("forward") \o <<Str, W("hide")>>,
            Rl("for") \o <<S("$"), W("x"), W("from"), N>>,
            Rl("each") \o <<S("$"), W("x"), W("in")>>,
            Rl("function") \o <<W("--x"), S("{")>>, Rl("mixin") \o <<W("m"), S("(")>>,
            Rl("extend") \o <<S("."), W("x")>>, Rl("at-root") \o <<S("("), W("with")>>,
            If \o <<S(";"), S("@")>>,
            <<S("$"), W("x"), S(":"), W("calc"), S("("), N, S(")"), S(";")>>
              \o Rl("include") \o <<SpaceW("m"), S(";")>> \o Rl("include") \o <<SpaceW("m"), S(";")>>}
      \cup {<<>>, RuleOf(<<>>) \o <<W("a")>>, <<W("a"), S("{"), W("b"), S(":")>>,
            <<W("a"), S("{"), W("--x"), S(":")>>, <<W("a"), S("{"), S("#{"), N, S("}")>>}
      \cup {<<S("$"), W("x"), S(":")>> \o value :
              value \in {<<>>, <<S("(")>>, <<W("f"), S("(")>>, <<W("calc"), S("(")>>,
                         <<N, SpaceS("-")>>, <<S("str<"), S("#{")>>}}

MCInserted ==
    {<<>>} \cup {<<S(k)>> : k \in {":", ";", ",", "(", ")", "{", "}", "[", "]", ".", "&",
                                   "$", "@", "#{", "#", "!", "+", "-", "*", "/", "|", "=",
                                   "...", "str<", "str|", "str>"}}
      \cup {<<N>>, <<Str>>, <<SpaceS("-")>>, <<W("d")>>, <<SpaceW("d")>>}
      \cup {<<W(w)>> : w \in {"--x", "and", "calc", "url", "if", "to", "as", "with"}}

\* Nested as deep as MaxDepth = 4 lets it be: the rule, its block, the value
\* and the first of the parentheses.
DeepOpening == {<<W("a"), S("{"), W("b"), S(":"), W("calc"), S("("), S("(")>>}
DeepInserted == {<<S("(")>>, <<N>>, <<S(")")>>}
=============================================================================
