----------------------------- MODULE MCRefactor -----------------------------
(***************************************************************************)
(* Small projects, written as lines of words.                              *)
(***************************************************************************)
EXTENDS RefactorProperties

Signs == {"#{", ";", ":", ",", ")", "(", ".", "$", "@", "%", "{", "}", "*", "+", "...", "!"}
TightAfter == {"(", "#{", "$", "@", ".", "%", "{", "p-"}
TightBefore == {"t-", ";", ":", ",", ")", "(", ".", "..."}

IsString(w) == SubSeq(w, 1, 1) = "'"
Token(w, ws, nl) ==
    [kind |-> IF IsString(w) THEN "string" ELSE IF w \in Signs THEN w
              ELSE IF w \in {"1", "2"} THEN "number" ELSE "ident",
     text |-> IF IsString(w) THEN SubSeq(w, 2, Len(w) - 1) ELSE w,
     ws |-> ws, nl |-> nl]

TokensOfLine(words, first) ==
    [k \in DOMAIN words |->
        Token(words[k], IF k = 1 THEN ~first
                        ELSE words[k] \notin TightBefore /\ words[k - 1] \notin TightAfter,
              k = 1 /\ ~first)]
Text(lines) == FlattenSeq([k \in DOMAIN lines |-> TokensOfLine(lines[k], k = 1)])

File(name) == <<"w", name>>
Lib == File("lib.scss")
Partial == File("_lib.scss")
Main == File("main.scss")
Other == File("_other.scss")
More == File("more.scss")

\* A library seen through a namespace, and a module that forwards some of it.
Through ==
    Lib :> Text(<<
           <<"$", "x", ":", "1", ";">>,
           <<"@", "function", "f", "(", "$", "a", ")", "{", "@", "return", "$", "a", ";", "}">>,
           <<"@", "mixin", "m", "{", "@", "mixin", "k", "{", "b", ":", "f", "(", "$", "x", ")", ";", "}">>,
           <<"@", "include", "k", ";", "}">>>>)
    @@ Other :> Text(<<<<"@", "forward", "'lib'", "show", "f", ",", "m", ";">>>>)
    @@ Main :> Text(<<
           <<"@", "use", "'other'", "as", "o", ";">>,
           <<"@", "use", "'lib'", ";">>,
           <<"a", "{", "b", ":", "o", ".", "f", "(", "lib", ".", "$", "x", ")", ";">>,
           <<"@", "include", "o", ".", "m", ";", "}">>>>)

\* The same with a prefix, and the default value of a parameter.
Prefixed ==
    Lib :> Text(<<
           <<"@", "function", "f", "(", "$", "a", ",", "$", "c", ":", "1", ")", "{", "@", "return", "$", "a", ";", "}">>,
           <<"$", "x", ":", "1", ";">>>>)
    @@ Other :> Text(<<<<"@", "forward", "'lib'", "as", "p-", "*", "hide", "$", "x", ";">>>>)
    @@ Main :> Text(<<
           <<"@", "use", "'other'", "as", "*", ";">>,
           <<"a", "{", "b", ":", "p-f", "(", "1", ")", ";">>,
           <<"b", ":", "p-f", "(", ")", ";", "}">>>>)

\* Two libraries with namesakes, one of them used without a namespace.
Namesakes ==
    Lib :> Text(<<
           <<"@", "mixin", "m", "(", "$", "a", ",", "$", "c", ":", "1", ")", "{", "b", ":", "$", "a", ";", "}">>,
           <<"%", "p", "{", "b", ":", "1", ";", "}">>>>)
    @@ Other :> Text(<<
           <<"@", "mixin", "m", "(", "$", "a", ")", "{", "b", ":", "$", "a", ";", "}">>,
           <<"$", "y", ":", "2", ";">>>>)
    @@ Main :> Text(<<
           <<"@", "use", "'lib'", "as", "*", ";">>,
           <<"@", "use", "'other'", ";">>,
           <<"@", "mixin", "n", "{", "@", "include", "m", "(", "1", ",", "2", ")", ";", "}">>,
           <<"a", "{", "@", "extend", "%", "p", ";", "@", "include", "n", ";">>,
           <<"@", "include", "other", ".", "m", "(", "other", ".", "$", "y", ")", ";", "}">>>>)

\* Something to import, to remove and to extract.
Loose ==
    Lib :> Text(<<
           <<"@", "function", "f", "(", "$", "a", ",", "$", "c", ")", "{", "@", "return", "g", "(", "$", "c", ")", ";", "}">>,
           <<"@", "function", "g", "(", "$", "a", ")", "{", "@", "return", "$", "a", ";", "}">>>>)
    @@ More :> Text(<<<<"@", "mixin", "f", "{", "b", ":", "1", ";", "}">>>>)
    @@ Other :> Text(<<<<"@", "function", "h", "(", "$", "a", ",", "$", "c", ")", "{", "@", "return", "$", "a", ";", "}">>>>)
    @@ Main :> Text(<<
           <<"@", "use", "'other'", "as", "o", ";">>,
           <<"@", "use", "'other'", "as", "u", ";">>,
           <<"a", "{", "b", ":">>,
           <<"f", "(", "o", ".", "h", "(", "1", ",", "2", ")", ",", "2", ")", ";">>,
           <<"b", ":", "q", ".", "g", "(", "1", ")", ";", "}">>>>)

\* A chain of forwards, with a list that hides.
Chained ==
    Lib :> Text(<<
           <<"$", "x", ":", "1", ";">>,
           <<"@", "function", "f", "(", "$", "a", ")", "{", "@", "return", "$", "a", ";", "}">>,
           <<"%", "p", "{", "b", ":", "f", "(", "$", "x", ")", ";", "}">>>>)
    @@ Other :> Text(<<<<"@", "forward", "'lib'", ";">>>>)
    @@ More :> Text(<<<<"@", "forward", "'other'", "hide", "$", "x", ";">>>>)
    @@ Main :> Text(<<
           <<"@", "use", "'more'", "as", "*", ";">>,
           <<"@", "use", "'other'", "as", "t", ";">>,
           <<"$", "y", ":", "f", "(", "2", ")", "t", ".", "$", "x", ";">>,
           <<"a", "{", "b", ":", "f", "(", "$", "y", ")", ";", "@", "extend", "%", "p", ";", "}">>>>)

\* No @use to begin with, two files of one stem, a loop, keywords and a rest.
Bare ==
    Lib :> Text(<<
           <<"@", "mixin", "m", "(", "$", "a", ",", "$", "c", "...", ")", "{", "b", ":", "$", "a", ";", "}">>,
           <<"$", "x", ":", "2", ";">>>>)
    @@ Partial :> Text(<<<<"$", "w", ":", "1", ";">>>>)
    @@ Main :> Text(<<
           <<"@", "function", "f", "(", "$", "a", ",", "$", "c", ")", "{", "@", "return", "$", "a", ";", "}">>,
           <<"a", "{", "b", ":", "$", "x", ";", "c", ":", "$", "w", "+", "1", ";", "}">>,
           <<"c", "{", "@", "include", "m", "(", "1", ",", "2", ")", ";">>,
           <<"@", "each", "$", "i", "in", "1", "2", "{">>,
           <<"b", ":", "$", "i", "f", "(", "$", "a", ":", "1", ",", "2", ")", ";">>,
           <<"b", ":", "f", "(", "f", "(", "1", ",", "$", "i", ")", ",", "2", ")", ";", "}", "}">>>>)

\* A library used twice, the first time without a namespace or with one, and
\* two lists in one file, of the same name or of two.
Doubled(namespace, name) ==
    Lib :> Text(<<
           <<"@", "function", "f", "(", "$", "a", ")", "{", "@", "return", "$", "a", ";", "}">>,
           <<"@", "mixin", "m", "{", "b", ":", "f", "(", "1", ")", ";", "}">>>>)
    @@ More :> Text(<<<<"@", "forward", "'lib'", ";">>>>)
    @@ Other :> Text(<<
           <<"@", "forward", "'lib'", "show", "f", ";">>,
           <<"@", "forward", "'more'", "show", name, ";">>>>)
    @@ Main :> Text(<<
           <<"@", "use", "'lib'", "as", namespace, ";">>,
           <<"@", "use", "'lib'", "as", "o", ";">>,
           <<"@", "use", "'other'", ";">>,
           <<"a", "{", "b", ":", "o", ".", "f", "(", "1", ")", ";", "@", "include", "o", ".", "m", ";">>,
           <<"@", "include", "other", ".", "m", ";", "}">>>>)

\* @import, and one name for symbols of three kinds.
Legacy ==
    Lib :> Text(<<
           <<"$", "x", ":", "1", ";">>,
           <<"@", "function", "x", "(", "$", "a", ")", "{", "@", "return", "$", "a", ";", "}">>>>)
    @@ More :> Text(<<<<"@", "mixin", "x", "{", "b", ":", "1", ";", "}">>>>)
    @@ Main :> Text(<<
           <<"@", "import", "'lib'", ",", "'more'", ";">>,
           <<"a", "{", "b", ":", "x", "(", "$", "x", ",", "2", ")", ";", "@", "include", "x", ";", "}">>>>)

\* A built-in module, names beyond ASCII, and an interpolated property.
Foreign ==
    Lib :> Text(<<
           <<"@", "use", "'sass:math'", ";">>,
           <<"@", "mixin", "euro", "(", "$", "a", ")", "{", "b", ":", "math", ".", "div", "(", "$", "a", ",", "2", ")", ";", "}">>>>)
    @@ Main :> Text(<<
           <<"@", "use", "'sass:math'", "as", "*", ";">>,
           <<"@", "use", "'lib'", "as", "clef", ";">>,
           <<"$", "clef", ":", "div", "(", "1", ")", ";", "$", "euro", ":", "$", "clef", "+", "$", "pi", ";">>,
           <<"a", "{", "#{", "$", "clef", "}", "t-", ":", "1", ";", "@", "include", "clef", ".", "euro", "(", "$", "euro", ")", ";">>,
           <<"@", "extend", "%", "q", ";", "}">>>>)

\* A library behind each kind of @forward, used in each way, by names that
\* these let through and by names that they do not.
Forwards == {
    <<>>, <<"show", "f">>, <<"show", "f", ",", "$", "x">>, <<"hide", "f">>,
    <<"hide", "$", "x">>, <<"as", "p-", "*">>, <<"as", "p-", "*", "show", "p-f">>,
    <<"as", "p-", "*", "hide", "x">>}
UsedAs == {<<>>, <<"as", "*">>, <<"as", "o">>}

Behind(clause, name) ==
    Lib :> Text(<<
           <<"$", "x", ":", "1", ";">>,
           <<"@", "function", "f", "(", "$", "a", ")", "{", "@", "return", "$", "a", ";", "}">>>>)
    @@ Other :> Text(<<<<"@", "forward", "'lib'">> \o clause \o <<";">>>>)
    @@ Main :> Text(<<
           <<"@", "use", "'other'">> \o name \o <<";">>,
           <<"a", "{", "b", ":", "f", "(", "$", "x", ")", ";">>,
           <<"b", ":", "p-f", "(", "o", ".", "$", "x", ")", ";">>,
           <<"b", ":", "other", ".", "f", "(", "1", ")", ";", "}">>>>)

MCProjects ==
    {Through, Prefixed, Namesakes, Loose, Chained, Bare, Legacy, Foreign}
      \cup {Doubled(namespace, name) : namespace \in {"*", "l"}, name \in {"f", "m"}}
      \cup {Behind(clause, name) : clause \in Forwards, name \in UsedAs}
MCLoadPaths == <<>>
MCRegistered == <<>>
MCBuiltins == {"sass:math"}
MCBuiltinSymbols ==
    LET symbol(name, kind, params) ==
            [name |-> name, kind |-> kind, params |-> params, range |-> <<1, 1>>,
             selection |-> <<1, 1>>]
    IN  "sass:math" :> <<
            symbol("div", "function",
                   TokensOfLine(<<"(", "$", "number1", ",", "$", "number2", ")">>, TRUE)),
            symbol("pi", "variable", <<>>)>>

\* A Euro sign; a clef, which is a pair of surrogates, and a letter.
MCWide == "euro" :> <<Character(3, 1)>> @@ "clef" :> <<Character(4, 2), Ascii>>
MCCssGlobalFunctions == {"calc"}
=============================================================================
