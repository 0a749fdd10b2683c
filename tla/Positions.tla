------------------------------ MODULE Positions ------------------------------
(***************************************************************************)
(* Where the tokens of a document are in its text, spelled out, and the    *)
(* semantic tokens, each placed relative to the one before                 *)
(* (sass-lsp/src/semantic_tokens.rs).  A blank is one space or line feed.  *)
(***************************************************************************)
EXTENDS Symbols, Conversion

CONSTANT Wide   \* the names with characters beyond ASCII, and those characters

-----------------------------------------------------------------------------
(* Texts as characters.                                                     *)

BlankBefore(token) ==
    IF token.nl THEN <<LineFeed>> ELSE IF token.ws THEN <<Ascii>> ELSE <<>>
Spelling(token) ==
    IF token.text \in DOMAIN Wide THEN Wide[token.text]
    ELSE [k \in 1 .. Len(token.text) + (IF token.kind = "string" THEN 2 ELSE 0) |-> Ascii]
Spelt(token) == BlankBefore(token) \o Spelling(token)

After(place, chars) == Last(PlacesFrom(place, chars))

\* The place after each token, of a text taken by halves.
RECURSIVE PlacesPast(_, _)
PlacesPast(place, text) ==
    IF Len(text) <= 1 THEN [i \in DOMAIN text |-> After(place, Spelt(text[i]))]
    ELSE LET half == Len(text) \div 2
             first == PlacesPast(place, SubSeq(text, 1, half))
         IN  first \o PlacesPast(Last(first), SubSeq(text, half + 1, Len(text)))

\* The places before each token's blank and, last, at the end.
Places(text) == <<Origin>> \o PlacesPast(Origin, text)

\* Where a token begins, and where it ends.
StartOf(text, places, i) == After(places[i], BlankBefore(text[i])).byte
EndOf(places, i) == places[i + 1].byte
EndOfText(places) == Last(places).byte

\* Every place between two characters.
PlacesIn(text, places) ==
    {Origin} \cup UNION {Range(PlacesFrom(places[i], Spelt(text[i]))) : i \in DOMAIN text}

-----------------------------------------------------------------------------
(* Semantic tokens.                                                         *)

\* A token that is to be marked: its first byte, and its length in units.
Marked(doc, places, range, type, modifiers) ==
    IF range = <<>> THEN <<>>
    ELSE <<[start |-> StartOf(doc.text, places, range[1]),
            len |-> (IF range[1] + 1 < range[2] THEN 1 ELSE 0)
                      + Last(PlacesOf(Spelling(doc.text[range[2] - 1]))).unit,
            type |-> type, modifiers |-> modifiers]>>

\* The token of a node, if its kind has one.
SemanticToken(doc, places, n) ==
    LET k == Kind(doc, n)
        variable == SigilIdent(doc, n, "$")
        mark(range, type, modifiers) == Marked(doc, places, range, type, modifiers)
    IN  CASE k = "VARIABLE_DECL" -> mark(variable, "variable", {"declaration"})
          [] k = "VARIABLE_REF" -> mark(variable, "variable", {})
          [] k = "FUNCTION_CALL" -> mark(NthIdent(doc, n, 1), "function", {})
          [] k = "FUNCTION_RULE" -> mark(NthIdent(doc, n, 2), "function", {"declaration"})
          [] k = "MIXIN_RULE" -> mark(NthIdent(doc, n, 2), "mixin", {"declaration"})
          [] k = "INCLUDE_RULE" -> mark(NthIdent(doc, n, 2), "mixin", {})
          [] k = "PARAM" -> mark(variable, "parameter", {})
          [] k = "PROPERTY" -> mark(NthIdent(doc, n, 1), "property", {})
          [] k = "SIMPLE_SELECTOR" -> mark(SigilIdent(doc, n, "%"), "type", {})

MarkedKinds ==
    {"VARIABLE_DECL", "VARIABLE_REF", "FUNCTION_CALL", "FUNCTION_RULE", "MIXIN_RULE",
     "INCLUDE_RULE", "PARAM", "PROPERTY", "SIMPLE_SELECTOR"}

\* Mutant: in the order of the nodes.
AsCollected(tokens) == tokens

ByStart(tokens) == SortSeq(tokens, LAMBDA a, b : a.start < b.start)

\* collect_semantic_tokens
SemanticTokens(doc, places) ==
    ByStart(FoldLeft(LAMBDA s, n : s \o SemanticToken(doc, places, n), <<>>,
                     NodesOf(doc, MarkedKinds)))

\* delta_encode
DeltaEncode(in, end, lines, tokens) ==
    LET next(acc, t) ==
            LET to == ToPosition(in, end, lines, t.start)
            IN  [last |-> to,
                 data |-> Append(acc.data, [delta |-> Delta(acc.last, to), len |-> t.len])]
    IN  FoldLeft(next, [last |-> [line |-> 0, character |-> 0], data |-> <<>>], tokens).data
=============================================================================
