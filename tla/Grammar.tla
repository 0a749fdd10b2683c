------------------------------ MODULE Grammar ------------------------------
(***************************************************************************)
(* The grammar (crates/sass-parser/src/grammar): expressions, selectors,   *)
(* declarations, blocks and at-rules.  A rule is a function from the       *)
(* parser's state to the state it leaves.                                  *)
(*                                                                         *)
(* The context ctx is "script" in Sass code and "css" in property values.  *)
(* A word stands for a class of names: "true" for a literal, "url" for a   *)
(* function whose arguments are opaque, "calc" for a calculation, "--x"    *)
(* for a custom property, "to" for through too, "with" for without.        *)
(***************************************************************************)
EXTENDS Lookahead

\* All recursion of the grammar goes through Rule: rules that others use are
\* called by name, and defined below under the names of the source.
RECURSIVE Rule(_, _)

ExprBp(p, min, ctx) == Rule(<<"expr_bp", min, ctx>>, p)
Expr(p, ctx) == ExprBp(p, 0, ctx)
SassValue(p, ctx) == Rule(<<"sass_value", ctx>>, p)
SassValueList(p) == Rule(<<"sass_value_list">>, p)
Interpolation(p) == Rule(<<"interpolation">>, p)
InterpolatedString(p) == Rule(<<"interpolated_string">>, p)
ArgList(p, ctx) == Rule(<<"arg_list", ctx>>, p)
FunctionDispatch(p, ctx) == Rule(<<"function_dispatch", ctx>>, p)
CalcSum(p) == Rule(<<"calc_sum">>, p)
CalcValue(p) == Rule(<<"calc_value">>, p)
VariableDeclaration(p) == Rule(<<"variable_declaration">>, p)
Declaration(p) == Rule(<<"declaration">>, p)
Selector(p) == Rule(<<"selector">>, p)
Block(p) == Rule(<<"block">>, p)
BlockItem(p) == Rule(<<"block_item">>, p)
AtRule(p) == Rule(<<"at_rule">>, p)

-----------------------------------------------------------------------------
(* Lists of values.                                                         *)

sass_value(p, ctx) ==
    LET first == Expr(p, ctx)
        more(q) == /\ ~AtValueEnd(q) /\ ~AtAny(q, {",", ")", "]"})
                   /\ AtAny(q, ExprStart)
        next(q) == IF At(q, "/") THEN Bump(q) ELSE Expr(q, ctx)
    IN  IF first.result = 0 THEN first
        ELSE [While(first, more, next) EXCEPT !.result = first.result]

sass_value_list(p) ==
    LET first == SassValue(p, "script")
        item(q) == IF AtValueEnd(q) THEN q ELSE SassValue(q, "script")
    IN  IF first.result = 0 \/ ~At(first, ",") THEN first
        ELSE Complete(Separated(Precede(first, first.result), ",", item),
                      Marker(first), "LIST_EXPR")

interpolation(p) ==
    LET body(q) == IF At(q, "}") THEN Error(q)
                   ELSE IF AtEnd(q) THEN q
                   ELSE SassValueList(q)
    IN  IF ~At(p, "#{") THEN Halt(p, "panic")
        ELSE Node(p, "INTERPOLATION",
                  Expect(body(Bump(Start(p))), "}"))

\* An interpolation or whatever single token is there.
TakeOpaque(p) == IF At(p, "#{") THEN Interpolation(p) ELSE Bump(p)

\* Item, then further ones after commas, up to the bracket that closes.
UpTo(p, close, Item(_)) ==
    LET item(q) == IF AtAny(q, {close, "EOF"}) THEN q ELSE Item(q)
    IN  Expect(IF AtAny(p, {close, "EOF"}) THEN p
               ELSE Separated(Item(p), ",", item), close)

-----------------------------------------------------------------------------
(* Operators.                                                               *)

\* Operators that bind tighter than min, applied to the operand just parsed.
RECURSIVE Infix(_, _, _)
Infix(p, min, ctx) ==
    LET bp == InfixBp(p, ctx)
        operand == ExprBp(Bump(Precede(p, p.result)), bp + 1, ctx)
    IN  IF IsSign(p) \/ bp = 0 \/ bp < min THEN p
        ELSE Infix(Complete(operand, Marker(p), "BINARY_EXPR"), min, ctx)

-----------------------------------------------------------------------------
(* Calls.                                                                   *)

\* `!word` as a node of its own.
Flag(p, kind) == Node(p, kind, Bump2(Start(p)))

Arg(p, ctx) ==
    LET keyword == At(p, "$") /\ Nth(p, 1) = "ident" /\ Nth(p, 2) = ":"
        flag(q) == IF AtFlag(q, {"important"}) THEN Flag(q, "IMPORTANT") ELSE q
    IN  Node(p, "ARG", IF keyword THEN SassValue(Bump(Bump2(Start(p))), ctx)
                       ELSE flag(Eat(SassValue(Start(p), ctx), "...")))

arg_list(p, ctx) ==
    IF ~At(p, "(") THEN Halt(p, "panic")
    ELSE Node(p, "ARG_LIST",
              UpTo(Bump(Start(p)), ")", LAMBDA r : Arg(r, ctx)))

FunctionCall(p, ctx) ==
    Node(p, "FUNCTION_CALL", ArgList(Bump(Start(p)), ctx))

\* The parentheses and what is in them, unread.
OpaqueArguments(p) == EatBalanced(p, "(", ")", TakeOpaque)

SpecialFunctionCall(p) ==
    IF Nth(p, 1) # "(" THEN Node(p, "VALUE", Bump(Start(p)))
    ELSE Node(p, "SPECIAL_FUNCTION_CALL", OpaqueArguments(Bump(Start(p))))

\* progid:Name.Space(...)
ProgidFunctionCall(p) ==
    LET name == While(Start(p), LAMBDA q : ~AtAny(q, {"(", ";", "}", "EOF"}), Bump)
    IN  Node(p, "SPECIAL_FUNCTION_CALL",
             IF At(name, "(") THEN OpaqueArguments(name) ELSE name)

Calculation(p) ==
    Node(p, "CALCULATION",
         UpTo(Expect(Bump(Start(p)), "("), ")", CalcSum))

function_dispatch(p, ctx) ==
    LET name == NthText(p, 0)
    IN  IF name = "url" \/ (name = "if" /\ IsCssIf(p)) \/ HasEqInArgs(p)
          THEN SpecialFunctionCall(p)
        ELSE IF name = "calc" /\ ~HasSassSignals(p) THEN Calculation(p)
        ELSE FunctionCall(p, ctx)

-----------------------------------------------------------------------------
(* Calculations.                                                            *)

CalcValueStart == {"number", "ident", "$", "#{", "(", "-", "+"}

VariableRef(p) == Node(p, "VARIABLE_REF", Expect(Bump(Start(p)), "ident"))

\* The number and a unit or a percent sign right after it.
NumberOrDimension(p) ==
    IF Nth(p, 1) \in {"ident", "%"} /\ ~NthSpaced(p, 1)
      THEN Node(p, "DIMENSION", Bump2(Start(p)))
      ELSE Node(p, "NUMBER_LITERAL", Bump(Start(p)))

\* What was parsed first, then further turns; a node only if there are any.
Repeated(p, kind, first, Go(_), Body(_)) ==
    IF Go(first) THEN Node(p, kind, While(first, Go, Body))
    ELSE Abandon(first, Marker(p))

CalcProduct(p) ==
    Repeated(p, "CALC_PRODUCT", CalcValue(Start(p)),
             LAMBDA q : AtAny(q, {"*", "/"}), LAMBDA q : CalcValue(Bump(q)))

calc_sum(p) ==
    LET sign(q) == AtAny(q, {"+", "-"}) /\ Spaced(q)
        go(q) == sign(q) \/ AtAny(q, CalcValueStart \ {"+", "-"})
        body(q) == CalcProduct(IF sign(q) THEN Bump(q) ELSE q)
    IN  Repeated(p, "CALC_SUM", CalcProduct(Start(p)), go, body)

calc_value(p) ==
    LET call(q) == IF NthText(q, 0) = "calc" THEN Calculation(q)
                   ELSE FunctionCall(q, "css")
        isCall(q) == At(q, "ident") /\ Nth(q, 1) = "(" /\ ~NthSpaced(q, 1)
        other(q) ==
            CASE At(q, "number") -> NumberOrDimension(q)
              [] At(q, "$") -> VariableRef(q)
              [] AtAny(q, {"ident", "..."}) -> Bump(q)
              [] At(q, "#{") -> Interpolation(q)
              [] At(q, "(") -> Expect(CalcSum(Bump(q)), ")")
              [] AtAny(q, {"-", "+"}) -> CalcValue(Bump(q))
              [] OTHER -> Error(q)
    IN  Guarded(p, LAMBDA g : IF isCall(g) THEN Abandon(call(Start(g)), Marker(g))
                              ELSE Node(g, "CALC_VALUE", other(Start(g))),
                None)

-----------------------------------------------------------------------------
(* Atoms.                                                                   *)

\* What is written without a space after an interpolation belongs to it.
Fragments(p) ==
    While(p, LAMBDA q : ~Spaced(q) /\ AtAny(q, {"-", "ident", "number", "#{"}),
          TakeOpaque)

interpolated_string(p) ==
    LET parts(q) == While(q, LAMBDA r : AtAny(r, {"#{", "str|"}), TakeOpaque)
        end(q) == IF At(q, "str>") THEN Bump(q) ELSE Error(q)
    IN  Node(p, "INTERPOLATED_STRING", end(parts(Bump(Start(p)))))

ColorLiteral(p) ==
    LET digits(q) == ~Spaced(q) /\ AtAny(q, {"ident", "number"})
    IN  Node(p, "COLOR_LITERAL", While(Bump(Start(p)), digits, Bump))

\* Completes a name at marker m, as a call if arguments follow it.
NameOrCall(p, m, ctx) ==
    IF Called(p) THEN Complete(ArgList(p, ctx), m, "FUNCTION_CALL")
    ELSE Complete(p, m, "VALUE")

\* A name, perhaps with interpolations in it.
PlainIdent(p, ctx) ==
    LET name == Bump(Start(p))
    IN  IF At(name, "#{") /\ ~Spaced(name)
          THEN NameOrCall(Fragments(Interpolation(name)), Marker(p), ctx)
          ELSE Complete(name, Marker(p), "VALUE")

IdentOrCall(p, ctx) ==
    LET text == NthText(p, 0)
        qualified == Nth(p, 1) = "." /\ ~NthSpaced(p, 1) /\ ~NthSpaced(p, 2)
    IN  IF qualified /\ Nth(p, 2) = "$" /\ Nth(p, 3) = "ident"
          THEN Node(p, "NAMESPACE_REF", Bump2(Bump2(Start(p))))
        ELSE IF qualified /\ Nth(p, 2) = "ident" /\ Nth(p, 3) = "("
          THEN Node(p, "NAMESPACE_REF", FunctionDispatch(Bump2(Start(p)), ctx))
        ELSE IF text = "true" THEN Node(p, "LITERAL", Bump(Start(p)))
        ELSE IF ctx = "script" /\ text \in {"and", "or"} THEN None(p)
        ELSE IF text = "progid" /\ Nth(p, 1) = ":" THEN ProgidFunctionCall(p)
        ELSE IF Nth(p, 1) = "(" /\ ~NthSpaced(p, 1) THEN FunctionDispatch(p, ctx)
        ELSE PlainIdent(p, ctx)

BangDispatch(p) ==
    CASE AtFlag(p, {"important"}) -> Flag(p, "IMPORTANT")
      [] AtFlag(p, {"default", "global", "optional"}) -> Flag(p, "SASS_FLAG")
      [] OTHER -> Node(p, "ERROR", Error(Bump(Start(p))))

InterpolationAtom(p, ctx) ==
    LET cm == Interpolation(p)
        call(q) == Complete(ArgList(q, ctx), Marker(cm), "FUNCTION_CALL")
    IN  IF Spaced(cm) \/ ~AtAny(cm, {"-", "ident", "number", "#{", "("}) THEN cm
        ELSE LET q == Precede(cm, cm.result)
             IN  IF At(q, "(") THEN call(q)
                 ELSE NameOrCall(Fragments(q), Marker(cm), ctx)

\* A list within parentheses ends before these.
GroupEnd == {",", ")", ":", "EOF"}

\* Values one after the other, as far as they are values.
Group(p) == WhileSome(p, LAMBDA q : ~AtAny(q, GroupEnd),
                      LAMBDA q : Expr(q, "script"))

\* The key just parsed, if any, becomes part of the first entry.
FinishMap(p, outer, key) ==
    LET value(q) == SassValue(Expect(q, ":"), "script")
        entry(q) == Node(q, "MAP_ENTRY",
                         value(Group(Expr(Start(q), "script"))))
        first == Complete(value(IF key = 0 THEN Start(p) ELSE Precede(p, key)),
                          Marker(p), "MAP_ENTRY")
        item(q) == IF AtAny(q, {")", "EOF"}) THEN q ELSE entry(q)
    IN  Complete(Expect(Separated(first, ",", item), ")"), outer, "MAP_EXPR")

ParenOrMap(p) ==
    LET open == Bump(Start(p))
        first == Expr(open, "script")
        group == Group(first)
        item(q) == IF AtAny(q, {")", "EOF"}) THEN q ELSE SassValue(q, "script")
        m == Marker(p)
    IN  IF At(open, ")") THEN Complete(Bump(open), m, "LIST_EXPR")
        ELSE IF At(group, ":") THEN FinishMap(group, m, first.result)
        ELSE IF At(group, ",")
          THEN Complete(Expect(Separated(group, ",", item), ")"), m, "LIST_EXPR")
          ELSE Complete(Expect(group, ")"), m, "PAREN_EXPR")

BracketedList(p, ctx) ==
    Node(p, "BRACKETED_LIST",
         UpTo(Bump(Start(p)), "]", LAMBDA r : SassValue(r, ctx)))

Atom(p, ctx) ==
    LET k == Nth(p, 0)
    IN  CASE k = "number" -> NumberOrDimension(p)
          [] k = "string" -> Node(p, "STRING_LITERAL", Bump(Start(p)))
          [] k = "str<" -> InterpolatedString(p)
          [] k = "#" -> ColorLiteral(p)
          [] k = "#{" -> InterpolationAtom(p, ctx)
          [] k = "$" -> VariableRef(p)
          [] k = "ident" -> IdentOrCall(p, ctx)
          [] k = "(" -> ParenOrMap(p)
          [] k = "[" -> BracketedList(p, ctx)
          [] k = "%" -> Node(p, "STANDALONE_PERCENT", Bump(Start(p)))
          [] k = "!" -> BangDispatch(p)
          [] k \in {"/", "&"} -> Node(p, "VALUE", Bump(Start(p)))
          [] OTHER -> None(Error(p))

\* lhs: a prefix operator and its operand, or an atom.
Lhs(p, ctx) ==
    IF AtAny(p, {"-", "+"}) \/ (ctx = "script" /\ AtWord(p, {"not"}))
      THEN Node(p, "UNARY_EXPR", ExprBp(Bump(Start(p)), 13, ctx))
      ELSE Atom(p, ctx)

expr_bp(p, min, ctx) ==
    LET operators(q) == IF q.result = 0 THEN q ELSE Infix(q, min, ctx)
    IN  Guarded(p, LAMBDA g : operators(Lhs(g, ctx)), None)

-----------------------------------------------------------------------------
(* Variables.                                                               *)

\* `if !at(RBRACE) && !at_end() { expect(SEMICOLON) }`
EndOfStatement(p) == IF AtAny(p, {"}", "EOF"}) THEN p ELSE Expect(p, ";")

variable_declaration(p) ==
    LET value(q) == SassValueList(Expect(Expect(Bump(q), "ident"), ":"))
        flags(q) == While(q, LAMBDA r : AtFlag(r, {"default", "global"}),
                          LAMBDA r : Flag(r, "SASS_FLAG"))
    IN  Node(p, "VARIABLE_DECL", EndOfStatement(flags(value(Start(p)))))

-----------------------------------------------------------------------------
(* Selectors.                                                               *)

EatAny(p, set) == IF AtAny(p, set) THEN Bump(p) ELSE p

\* An interpolation, or a token of the set.
InterpolationOr(p, set) ==
    IF At(p, "#{") THEN Interpolation(p)
    ELSE IF AtAny(p, set) THEN Bump(p) ELSE Error(p)

\* `ns|name`, and the arguments of an escaped pseudo-class.
ElementName(p) ==
    LET name == IF At(p, "|") /\ ~Spaced(p) THEN EatAny(Bump(p), {"ident", "*"})
                ELSE p
    IN  IF Called(name) THEN EatBalanced(name, "(", ")", Bump) ELSE name

\* What follows the dot of a class; a hyphen may come before an interpolation.
ClassName(p) ==
    LET rest == Bump(p)
    IN  IF ~At(p, "-") \/ Spaced(p) THEN InterpolationOr(p, {"ident"})
        ELSE IF At(rest, "#{") /\ ~Spaced(rest) THEN Interpolation(rest) ELSE rest

PseudoName(p) ==
    LET name == InterpolationOr(p, {"ident"})
    IN  IF At(name, "(") THEN EatBalanced(name, "(", ")", Bump) ELSE name

SimpleSelector(p) ==
    LET k == Nth(p, 0)
        rest == Bump(Start(p))
        suffix == IF Spaced(rest) THEN rest ELSE EatAny(rest, {"ident", "-"})
    IN  CASE k \in {"ident", "*"} -> Node(p, "SIMPLE_SELECTOR", ElementName(rest))
          [] k = "|" -> Node(p, "SIMPLE_SELECTOR", EatAny(rest, {"ident", "*"}))
          [] k = "." -> Node(p, "SIMPLE_SELECTOR", ClassName(rest))
          [] k \in {"#", "%"} ->
               Node(p, "SIMPLE_SELECTOR",
                    InterpolationOr(rest, {"ident"} \cup IF k = "#" THEN {"number"} ELSE {}))
          [] k = "&" -> Node(p, "SIMPLE_SELECTOR", suffix)
          [] k \in {":", "::"} -> Node(p, "PSEUDO_SELECTOR", PseudoName(rest))
          [] k = "[" -> Node(p, "ATTR_SELECTOR", EatBalanced(Start(p), "[", "]", Bump))
          [] k = "#{" -> Interpolation(p)
          [] OTHER -> ErrAndBump(p)

\* Simple selectors and what connects them, without white space.
CompoundSelector(p) ==
    LET joined(q) == ~Spaced(q) /\ AtAny(q, SelectorStart \cup {"-", "number", "error"})
        next(q) == IF AtAny(q, SelectorStart) THEN SimpleSelector(q) ELSE Bump(q)
    IN  While(SimpleSelector(p), joined, next)

selector(p) ==
    LET next(q) == IF AtAny(q, CombinatorToken) THEN Node(q, "COMBINATOR", Bump(Start(q)))
                   ELSE CompoundSelector(q)
    IN  IF AtSelector(p) THEN Node(p, "SELECTOR", While(Start(p), AtSelector, next))
        ELSE Abandon(Error(Start(p)), Marker(p))

\* An empty place after a comma is passed over.
SelectorList(p) ==
    LET item(q) == IF AtSelector(q) THEN Selector(q) ELSE q
    IN  Node(p, "SELECTOR_LIST", Separated(Selector(Start(p)), ",", item))

-----------------------------------------------------------------------------
(* Blocks.                                                                  *)

SkipUntilBlockEnd(p) ==
    LET end(q) == IF q.pos = p.pos THEN Abandon(q, Marker(p)) ELSE Node(p, "ERROR", q)
    IN  end(Skip(Start(p), 0, "{", "}", LAMBDA q, k : k > 0 \/ ~At(q, "}"), Bump))

OptionalBlock(p) == IF At(p, "{") THEN Block(p) ELSE p

\* Item(_) up to the closing brace.
Body(p, Item(_)) ==
    Expect(While(Bump(p), LAMBDA q : ~AtAny(q, {"}", "EOF"}),
                 LAMBDA q : IF At(q, ";") THEN Bump(q) ELSE Item(q)), "}")

GuardedBlock(p, Item(_)) ==
    LET body(g) == IF At(g, "{") THEN Node(g, "BLOCK", Body(Start(g), Item))
                   ELSE Halt(g, "panic")
    IN  Guarded(p, body, SkipUntilBlockEnd)

AtBlockItem(p) == AtAny(p, {"@", "$", "-"} \cup SelectorStart \cup CombinatorToken)

block(p) ==
    GuardedBlock(p, LAMBDA q : IF AtBlockItem(q) THEN BlockItem(q) ELSE ErrAndBump(q))

\* NUMBER [%], a name or an interpolation, and more after commas.
RECURSIVE KeyframeStops(_)
KeyframeStops(p) ==
    LET stop == IF At(p, "number") /\ Nth(p, 1) = "%" /\ ~NthSpaced(p, 1)
                  THEN Bump2(p) ELSE TakeOpaque(p)
    IN  IF ~AtAny(p, {"number", "ident", "#{"}) THEN p
        ELSE IF At(stop, ",") THEN KeyframeStops(Bump(stop)) ELSE stop

GenericKeyframeBlock(p) ==
    Node(p, "KEYFRAME_SELECTOR", OptionalBlock(KeyframeStops(Start(p))))

GenericAtRuleBlock(p) ==
    GuardedBlock(p, LAMBDA q : IF AtBlockItem(q) THEN BlockItem(q)
                               ELSE IF At(q, "number") THEN GenericKeyframeBlock(q)
                               ELSE ErrAndBump(q))

-----------------------------------------------------------------------------
(* Declarations.                                                            *)

PropertyStart == {"ident", "#{", "-", "*"}

Property(p) ==
    LET joined(q) == ~Spaced(q) /\ AtAny(q, PropertyStart)
    IN  Node(p, "PROPERTY",
             IF AtAny(p, PropertyStart)
               THEN While(TakeOpaque(Start(p)), joined, TakeOpaque)
               ELSE Error(Start(p)))

ValueEnd == {";", "}", "{", "EOF"}

\* Mutant: a value begins, and nothing is consumed when it cannot.
ValueInPlace(p) ==
    LET final(q) == AtFlag(q, {"important"}) /\ Nth(q, 2) \in ValueEnd
        more(q) == ~AtAny(q, ValueEnd) /\ ~final(q)
        next(q) == IF AtAny(q, {"!", "/", ","}) THEN Some(Bump(q))
                   ELSE Some(Expr(q, "css"))
    IN  Node(p, "VALUE", WhileSome(Start(p), more, next))

Value(p) ==
    LET final(q) == AtFlag(q, {"important"}) /\ Nth(q, 2) \in ValueEnd
        more(q) == ~AtAny(q, ValueEnd) /\ ~final(q)
        next(q) == IF AtAny(q, ExprStart \ {"!", "/"}) THEN Expr(q, "css")
                   ELSE Some(Bump(q))
        end(q) == IF q.pos = p.pos /\ ~AtAny(q, ValueEnd) THEN ErrAndBump(q) ELSE q
    IN  Node(p, "VALUE", end(WhileSome(Start(p), more, next)))

\* Anything at all up to ";" or "}" outside brackets of every kind.
CustomPropertyValue(p) ==
    LET closes == [k \in {")", "]", "}"} |->
                     CASE k = ")" -> "(" [] k = "]" -> "[" [] k = "}" -> "{"]
        RECURSIVE go(_, _)
        go(q, open) ==
          LET k == Nth(q, 0)
          IN  IF k = "EOF" \/ (k \in {";", "}"} /\ \A b \in DOMAIN open : open[b] = 0)
                THEN q
              ELSE IF k \in DOMAIN open THEN go(Bump(q), [open EXCEPT ![k] = @ + 1])
              ELSE IF k \in DOMAIN closes
                THEN go(Bump(q), [open EXCEPT ![closes[k]] = IF @ = 0 THEN 0 ELSE @ - 1])
              ELSE go(TakeOpaque(q), open)
    IN  Node(p, "VALUE", go(Start(p), [k \in {"(", "[", "{"} |-> 0]))

\* custom_property_declaration, css_function_body_declaration
RawDeclaration(p, kind) ==
    LET value(q) == IF AtAny(q, {";", "}", "EOF"}) THEN q ELSE CustomPropertyValue(q)
    IN  Node(p, kind, EndOfStatement(value(Expect(Property(Start(p)), ":"))))

\* A block makes it a nested property, with a value or without.
declaration(p) ==
    LET value(q) == IF AtAny(q, ValueEnd) THEN q ELSE Value(q)
        flag(q) == IF AtFlag(q, {"important"}) THEN Flag(q, "IMPORTANT") ELSE q
        end(q) == IF At(q, "{") THEN Node(p, "NESTED_PROPERTY", Block(q))
                  ELSE Node(p, "DECLARATION", EndOfStatement(q))
    IN  IF AtWord(p, {"--x"}) THEN RawDeclaration(p, "CUSTOM_PROPERTY_DECL")
        ELSE end(flag(value(Expect(Property(Start(p)), ":"))))

CssFunctionBlock(p) ==
    GuardedBlock(p, LAMBDA q :
        IF At(q, "@") THEN AtRule(q)
        ELSE IF AtAny(q, PropertyStart) THEN RawDeclaration(q, "DECLARATION")
        ELSE ErrAndBump(q))

-----------------------------------------------------------------------------
(* Items.                                                                   *)

RuleSet(p) ==
    Guarded(p, LAMBDA g : Node(g, "RULE_SET",
                               OptionalBlock(SelectorList(Start(g)))),
            SkipUntilBlockEnd)

NamespaceVariableAssignment(p) ==
    LET name(q) == Expect(Expect(Bump(Bump2(q)), "ident"), ":")
        value(q) == IF AtAny(q, {";", "}", "EOF"}) THEN q
                    ELSE SassValueList(q)
    IN  Node(p, "VARIABLE_DECL", EndOfStatement(value(name(Start(p)))))

\* What is recognised the same way at the top level and in blocks.
AtVariable(p) == At(p, "$") \/ AtNamespaceVarAssignment(p)
AnyVariable(p) == IF At(p, "$") THEN VariableDeclaration(p)
                  ELSE NamespaceVariableAssignment(p)

block_item(p) ==
    IF At(p, "@") THEN AtRule(p)
    ELSE IF AtVariable(p) THEN AnyVariable(p)
    ELSE IF LooksLikeDeclaration(p) THEN Declaration(p)
    ELSE IF AtSelector(p) THEN RuleSet(p)
    ELSE ErrAndBump(p)

\* Tokens up to where an item may begin.
ExpectedRule(p) ==
    Node(p, "ERROR",
         While(Bump(Error(Start(p))),
               LAMBDA q : ~AtSelector(q) /\ ~AtAny(q, {"@", ";", "$", "EOF"}), Bump))

TopLevelItem(p) ==
    IF At(p, "@") THEN AtRule(p)
    ELSE IF AtVariable(p) THEN AnyVariable(p)
    ELSE IF AtSelector(p) THEN RuleSet(p)
    ELSE IF At(p, ";") THEN Bump(p)
    ELSE ExpectedRule(p)

-----------------------------------------------------------------------------
(* At-rules: what they have in common.                                      *)

StatementEnd == {";", "}", "EOF"}
BlockStop == {"{", "}", ";"}

\* The node of an at-rule, past its `@word`.
Keyword(p) == Bump2(Start(p))

BlockOrEnd(p) == IF At(p, "{") THEN Block(p) ELSE EndOfStatement(p)
BumpUntil(p, stop) == While(p, LAMBDA q : ~AtAny(q, stop), Bump)
OptionalParens(p) == IF At(p, "(") THEN EatBalanced(p, "(", ")", Bump) ELSE p
ExpectWord(p, words) == IF AtWord(p, words) THEN Bump(p) ELSE Error(p)
Variable(p) == Expect(Expect(p, "$"), "ident")

\* eat_opaque_condition
OpaqueCondition(p) ==
    Skip(p, 0, "(", ")", LAMBDA q, k : k > 0 \/ ~AtAny(q, BlockStop), TakeOpaque)

\* A name with interpolations, at most its first part after white space.
NameFragments(p) ==
    LET part == {"ident", "-", "#{"}
    IN  IF ~AtAny(p, part) THEN p
        ELSE While(TakeOpaque(p), LAMBDA q : AtAny(q, part) /\ ~Spaced(q), TakeOpaque)

GenericAtRule(p) ==
    LET take(q) == IF At(q, "(") THEN OptionalParens(q) ELSE TakeOpaque(q)
        prelude(q) == While(q, LAMBDA r : ~AtAny(r, BlockStop \cup {"EOF"}), take)
        end(q) == IF At(q, "{") THEN GenericAtRuleBlock(q) ELSE EndOfStatement(q)
    IN  Node(p, "GENERIC_AT_RULE",
             end(prelude(NameFragments(Bump(Start(p))))))

-----------------------------------------------------------------------------
(* Mixins and functions.                                                    *)

Param(p) ==
    LET default(q) == IF At(q, ":") THEN SassValue(Bump(q), "script") ELSE q
    IN  Node(p, "PARAM", Eat(default(Variable(Start(p))), "..."))

ParamList(p) == Node(p, "PARAM_LIST", UpTo(Bump(Start(p)), ")", Param))
OptionalParams(p) == IF At(p, "(") THEN ParamList(p) ELSE p
OptionalArgs(p) == IF At(p, "(") THEN ArgList(p, "script") ELSE p

MixinRule(p) ==
    Node(p, "MIXIN_RULE",
         OptionalBlock(OptionalParams(Expect(Keyword(p), "ident"))))

IncludeRule(p) ==
    LET qualified(q) == /\ \A i \in 0 .. 2 : Nth(q, i) = <<"ident", ".", "ident">>[i + 1]
                        /\ ~NthSpaced(q, 1) /\ ~NthSpaced(q, 2)
        name(q) == IF qualified(q)
                     THEN Node(q, "NAMESPACE_REF", Bump(Bump2(Start(q))))
                     ELSE Expect(q, "ident")
        using(q) == IF AtWord(q, {"using"}) THEN OptionalParams(Bump(q)) ELSE q
    IN  Node(p, "INCLUDE_RULE", BlockOrEnd(using(OptionalArgs(name(Keyword(p))))))

ContentRule(p) == Node(p, "CONTENT_RULE", EndOfStatement(OptionalArgs(Keyword(p))))

FunctionRule(p) ==
    LET params(q) == IF At(q, "(") THEN ParamList(q) ELSE Error(q)
    IN  Node(p, "FUNCTION_RULE", OptionalBlock(params(Expect(Keyword(p), "ident"))))

CssFunctionRule(p) ==
    LET name(q) == LET r == NameFragments(q) IN IF r.pos = q.pos THEN Error(r) ELSE r
        body(q) == IF At(q, "{") THEN CssFunctionBlock(q) ELSE Error(q)
    IN  Node(p, "GENERIC_AT_RULE",
             body(BumpUntil(OptionalParens(name(Keyword(p))), BlockStop \cup {"EOF"})))

\* @return, @error, @warn, @debug
ValueRule(p, kind) ==
    Node(p, kind, EndOfStatement(SassValueList(Keyword(p))))

-----------------------------------------------------------------------------
(* Control flow.                                                            *)

\* The offset of an `@else` or `@elseif`: at the token, or after a ";".
Else(p, i) == Nth(p, i) = "@" /\ NthText(p, i + 1) \in {"else", "elseif"}

ElseClause(p) ==
    LET elseif == NthText(p, 1) = "elseif"
        elseIf == NthText(p, 1) = "else" /\ Nth(p, 2) = "ident" /\ NthText(p, 2) = "if"
        test(q) == IF elseif THEN Expr(q, "script")
                   ELSE IF elseIf THEN Expr(Bump(q), "script") ELSE q
    IN  Node(p, "ELSE_CLAUSE", OptionalBlock(test(Keyword(p))))

IfRule(p) ==
    LET clauses(q) == While(q, LAMBDA r : Else(r, 0) \/ (At(r, ";") /\ Else(r, 1)),
                            LAMBDA r : ElseClause(Eat(r, ";")))
    IN  Node(p, "IF_RULE", clauses(OptionalBlock(Expr(Keyword(p), "script"))))

ForRule(p) ==
    LET from(q) == Expr(ExpectWord(Variable(q), {"from"}), "script")
        to(q) == Expr(ExpectWord(q, {"to"}), "script")
    IN  Node(p, "FOR_RULE", OptionalBlock(to(from(Keyword(p)))))

EachList(p) ==
    LET end(q) == AtAny(q, BlockStop \cup {"EOF"})
        next(q) == LET r == Eat(q, ",") IN IF end(r) THEN Some(r) ELSE Expr(r, "script")
    IN  IF end(p) THEN Error(p)
        ELSE WhileSome(Expr(p, "script"), LAMBDA q : ~end(q), next)

EachRule(p) ==
    LET names(q) == Separated(Variable(q), ",", Variable)
    IN  Node(p, "EACH_RULE",
             OptionalBlock(EachList(ExpectWord(names(Keyword(p)), {"in"}))))

WhileRule(p) == Node(p, "WHILE_RULE", OptionalBlock(Expr(Keyword(p), "script")))

-----------------------------------------------------------------------------
(* Selectors and conditions.                                                *)

\* Its selectors are not parsed, but white space within one is an error.
ExtendRule(p) ==
    LET simple == {"ident", ".", "#", "%", ":", "::", "["}
        RECURSIVE go(_, _)
        go(q, seen) ==
          IF AtAny(q, StatementEnd \cup {"!"})
            THEN IF seen.descendant /\ ~seen.interpolation THEN Error(q) ELSE q
          ELSE IF At(q, ",") THEN go(Bump(q), [seen EXCEPT !.token = FALSE])
          ELSE IF At(q, "#{")
            THEN go(Interpolation(q), [seen EXCEPT !.token = TRUE, !.interpolation = TRUE])
          ELSE go(Bump(q), [seen EXCEPT !.token = TRUE,
                              !.descendant = @ \/ (seen.token /\ Spaced(q) /\ AtAny(q, simple))])
        nothing == [token |-> FALSE, descendant |-> FALSE, interpolation |-> FALSE]
        targets(q) == go(IF AtAny(q, StatementEnd) THEN Error(q) ELSE q, nothing)
        flag(q) == LET r == Bump(Start(q))
                   IN  IF ~At(q, "!") THEN q
                       ELSE IF AtWord(r, {"optional"})
                         THEN Complete(Bump(r), Marker(q), "SASS_FLAG")
                         ELSE Abandon(Error(r), Marker(q))
    IN  Node(p, "EXTEND_RULE", EndOfStatement(flag(targets(Keyword(p)))))

AtRootQuery(p) ==
    LET head(q) == Expect(ExpectWord(Bump(q), {"with"}), ":")
        names(q) == While(q, LAMBDA r : AtAny(r, {"ident", "string"}), Bump)
    IN  Node(p, "AT_ROOT_QUERY", Expect(names(head(Start(p))), ")"))

AtRootRule(p) ==
    LET query(q) == IF At(q, "(") THEN AtRootQuery(q) ELSE q
        selectors(q) == IF AtAny(q, StatementEnd \cup {"{"}) THEN q ELSE SelectorList(q)
    IN  Node(p, "AT_ROOT_RULE", OptionalBlock(selectors(query(Keyword(p)))))

\* @media, @supports; @container and @scope make no node of the condition.
ConditionRule(p, kind, condition) ==
    LET test(q) == Node(q, condition, OpaqueCondition(Start(q)))
    IN  Node(p, kind, OptionalBlock(test(Keyword(p))))
ContainerRule(p) ==
    Node(p, "CONTAINER_RULE", OptionalBlock(OpaqueCondition(Eat(Keyword(p), "ident"))))
ScopeRule(p) == Node(p, "SCOPE_RULE", OptionalBlock(OpaqueCondition(Keyword(p))))

KeyframeSelector(p) ==
    LET number == Bump(p)
    IN  CASE At(p, "ident") -> Bump(IF AtWord(p, {"from", "to"}) THEN p ELSE Error(p))
          [] At(p, "number") -> IF At(number, "%") /\ ~Spaced(number) THEN Bump(number)
                                ELSE number
          [] At(p, "#{") -> Interpolation(p)
          [] OTHER -> Error(p)

KeyframeBlock(p) ==
    Node(p, "KEYFRAME_SELECTOR",
         OptionalBlock(Separated(KeyframeSelector(Start(p)), ",", KeyframeSelector)))

\* The block is not guarded, as the others are.
KeyframesRule(p) ==
    LET name(q) == CASE AtAny(q, {"#{", "ident"}) -> TakeOpaque(q)
                     [] At(q, "$") -> Eat(Bump(q), "ident")
                     [] OTHER -> q
        item(q) == IF At(q, "$") THEN VariableDeclaration(q)
                   ELSE IF At(q, "ident") /\ Nth(q, 1) = ":" THEN Declaration(q)
                   ELSE IF AtAny(q, {"ident", "number", "#{"}) THEN KeyframeBlock(q)
                   ELSE IF At(q, "@") THEN AtRule(q) ELSE ErrAndBump(q)
        body(q) == IF At(q, "{") THEN Body(q, item) ELSE Error(q)
    IN  Node(p, "KEYFRAMES_RULE",
             body(BumpUntil(name(Keyword(p)), BlockStop \cup {"EOF"})))

-----------------------------------------------------------------------------
(* Rules of CSS, and modules.                                               *)

LayerRule(p) ==
    LET name(q) == Separated(Bump(q), ".", LAMBDA r : Expect(r, "ident"))
        more(q) == IF At(q, "ident") THEN name(q) ELSE q
        names(q) == IF At(q, "ident") THEN Separated(name(q), ",", more) ELSE q
    IN  Node(p, "LAYER_RULE",
             BlockOrEnd(names(Keyword(p))))

PropertyRule(p) ==
    LET name(q) == IF ~At(q, "ident") THEN Error(q)
                   ELSE Bump(IF AtWord(q, {"--x"}) THEN q ELSE Error(q))
    IN  Node(p, "PROPERTY_RULE", OptionalBlock(name(Keyword(p))))

\* A string or url(...), Other(_) if neither is there.
Url(p, Other(_)) ==
    IF At(p, "string") THEN Bump(p)
    ELSE IF At(p, "str<") THEN InterpolatedString(p)
    ELSE IF AtWord(p, {"url"}) THEN OptionalParens(Bump(p))
    ELSE Other(p)

NamespaceRule(p) ==
    LET prefix(q) == IF At(q, "ident") /\ ~AtWord(q, {"url"}) THEN Bump(q) ELSE q
    IN  Node(p, "NAMESPACE_RULE",
             EndOfStatement(Url(prefix(Keyword(p)), LAMBDA r : r)))

CharsetRule(p) ==
    Node(p, "CHARSET_RULE", EndOfStatement(Expect(Keyword(p), "string")))
PageRule(p) ==
    Node(p, "PAGE_RULE",
         OptionalBlock(While(Keyword(p), LAMBDA r : AtAny(r, {":", "ident"}), Bump)))
FontFaceRule(p) == Node(p, "FONT_FACE_RULE", OptionalBlock(Keyword(p)))

ModulePath(p) ==
    IF At(p, "str<") THEN BumpUntil(Error(p), StatementEnd) ELSE Expect(p, "string")

WithConfig(p) ==
    LET value(q) == SassValue(Expect(Variable(q), ":"), "script")
        flag(q) == IF AtFlag(q, {"default"}) THEN Flag(q, "SASS_FLAG") ELSE q
        open == Bump(p)
    IN  IF ~At(p, "(") THEN Error(p)
        ELSE UpTo(IF At(open, ")") THEN Error(open) ELSE open, ")",
                  LAMBDA q : flag(value(q)))

UseRule(p) ==
    LET alias(q) == IF ~AtWord(q, {"as"}) THEN q
                    ELSE IF Nth(q, 1) = "*" THEN Bump2(q) ELSE Expect(Bump(q), "ident")
        config(q) == IF AtWord(q, {"with"}) THEN WithConfig(Bump(q)) ELSE q
    IN  Node(p, "USE_RULE", EndOfStatement(config(alias(ModulePath(Keyword(p))))))

\* A clause of @forward; None after the last one.
ForwardClause(p) ==
    LET prefix(q) == IF At(q, "*") THEN q ELSE Eat(Eat(q, "ident"), "-")
        member(q) == IF At(q, "$") THEN Variable(q) ELSE Expect(q, "ident")
        members(q) == IF AtAny(q, {"ident", "$"}) THEN Separated(member(q), ",", member)
                      ELSE Error(q)
    IN  CASE AtWord(p, {"as"}) -> Some(Expect(prefix(Bump(p)), "*"))
          [] AtWord(p, {"show", "hide"}) -> Some(members(Bump(p)))
          [] AtWord(p, {"with"}) -> None(WithConfig(Bump(p)))
          [] OTHER -> None(p)

ForwardRule(p) ==
    LET clauses(q) == WhileSome(q, LAMBDA r : At(r, "ident"), ForwardClause)
    IN  Node(p, "FORWARD_RULE", EndOfStatement(clauses(ModulePath(Keyword(p)))))

\* Up to ";" or "}", or to a comma right after the path.
ImportConditions(p) ==
    LET unconditional(q) == \A i \in p.pos .. q.pos - 1 : p.input[i].kind = ")"
        end(q) == AtAny(q, {";", "}"}) \/ (At(q, ",") /\ unconditional(q))
    IN  Skip(p, 0, "(", ")", LAMBDA q, k : k > 0 \/ ~end(q), TakeOpaque)

ImportArgument(p) ==
    LET bare(q) == BumpUntil(q, {",", ";", "}", "{", "EOF"})
    IN  IF AtAny(p, {"string", "str<", "ident"}) THEN ImportConditions(Url(p, bare))
        ELSE Error(p)

ImportRule(p) ==
    Node(p, "IMPORT_RULE",
         EndOfStatement(Separated(ImportArgument(Keyword(p)), ",", ImportArgument)))

-----------------------------------------------------------------------------
(* at_rule                                                                  *)

Named(p, name) ==
    CASE name = "mixin" -> MixinRule(p)
      [] name = "include" -> IncludeRule(p)
      [] name = "content" -> ContentRule(p)
      [] name = "function" -> FunctionRule(p)
      [] name = "return" -> ValueRule(p, "RETURN_RULE")
      [] name = "if" -> IfRule(p)
      [] name = "for" -> ForRule(p)
      [] name = "each" -> EachRule(p)
      [] name = "while" -> WhileRule(p)
      [] name = "extend" -> ExtendRule(p)
      [] name = "warn" -> ValueRule(p, "WARN_RULE")
      [] name = "at-root" -> AtRootRule(p)
      [] name = "media" -> ConditionRule(p, "MEDIA_RULE", "MEDIA_QUERY")
      [] name = "supports" -> ConditionRule(p, "SUPPORTS_RULE", "SUPPORTS_CONDITION")
      [] name = "keyframes" -> KeyframesRule(p)
      [] name = "layer" -> LayerRule(p)
      [] name = "container" -> ContainerRule(p)
      [] name = "scope" -> ScopeRule(p)
      [] name = "property" -> PropertyRule(p)
      [] name = "namespace" -> NamespaceRule(p)
      [] name = "charset" -> CharsetRule(p)
      [] name = "page" -> PageRule(p)
      [] name = "font-face" -> FontFaceRule(p)
      [] name = "use" -> UseRule(p)
      [] name = "forward" -> ForwardRule(p)
      [] name = "import" -> ImportRule(p)
      [] OTHER -> GenericAtRule(IF name \in {"else", "elseif"} THEN Error(p) ELSE p)

\* `@#{` has no name, and is generic.
at_rule(p) ==
    IF ~At(p, "@") THEN Halt(p, "panic")
    ELSE IF NthText(p, 1) \in {"function", "FUNCTION"} /\ IsCssFunctionRule(p)
      THEN CssFunctionRule(p)
    ELSE Named(p, CASE NthText(p, 1) = "=" -> "mixin"
                    [] NthText(p, 1) = "+" -> "include"
                    [] OTHER -> NthText(p, 1))

-----------------------------------------------------------------------------
(* What is parsed: a file, or some of the items of a block.                 *)

source_file(p) ==
    Node(p, "SOURCE_FILE", While(Start(p), LAMBDA r : ~AtEnd(r), TopLevelItem))

reparse_block_body(p) ==
    LET item(q) == IF At(q, ";") THEN Bump(q) ELSE BlockItem(q)
    IN  Node(p, "BLOCK", While(Start(p), LAMBDA r : ~AtEnd(r), item))

Rule(rule, p) ==
    CASE rule[1] = "expr_bp" -> expr_bp(p, rule[2], rule[3])
      [] rule[1] = "sass_value" -> sass_value(p, rule[2])
      [] rule[1] = "sass_value_list" -> sass_value_list(p)
      [] rule[1] = "interpolation" -> interpolation(p)
      [] rule[1] = "interpolated_string" -> interpolated_string(p)
      [] rule[1] = "arg_list" -> arg_list(p, rule[2])
      [] rule[1] = "function_dispatch" -> function_dispatch(p, rule[2])
      [] rule[1] = "calc_sum" -> calc_sum(p)
      [] rule[1] = "calc_value" -> calc_value(p)
      [] rule[1] = "variable_declaration" -> variable_declaration(p)
      [] rule[1] = "declaration" -> declaration(p)
      [] rule[1] = "selector" -> selector(p)
      [] rule[1] = "block" -> block(p)
      [] rule[1] = "block_item" -> block_item(p)
      [] rule[1] = "at_rule" -> at_rule(p)
      [] rule[1] = "source_file" -> source_file(p)
      [] rule[1] = "block_body" -> reparse_block_body(p)

\* A file, or some of the items of a block.
ParseAs(rule, tokens) == Built(Rule(<<rule>>, New(tokens)))
Parse(tokens) == ParseAs("source_file", tokens)
=============================================================================
