----------------------------- MODULE Lookahead -----------------------------
(***************************************************************************)
(* What the grammar (crates/sass-parser/src/grammar) asks before it        *)
(* chooses a rule: the token it is at, and scans ahead of it.              *)
(***************************************************************************)
EXTENDS Parser

CONSTANTS MaxScan,     \* MAX_SCAN, how far most scans look ahead
          MaxSignals   \* how far has_sass_signals does

ASSUME ScanConstants == MaxScan \in Nat /\ MaxSignals \in Nat

-----------------------------------------------------------------------------
(* The token at hand.                                                       *)

ExprStart == {"number", "string", "str<", "#", "#{", "ident", "$", "(", "[",
              "-", "+", "%", "!", "&", "/"}

SelectorStart == {"ident", ".", "#", ":", "::", "[", "&", "%", "*", "#{", "|"}
CombinatorToken == {">", "+", "~"}

AtSelector(p) == AtAny(p, SelectorStart \cup CombinatorToken)

AtValueEnd(p) == AtAny(p, {";", "}", "!", "EOF"})

Called(p) == At(p, "(") /\ ~Spaced(p)

AtFlag(p, words) == At(p, "!") /\ Nth(p, 1) = "ident" /\ NthText(p, 1) \in words

\* infix_bp: the left binding power, 0 for no operator; the right one is one
\* more.
InfixBp(p, ctx) ==
    LET k == Nth(p, 0)
        word == IF k = "ident" /\ ctx = "script" THEN NthText(p, 0) ELSE ""
    IN  CASE word = "or" -> 1
          [] word = "and" -> 3
          [] k = "==" -> 5
          [] k \in {"<", ">"} -> 7
          [] k \in {"+", "-"} -> 9
          [] k = "*" -> 11
          [] k \in {"/", "%"} /\ ctx = "script" -> 11
          [] OTHER -> 0

\* `a -b`: a sign of the next value.
IsSign(p) == AtAny(p, {"+", "-"}) /\ Spaced(p) /\ ~NthSpaced(p, 1)

-----------------------------------------------------------------------------
(* Scans within a call.                                                     *)

\* A scan has a verdict, or goes on with this many brackets open (and within
\* `brace` interpolations); `value` if a token was seen that only values have.
Scanning(paren) == [verdict |-> "on", paren |-> paren, brace |-> 0, value |-> FALSE]
Found(scan, verdict) == [scan EXCEPT !.verdict = verdict]

\* Step(i, scan) at each offset from i up to the limit, where `late` is said.
Scan(i, scan, limit, late, Step(_, _)) ==
    LET RECURSIVE go(_, _)
        go(j, s) == IF s.verdict # "on" THEN s.verdict
                    ELSE IF j >= limit THEN late
                    ELSE go(j + 1, Step(j, s))
    IN  go(i, scan)

\* Open and closing parentheses of a call; the last one ends the scan.
Parens(k, scan) ==
    CASE k = "(" -> [scan EXCEPT !.paren = @ + 1]
      [] k = ")" -> [scan EXCEPT !.paren = @ - 1,
                       !.verdict = IF scan.paren = 1 THEN "no" ELSE "on"]
      [] k = "EOF" -> Found(scan, "no")
      [] OTHER -> scan

\* Within an interpolation, or at the start of one.
InBraces(k, scan) == k = "#{" \/ scan.brace > 0
Braces(k, scan) ==
    [scan EXCEPT !.brace = @ + (IF k \in {"#{", "{"} THEN 1
                                ELSE IF k = "}" THEN -1 ELSE 0)]

\* is_css_if: a ":" that does not belong to `$name:` before any ",".
IsCssIf(p) ==
    LET step(i, scan) ==
          LET k == Nth(p, i)
          IN  IF scan.paren # 1 \/ k \notin {":", ","} THEN Parens(k, scan)
              ELSE IF k = "," THEN Found(scan, "no")
              ELSE IF Nth(p, i - 1) = "ident" /\ Nth(p, i - 2) = "$" THEN scan
              ELSE Found(scan, "yes")
    IN  Nth(p, 1) = "(" /\ Scan(2, Scanning(1), 2 + MaxScan, "no", step) = "yes"

\* Mutant: the scan does not end with the call.
HasEqAfter(p) ==
    Nth(p, 1) = "(" /\ \E i \in 2 .. 1 + MaxScan : Nth(p, i) = "="

HasEqInArgs(p) ==
    LET step(i, scan) == IF scan.paren = 1 /\ Nth(p, i) = "=" THEN Found(scan, "yes")
                         ELSE Parens(Nth(p, i), scan)
    IN  Nth(p, 1) = "(" /\ Scan(2, Scanning(1), 2 + MaxScan, "no", step) = "yes"

\* has_sass_signals: the arguments cannot be those of a CSS calculation.
HasSassSignals(p) ==
    LET signal(i) ==
          \/ Nth(p, i) \in {"==", "<", ">", "[", "str<", "string", "$", "..."}
          \/ /\ Nth(p, i) = "ident" /\ Nth(p, i + 1) = "." /\ ~NthSpaced(p, i + 1)
             /\ Nth(p, i + 2) \in {"ident", "$"}
          \/ Nth(p, i) = "%" /\ NthSpaced(p, i)
          \/ /\ Nth(p, i) = "ident" /\ NthText(p, i) \in {"and", "or", "not"}
             /\ ~(Nth(p, i + 1) = "." /\ ~NthSpaced(p, i + 1))
        step(i, scan) == IF InBraces(Nth(p, i), scan) THEN Braces(Nth(p, i), scan)
                         ELSE IF signal(i) THEN Found(scan, "yes")
                         ELSE Parens(Nth(p, i), scan)
    IN  Scan(2, Scanning(1), 2 + MaxSignals + 1, "yes", step) = "yes"

-----------------------------------------------------------------------------
(* Is it a declaration?                                                     *)

\* The offset after `#{...}` at start and the fragments that follow; 0 if the
\* scan does not get there.
ScanPastInterpolatedName(p, start) ==
    LET RECURSIVE go(_, _)
        go(i, open) ==
          LET k == Nth(p, i)
              delta == CASE k = "#{" \/ (k = "{" /\ open > 0) -> 1
                         [] k = "}" /\ open > 0 -> -1
                         [] OTHER -> 0
          IN  IF i >= start + MaxScan \/ (k = "EOF" /\ open > 0) THEN 0
              ELSE IF open = 0 /\ k \notin {"ident", "-", "#{"} THEN i
              ELSE go(i + 1, open + delta)
    IN  go(start + 1, 1)

ValueOnly == {"number", "string", "str<", "$"}

\* Does ";", "}" or the end come before "{", or only a value's token?
ScanForDeclarationEnd(p, start) ==
    LET step(i, scan) ==
          LET k == Nth(p, i)
          IN  CASE k = "EOF" -> Found(scan, "yes")
                [] k # "EOF" /\ InBraces(k, scan) -> Braces(k, scan)
                [] ~InBraces(k, scan) /\ k \in {"{", "}", ";"} /\ scan.paren = 0 ->
                     Found(scan, IF k = "{" /\ ~scan.value THEN "no" ELSE "yes")
                [] ~InBraces(k, scan) /\ k \in {"(", "["} ->
                     [scan EXCEPT !.paren = @ + 1]
                [] ~InBraces(k, scan) /\ k \in {")", "]"} ->
                     [scan EXCEPT !.paren = IF @ = 0 THEN 0 ELSE @ - 1]
                [] OTHER -> [scan EXCEPT !.value = @ \/ (scan.brace = 0 /\ k \in ValueOnly)]
    IN  Scan(start, Scanning(0), start + MaxScan, "yes", step) = "yes"

LooksLikeDeclaration(p) ==
    LET value(i) == Nth(p, i) = "{" \/ ScanForDeclarationEnd(p, i)
        interpolated(start) ==
          LET i == ScanPastInterpolatedName(p, start)
          IN  i # 0 /\ Nth(p, i) = ":" /\ value(i + 1)
    IN  \/ At(p, "#{") /\ interpolated(0)
        \/ AtAny(p, {"-", "ident"}) /\ Nth(p, 1) = "#{" /\ interpolated(1)
        \/ At(p, "*") /\ Nth(p, 1) = "ident" /\ Nth(p, 2) = ":"
             /\ ScanForDeclarationEnd(p, 3)
        \/ At(p, "ident") /\ Nth(p, 1) = ":" /\ value(2)

\* ns.$var:
AtNamespaceVarAssignment(p) ==
    /\ \A i \in 0 .. 4 : Nth(p, i) = <<"ident", ".", "$", "ident", ":">>[i + 1]
    /\ ~NthSpaced(p, 1) /\ ~NthSpaced(p, 2)

IsCssFunctionRule(p) ==
    \/ Nth(p, 2) = "ident" /\ NthText(p, 2) = "--x"
    \/ Nth(p, 2) = "#{"
    \/ Nth(p, 2) = "-" /\ Nth(p, 3) = "-"
=============================================================================
