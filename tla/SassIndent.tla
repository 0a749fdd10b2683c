----------------------------- MODULE SassIndent -----------------------------
(***************************************************************************)
(* sass_tokenize (crates/sass-parser/src/sass_lexer.rs): the raw tokens of *)
(* an indented-syntax file go by, and virtual braces and semicolons are    *)
(* put between them by indentation, so that the SCSS grammar can parse it. *)
(* One action per kind of raw token; any token may follow any other.       *)
(*                                                                         *)
(* A token is named by what the lexer asks of it:                          *)
(*   "("  "[" for [ and #{ alike  ")" for ) and ]  "{"  "}"                *)
(*   "="  "+"  "@"  "$"  ","  ":"  "%"                                     *)
(*   "*" for the combinators * ~ >   "-" for the other binary operators    *)
(*   "number"  "string"  "ident"                                           *)
(*   "keyword"    a name after which a header continues (from, in, as ...) *)
(*   "directive"  a name that needs more (mixin, each, return ...)         *)
(*   "else"       a name that may stand alone as a header                  *)
(* Comments and white space within a line change nothing and are left out. *)
(***************************************************************************)
EXTENDS Integers, Sequences, SequencesExt, FiniteSets

CONSTANTS Kind,        \* kinds of raw tokens in the input
          Indent,      \* columns at which a line may start
          MaxNesting,  \* bound on unclosed brackets
          None

ASSUME SassConstants ==
    /\ Indent \subseteq Nat /\ 0 \in Indent
    /\ MaxNesting \in Nat
    /\ None \notin Nat /\ None \notin Kind

VARIABLES
    indent_stack,         \* indentation of the open blocks; starts with 0
    pending_lbrace,       \* indentation of a block whose brace is deferred
    saw_content,          \* a statement is in progress
    last_sig, prev_sig,   \* the last two significant tokens
    had_prior_content,    \* the last one was not the first of its line
    after_at, after_dollar, at_name_is_last,
    nesting,              \* unclosed brackets of any kind
    current_line_indent,
    comment,              \* indentation of the // comment just read, or None
    depth,                \* virtual { emitted less virtual } emitted
    finished,             \* the end of the file was reached
    enclosing,            \* reference: columns of the statement and those it is under
    consistent,           \* reference: no line returns to a column unused
    astray                \* a brace was deferred past a line of its own

flags == <<after_at, after_dollar, at_name_is_last>>
tokens == <<last_sig, prev_sig, had_prior_content>>
reference == <<enclosing, consistent, astray>>
vars == <<indent_stack, pending_lbrace, saw_content, tokens, flags, nesting,
          current_line_indent, comment, depth, finished, reference>>

Init ==
    /\ indent_stack = <<0>> /\ pending_lbrace = None
    /\ saw_content = FALSE
    /\ last_sig = None /\ prev_sig = None /\ had_prior_content = FALSE
    /\ after_at = FALSE /\ after_dollar = FALSE /\ at_name_is_last = FALSE
    /\ nesting = 0
    /\ current_line_indent = 0
    /\ comment = None
    /\ depth = 0
    /\ finished = FALSE
    /\ enclosing = {} /\ consistent = TRUE /\ astray = FALSE

top == Last(indent_stack)

Name == {"ident", "keyword", "directive", "else"}

-----------------------------------------------------------------------------
(* Significant tokens.                                                      *)

\* is_start_of_line_continuation
StartsContinuation(k) ==
    k \in {"$", "(", "string", ",", ":", "keyword", "number"}

\* The deferred brace is cancelled: the line continues the header.
Resumes(k) ==
    /\ pending_lbrace # None
    /\ \/ after_at /\ at_name_is_last
       \/ after_dollar
    /\ StartsContinuation(k)

\* The deferred brace is emitted.
Opens(k) == pending_lbrace # None /\ ~Resumes(k)

\* By the layout rules a deeper line continues a header only if the header
\* still needs something.
StartsStatement(k) ==
    /\ ~saw_content
    /\ ~(Resumes(k) /\ last_sig # "else")

\* A header continued although it was complete, or after a comment line.
Misread(k) == Resumes(k) /\ (last_sig = "else" \/ pending_lbrace \in enclosing)

\* The line is deeper than the statement before it, or at a column in use.
Returns == /\ enclosing = {} => current_line_indent = 0
           /\ \/ current_line_indent \in enclosing
              \/ \A d \in enclosing : d < current_line_indent

WithLine == {d \in enclosing : d < current_line_indent} \cup {current_line_indent}

\* What precedes every significant token, and what follows it.
Significant(k) ==
    /\ ~finished /\ comment = None
    /\ pending_lbrace' = None
    /\ indent_stack' = IF Opens(k) THEN Append(indent_stack, pending_lbrace)
                       ELSE indent_stack
    /\ depth' = IF Opens(k) THEN depth + 1 ELSE depth
    /\ saw_content' = TRUE
    /\ prev_sig' = last_sig
    /\ had_prior_content' = saw_content
    /\ IF StartsStatement(k)
         THEN enclosing' = WithLine /\ consistent' = (consistent /\ Returns)
         ELSE UNCHANGED <<enclosing, consistent>>
    /\ astray' = (astray \/ Misread(k))
    /\ UNCHANGED <<current_line_indent, comment, finished>>

\* Opening the deferred block ends its header.
KeepFlags(k) ==
    /\ after_at' = (after_at /\ ~Opens(k))
    /\ after_dollar' = (after_dollar /\ ~Opens(k))

OpenBracket(k) ==
    /\ k \in {"(", "["} \/ (k = "{" /\ nesting > 0)
    /\ nesting < MaxNesting
    /\ Significant(k) /\ KeepFlags(k)
    /\ nesting' = nesting + 1
    /\ last_sig' = k
    /\ at_name_is_last' = FALSE

\* saturating_sub(1)
Less(n) == IF n = 0 THEN 0 ELSE n - 1

CloseBracket(k) ==
    /\ k = ")" \/ (k = "}" /\ nesting > 0)
    /\ Significant(k) /\ KeepFlags(k)
    /\ nesting' = Less(nesting)
    /\ last_sig' = k
    /\ at_name_is_last' = FALSE

AtStatementStart == nesting = 0 /\ ~saw_content

\* `=name` stands for `@mixin name`: the sign is retagged as its keyword.
MixinShorthand ==
    /\ "=" \in Kind /\ AtStatementStart
    /\ Significant("=")
    /\ last_sig' = "directive"
    /\ after_at' = TRUE
    /\ after_dollar' = (after_dollar /\ ~Opens("="))
    /\ at_name_is_last' = TRUE
    /\ UNCHANGED nesting

\* `+name` stands for `@include name`.  Both tokens at once: prev_sig and
\* had_prior_content are not asked about before the token after the name.
IncludeShorthand(name) ==
    /\ name \in Name /\ "+" \in Kind /\ AtStatementStart
    /\ Significant("+")
    /\ last_sig' = name
    /\ after_at' = TRUE
    /\ after_dollar' = (after_dollar /\ ~Opens("+"))
    /\ at_name_is_last' = FALSE
    /\ UNCHANGED nesting

\* A combinator at the start of a selector.
PlusFirst ==
    /\ "+" \in Kind /\ AtStatementStart
    /\ Significant("+") /\ KeepFlags("+")
    /\ last_sig' = "+"
    /\ UNCHANGED <<nesting, at_name_is_last>>

At ==
    /\ "@" \in Kind /\ nesting = 0
    /\ Significant("@")
    /\ last_sig' = "@"
    /\ after_at' = TRUE
    /\ after_dollar' = (after_dollar /\ ~Opens("@"))
    /\ UNCHANGED <<nesting, at_name_is_last>>

DollarFirst ==
    /\ "$" \in Kind /\ AtStatementStart
    /\ Significant("$")
    /\ last_sig' = "$"
    /\ after_dollar' = TRUE
    /\ after_at' = (after_at /\ ~Opens("$"))
    /\ UNCHANGED <<nesting, at_name_is_last>>

OtherToken(k) ==
    /\ k \notin {"(", "[", ")"}
    /\ k \in {"{", "}"} => nesting = 0
    /\ k = "@" => nesting > 0
    /\ k \in {"=", "+", "$"} => ~AtStatementStart
    /\ Significant(k) /\ KeepFlags(k)
    /\ last_sig' = k
    /\ at_name_is_last' = (k \in Name /\ last_sig = "@")
    /\ UNCHANGED nesting

-----------------------------------------------------------------------------
(* Line ends, // comments, the end of the file.                             *)

\* The blocks that stay open at column d.
Closed(stack, d) ==
    LET stay == {i \in 1 .. Len(stack) : i = 1 \/ stack[i] <= d}
    IN  SubSeq(stack, 1, CHOOSE m \in stay : \A i \in stay : i <= m)

Combinator == {"*", "+"}

\* is_end_of_line_continuation, and its exceptions in process_newline.
Continues(lines) ==
    /\ \/ last_sig \in {",", ":", "-", "%"} \cup Combinator \cup {"keyword"}
       \/ last_sig = "directive" /\ at_name_is_last
    /\ ~(last_sig = "%" /\ prev_sig = "number")
    /\ ~(last_sig \in Combinator /\ ~had_prior_content)
    /\ ~(lines > 1 /\ last_sig # ",")

\* Mutant: a statement that ends leaves the blocks of deeper lines open.
EndStatementOpen(d) ==
    /\ after_at' = FALSE /\ after_dollar' = FALSE
    /\ UNCHANGED <<indent_stack, depth, pending_lbrace>>

\* A line at column d ends the statement and the blocks deeper than d.
EndStatement(d) ==
    /\ indent_stack' = Closed(indent_stack, d)
    /\ depth' = depth - (Len(indent_stack) - Len(indent_stack'))
    /\ after_at' = FALSE /\ after_dollar' = FALSE
    /\ UNCHANGED pending_lbrace

\* A deeper line opens a block, at once or when its first token is known.
OpenBlock(d) ==
    IF after_at \/ after_dollar
      THEN /\ pending_lbrace' = d
           /\ UNCHANGED <<indent_stack, depth, after_at, after_dollar>>
      ELSE /\ indent_stack' = Append(indent_stack, d)
           /\ depth' = depth + 1
           /\ UNCHANGED <<pending_lbrace, after_at, after_dollar>>

\* After a line without a statement only blocks can end.
EndBlankLine(d) ==
    /\ indent_stack' = Closed(indent_stack, d)
    /\ depth' = depth - (Len(indent_stack) - Len(indent_stack'))
    /\ UNCHANGED <<after_at, after_dollar, pending_lbrace>>

\* Mutants: a line at the same column is deeper; lines end within brackets.
NotShallower(d) == d >= top
LineEndsAnywhere == TRUE

Deeper(d) == d > top
LineEnds == nesting = 0

\* White space with `lines` line feeds, the next line starting at column d.
\* Deeper lines right below a // comment are part of it and change nothing.
\* Line ends are single bytes here.
Newline(d, lines) ==
    /\ ~finished /\ LineEnds
    /\ comment # None => lines > 1 \/ d <= comment
    /\ comment' = None
    /\ current_line_indent' = d
    /\ IF Continues(lines)
         THEN UNCHANGED <<indent_stack, depth, after_at, after_dollar,
                          pending_lbrace, saw_content>>
         ELSE /\ saw_content' = FALSE
              /\ CASE saw_content /\ Deeper(d) -> OpenBlock(d)
                   [] saw_content /\ ~Deeper(d) -> EndStatement(d)
                   [] OTHER -> EndBlankLine(d)
    /\ IF saw_content
         THEN UNCHANGED reference
         ELSE /\ enclosing' = WithLine
              /\ consistent' = (consistent /\ Returns /\ d <= current_line_indent)
              /\ astray' = (astray \/ Continues(lines)
                              \/ (pending_lbrace # None /\ d < pending_lbrace))
    /\ UNCHANGED <<tokens, at_name_is_last, nesting, finished>>

\* A // comment with a line to itself.
Comment ==
    /\ ~finished /\ comment = None
    /\ AtStatementStart
    /\ comment' = current_line_indent
    /\ UNCHANGED <<indent_stack, pending_lbrace, saw_content, tokens, flags,
                   nesting, current_line_indent, depth, finished, reference>>

\* Mutant: a deferred brace is emitted without being put on the stack.
EndOfFileUncounted ==
    /\ ~finished
    /\ finished' = TRUE
    /\ indent_stack' = <<0>>
    /\ depth' = depth + (IF pending_lbrace = None THEN 0 ELSE 1)
                - (Len(indent_stack) - 1)
    /\ pending_lbrace' = None
    /\ UNCHANGED <<saw_content, tokens, flags, nesting, current_line_indent,
                   comment, reference>>

\* A deferred block is opened, then all blocks are closed.
EndOfFile ==
    LET open == IF pending_lbrace = None THEN indent_stack
                ELSE Append(indent_stack, pending_lbrace)
    IN  /\ ~finished
        /\ finished' = TRUE
        /\ indent_stack' = SubSeq(open, 1, 1)
        /\ depth' = depth + (Len(open) - Len(indent_stack)) - (Len(open) - 1)
        /\ pending_lbrace' = None
        /\ UNCHANGED <<saw_content, tokens, flags, nesting,
                       current_line_indent, comment, reference>>

-----------------------------------------------------------------------------
Token == \/ \E k \in Kind : \/ OpenBracket(k) \/ CloseBracket(k)
                             \/ OtherToken(k) \/ IncludeShorthand(k)
         \/ MixinShorthand \/ PlusFirst \/ At \/ DollarFirst

Next == \/ Token
        \/ \E d \in Indent, lines \in {1, 2} : Newline(d, lines)
        \/ Comment
        \/ EndOfFile

Spec == Init /\ [][Next]_vars

-----------------------------------------------------------------------------
(* Properties.                                                              *)

\* The shape of the lexer's state.
TypeOK ==
    /\ indent_stack \in Seq(Indent) /\ indent_stack # <<>>
    /\ pending_lbrace \in Indent \cup {None}
    /\ saw_content \in BOOLEAN /\ had_prior_content \in BOOLEAN
    /\ {last_sig, prev_sig} \subseteq Kind \cup {"directive", None}
    /\ after_at \in BOOLEAN /\ after_dollar \in BOOLEAN
    /\ at_name_is_last \in BOOLEAN
    /\ nesting \in 0 .. MaxNesting
    /\ current_line_indent \in Indent
    /\ comment \in Indent \cup {None}
    /\ depth \in Int
    /\ finished \in BOOLEAN
    /\ enclosing \subseteq Indent
    /\ consistent \in BOOLEAN /\ astray \in BOOLEAN

\* The virtual braces balance: as many are open as blocks on the stack, and
\* none at the end of the file, whatever the tokens, brackets left open and
\* braces deferred.  The parser relies on it to leave no block unclosed.
BracesBalance ==
    /\ depth = Len(indent_stack) - 1
    /\ finished => depth = 0

\* Open blocks are ever deeper, and so is a block whose brace is deferred:
\* the test "deeper than the top" and the closing loop rely on it.
DeeperAndDeeper ==
    /\ \A i, j \in 1 .. Len(indent_stack) :
          i < j => indent_stack[i] < indent_stack[j]
    /\ pending_lbrace # None => top < pending_lbrace

\* No line end and no brace within brackets: while a bracket is open the
\* blocks stay as they are.
BracketsAreOneLine ==
    [][nesting > 0 /\ ~finished' => UNCHANGED <<indent_stack, depth>>]_vars

\* The blocks are those of the indentation: in a file whose lines return only
\* to columns in use, the blocks open in a statement are those of the lines
\* it is indented under.
BlocksFollowIndentation ==
    consistent /\ saw_content /\ ~finished => ToSet(indent_stack) = enclosing

\* The same, as long as no comment line came between a header (or an operator
\* before a blank line) and the line after it, and no @else began its block
\* with what may continue a header.
BlocksFollowUnlessAstray == astray \/ BlocksFollowIndentation
=============================================================================
