-------------------------- MODULE SassIndentProofs --------------------------
(***************************************************************************)
(* Theorems about SassIndent, for any columns, any token kinds and any     *)
(* depth of brackets.                                                      *)
(***************************************************************************)
EXTENDS SassIndent, SequenceTheorems, WellFoundedInduction, TLAPS

-----------------------------------------------------------------------------
(* Closed, the loop that pops the indentation stack.                        *)

\* A non-empty set of naturals has a least element.
LEMMA LeastNatural ==
    ASSUME NEW I, I \subseteq Nat, I # {}
    PROVE  \E m \in I : \A n \in I : m <= n
<1> DEFINE R == {ss \in Nat \X Nat : ss[1] < ss[2]}
<1>1. IsWellFoundedOn(R, Nat)
  BY NatLessThanWellFounded, Zenon DEF OpToRel
<1>2. PICK m \in I : \A n \in I : ~ (<<n, m>> \in R)
  <2> HIDE DEF R
  <2> QED BY <1>1, WFMin
<1>3. ASSUME NEW n \in I PROVE m <= n
  <2>1. n \in Nat /\ m \in Nat /\ ~ (<<n, m>> \in R)
    BY <1>2
  <2>2. <<n, m>> \in Nat \X Nat
    BY <2>1
  <2>3. ~ (<<n, m>>[1] < <<n, m>>[2])
    BY <2>1, <2>2, Zenon
  <2>4. QED
    BY <2>1, <2>3
<1>4. QED
  BY <1>3

\* A non-empty set of positions has a greatest one.
LEMMA GreatestPosition ==
    ASSUME NEW n \in Nat, NEW S, S \subseteq 1 .. n, S # {}
    PROVE  \E m \in S : \A i \in S : i <= m
<1> DEFINE I == {n - i : i \in S}
<1>1. I \subseteq Nat /\ I # {}
  <2>1. \A i \in S : i \in 1 .. n /\ n - i \in Nat
    OBVIOUS
  <2>2. PICK e \in S : TRUE
    OBVIOUS
  <2>3. n - e \in I
    OBVIOUS
  <2>4. QED
    BY <2>1, <2>3
<1>2. PICK l \in I : \A j \in I : l <= j
  <2> HIDE DEF I
  <2> QED BY <1>1, LeastNatural
<1>3. PICK m \in S : l = n - m
  OBVIOUS
<1>4. ASSUME NEW i \in S PROVE i <= m
  <2>1. n - m <= n - i
    BY <1>2, <1>3
  <2>2. QED
    BY <2>1
<1>5. QED
  BY <1>4

\* Closing keeps a non-empty initial part of the stack, and nothing of it
\* but the first entry is deeper than the line.
LEMMA ClosedFacts ==
    ASSUME NEW stack \in Seq(Indent), stack # <<>>, NEW d \in Indent
    PROVE  /\ Closed(stack, d) \in Seq(Indent)
           /\ Len(Closed(stack, d)) \in 1 .. Len(stack)
           /\ \A i \in 1 .. Len(Closed(stack, d)) : Closed(stack, d)[i] = stack[i]
           /\ \A i \in 1 .. Len(stack) :
                stack[i] <= d => i <= Len(Closed(stack, d))
           /\ \/ Len(Closed(stack, d)) = 1
              \/ Closed(stack, d)[Len(Closed(stack, d))] <= d
<1> DEFINE stay == {i \in 1 .. Len(stack) : i = 1 \/ stack[i] <= d}
           m == CHOOSE m \in stay : \A i \in stay : i <= m
<1>1. Len(stack) \in Nat /\ Len(stack) >= 1
  BY EmptySeq
<1>2. stay \subseteq 1 .. Len(stack) /\ 1 \in stay
  BY <1>1
<1>3. m \in stay
  <2>1. \E x \in stay : \A i \in stay : i <= x
    <3> HIDE DEF stay
    <3> QED BY <1>1, <1>2, GreatestPosition
  <2>2. QED
    BY <2>1
<1>4. m \in 1 .. Len(stack)
  BY <1>2, <1>3
<1>5. Closed(stack, d) = SubSeq(stack, 1, m)
  BY DEF Closed
<1>6. m = 1 \/ stack[m] <= d
  <2> HIDE DEF m
  <2> QED BY <1>3
<1>7. ASSUME NEW i \in 1 .. Len(stack), stack[i] <= d PROVE i <= m
  <2>1. i \in stay
    BY <1>7
  <2>2. \E x \in stay : \A j \in stay : j <= x
    <3> HIDE DEF stay
    <3> QED BY <1>1, <1>2, GreatestPosition
  <2>3. \A j \in stay : j <= m
    BY <2>2
  <2>4. QED
    BY <2>1, <2>3
<1> HIDE DEF m, stay
<1>8. SubSeq(stack, 1, m) \in Seq(Indent)
      /\ Len(SubSeq(stack, 1, m)) = m
      /\ \A i \in 1 .. m : SubSeq(stack, 1, m)[i] = stack[i]
  BY <1>1, <1>4, SubSeqProperties
<1>9. QED
  BY <1>4, <1>5, <1>6, <1>7, <1>8

Ordered(stack) == \A i, j \in 1 .. Len(stack) : i < j => stack[i] < stack[j]

\* A deeper block put on an ordered stack leaves it ordered.
LEMMA AppendOrdered ==
    ASSUME NEW stack \in Seq(Indent), stack # <<>>, Ordered(stack),
           NEW d \in Indent, Last(stack) < d
    PROVE  /\ Append(stack, d) \in Seq(Indent)
           /\ Append(stack, d) # <<>>
           /\ Len(Append(stack, d)) = Len(stack) + 1
           /\ Last(Append(stack, d)) = d
           /\ Ordered(Append(stack, d))
<1> USE SassConstants
<1> DEFINE s == Append(stack, d)
<1>1. s \in Seq(Indent) /\ Len(s) = Len(stack) + 1 /\ s[Len(stack) + 1] = d
      /\ \A i \in 1 .. Len(stack) : s[i] = stack[i]
  BY AppendProperties
<1>2. Len(stack) \in Nat /\ Len(stack) >= 1
  BY EmptySeq
<1>3. s # <<>>
  BY <1>1, <1>2, EmptySeq
<1>4. Last(stack) = stack[Len(stack)]
  BY DEF Last
<1>5. \A i \in 1 .. Len(stack) : stack[i] \in Nat
  BY ElementOfSeq
<1>6. ASSUME NEW i \in 1 .. Len(stack) PROVE stack[i] < d
  <2>1. CASE i = Len(stack)
    BY <2>1, <1>4
  <2>2. CASE i # Len(stack)
    <3>1. stack[i] < stack[Len(stack)]
      BY <2>2, <1>2 DEF Ordered
    <3>2. stack[i] \in Nat /\ stack[Len(stack)] \in Nat /\ d \in Nat
      BY <1>2, <1>5
    <3>3. QED
      BY <3>1, <3>2, <1>4
  <2>3. QED
    BY <2>1, <2>2
<1>7. ASSUME NEW i \in 1 .. Len(s), NEW j \in 1 .. Len(s), i < j
      PROVE  s[i] < s[j]
  <2>1. i \in 1 .. Len(stack) /\ s[i] = stack[i]
    BY <1>1, <1>2, <1>7
  <2>2. CASE j = Len(stack) + 1
    BY <2>1, <2>2, <1>1, <1>6
  <2>3. CASE j # Len(stack) + 1
    <3>1. j \in 1 .. Len(stack) /\ s[j] = stack[j]
      BY <2>3, <1>1, <1>2
    <3>2. QED
      BY <2>1, <3>1, <1>7 DEF Ordered
  <2>4. QED
    BY <2>2, <2>3
<1>8. QED
  BY <1>1, <1>2, <1>3, <1>7 DEF Ordered, Last

-----------------------------------------------------------------------------
(* The inductive invariant.                                                 *)

\* A brace is deferred only between statements and outside brackets, and at
\* the end of the file all is closed.
Deferred == pending_lbrace # None => ~saw_content /\ nesting = 0 /\ ~finished

StackInv ==
    /\ indent_stack \in Seq(Indent) /\ indent_stack # <<>>
    /\ pending_lbrace \in Indent \cup {None}
    /\ Ordered(indent_stack)
    /\ pending_lbrace # None => Last(indent_stack) < pending_lbrace
    /\ depth = Len(indent_stack) - 1

Rest ==
    /\ saw_content \in BOOLEAN /\ had_prior_content \in BOOLEAN
    /\ {last_sig, prev_sig} \subseteq Kind \cup {"directive", None}
    /\ after_at \in BOOLEAN /\ after_dollar \in BOOLEAN
    /\ at_name_is_last \in BOOLEAN
    /\ nesting \in 0 .. MaxNesting
    /\ current_line_indent \in Indent
    /\ comment \in Indent \cup {None}
    /\ finished \in BOOLEAN
    /\ enclosing \subseteq Indent
    /\ consistent \in BOOLEAN /\ astray \in BOOLEAN

Inv == StackInv /\ Rest /\ Deferred /\ (finished => Len(indent_stack) = 1)

\* Closing the blocks deeper than a line keeps the stack in order, its top
\* no deeper than it was.
LEMMA ClosedOrdered ==
    ASSUME NEW stack \in Seq(Indent), stack # <<>>, Ordered(stack),
           NEW d \in Indent
    PROVE  /\ Closed(stack, d) \in Seq(Indent)
           /\ Closed(stack, d) # <<>>
           /\ Ordered(Closed(stack, d))
           /\ Last(Closed(stack, d)) <= Last(stack)
<1> USE SassConstants
<1> DEFINE c == Closed(stack, d)
<1>1. /\ c \in Seq(Indent) /\ Len(c) \in 1 .. Len(stack)
      /\ \A i \in 1 .. Len(c) : c[i] = stack[i]
  BY ClosedFacts
<1> HIDE DEF c
<1>2. c # <<>>
  BY <1>1, EmptySeq
<1>3. Len(c) \in Nat /\ Len(stack) \in Nat /\ Len(c) <= Len(stack)
  BY <1>1
<1>4. Ordered(c)
  BY <1>1, <1>3 DEF Ordered
<1>5. Last(c) = stack[Len(c)] /\ Last(stack) = stack[Len(stack)]
  BY <1>1, <1>3 DEF Last
<1>6. \A i \in 1 .. Len(stack) : stack[i] \in Nat
  BY ElementOfSeq
<1>7. stack[Len(c)] <= stack[Len(stack)]
  <2>1. stack[Len(c)] \in Nat /\ stack[Len(stack)] \in Nat
    BY <1>1, <1>3, <1>6
  <2>2. CASE Len(c) = Len(stack)
    BY <2>1, <2>2
  <2>3. CASE Len(c) # Len(stack)
    <3>1. stack[Len(c)] < stack[Len(stack)]
      BY <2>3, <1>1, <1>3 DEF Ordered
    <3>2. QED
      BY <2>1, <3>1
  <2>4. QED
    BY <2>2, <2>3
<1>8. QED
  BY <1>1, <1>2, <1>4, <1>5, <1>7 DEF c

\* The top of the stack is a column.
LEMMA LastInNat ==
    ASSUME NEW stack \in Seq(Indent), stack # <<>>
    PROVE  Last(stack) \in Nat
<1>1. Len(stack) \in Nat /\ Len(stack) >= 1
  BY EmptySeq
<1>2. stack[Len(stack)] \in Indent
  BY <1>1, ElementOfSeq
<1>3. QED
  BY <1>2, SassConstants DEF Last

-----------------------------------------------------------------------------
(* One lemma for the steps of all tokens, one for each other step.          *)

\* A token opens the deferred block or leaves the blocks alone.
LEMMA TokenStack ==
    ASSUME Inv, NEW k, Significant(k)
    PROVE  /\ StackInv'
           /\ ~finished' /\ pending_lbrace' = None
           /\ nesting > 0 => UNCHANGED <<indent_stack, depth>>
<1>1. pending_lbrace' = None /\ finished' = finished /\ ~finished
  BY DEF Significant
<1>2. CASE Opens(k)
  <2>1. pending_lbrace \in Indent /\ Last(indent_stack) < pending_lbrace
    BY <1>2 DEF Opens, Inv, StackInv
  <2>2. /\ indent_stack' = Append(indent_stack, pending_lbrace)
        /\ depth' = depth + 1
    BY <1>2 DEF Significant
  <2>3. nesting = 0
    BY <1>2 DEF Opens, Inv, Deferred
  <2>4. PICK s : s = Append(indent_stack, pending_lbrace)
    OBVIOUS
  <2>5. s \in Seq(Indent) /\ s # <<>> /\ Len(s) = Len(indent_stack) + 1
        /\ Ordered(s)
    BY <2>1, <2>4, AppendOrdered DEF Inv, StackInv
  <2>6. depth' = Len(s) - 1
    BY <2>2, <2>5 DEF Inv, StackInv
  <2>7. StackInv'
    BY <1>1, <2>2, <2>4, <2>5, <2>6 DEF StackInv, Ordered
  <2>8. QED
    BY <1>1, <2>3, <2>7
<1>3. CASE ~Opens(k)
  <2>1. indent_stack' = indent_stack /\ depth' = depth
    BY <1>3 DEF Significant
  <2>2. QED
    BY <1>1, <2>1 DEF Inv, StackInv, Ordered
<1>4. QED
  BY <1>2, <1>3

\* What a token leaves of the rest.
LEMMA TokenRest ==
    ASSUME Inv, NEW k, Significant(k)
    PROVE  /\ saw_content' \in BOOLEAN /\ had_prior_content' \in BOOLEAN
           /\ prev_sig' \in Kind \cup {"directive", None}
           /\ current_line_indent' \in Indent
           /\ comment' \in Indent \cup {None}
           /\ finished' \in BOOLEAN
           /\ enclosing' \subseteq Indent
           /\ consistent' \in BOOLEAN /\ astray' \in BOOLEAN
<1>1. WithLine \subseteq Indent
  BY DEF Inv, Rest, WithLine
<1>2. enclosing' \subseteq Indent
  BY <1>1 DEF Inv, Rest, Significant
<1>3. consistent' \in BOOLEAN
  BY DEF Inv, Rest, Significant
<1>4. astray' \in BOOLEAN
  BY DEF Inv, Rest, Significant
<1>5. QED
  BY <1>2, <1>3, <1>4 DEF Inv, Rest, Significant

\* Every token keeps the invariant.
LEMMA TokenKeepsInv ==
    ASSUME Inv, Token
    PROVE  /\ Inv'
           /\ nesting > 0 => UNCHANGED <<indent_stack, depth>>
<1> USE SassConstants
<1> DEFINE Sigs == Kind \cup {"directive", None}
           Own == /\ last_sig' \in Sigs
                  /\ after_at' \in BOOLEAN /\ after_dollar' \in BOOLEAN
                  /\ at_name_is_last' \in BOOLEAN
                  /\ nesting' \in 0 .. MaxNesting
<1>1. ASSUME NEW k, Significant(k), Own
      PROVE  Inv' /\ (nesting > 0 => UNCHANGED <<indent_stack, depth>>)
  <2>1. StackInv' /\ ~finished' /\ pending_lbrace' = None
        /\ (nesting > 0 => UNCHANGED <<indent_stack, depth>>)
    BY <1>1, TokenStack
  <2>2. Rest'
    BY <1>1, TokenRest DEF Rest
  <2>3. QED
    BY <2>1, <2>2 DEF Inv, Deferred
<1>2. ASSUME NEW k \in Kind, OpenBracket(k) PROVE Significant(k) /\ Own
  <2>1. nesting' \in 0 .. MaxNesting
    <3>1. nesting < MaxNesting /\ nesting' = nesting + 1
      BY <1>2 DEF OpenBracket
    <3>2. nesting \in 0 .. MaxNesting
      BY DEF Inv, Rest
    <3>3. QED
      BY <3>1, <3>2
  <2>2. after_at' \in BOOLEAN /\ after_dollar' \in BOOLEAN
    BY <1>2 DEF Inv, Rest, OpenBracket, KeepFlags
  <2>3. QED
    BY <2>1, <2>2, <1>2 DEF OpenBracket
<1>3. ASSUME NEW k \in Kind, CloseBracket(k) PROVE Significant(k) /\ Own
  <2>1. nesting' \in 0 .. MaxNesting
    <3>1. nesting' = Less(nesting)
      BY <1>3 DEF CloseBracket
    <3>2. nesting \in 0 .. MaxNesting
      BY DEF Inv, Rest
    <3>3. QED
      BY <3>1, <3>2 DEF Less
  <2>2. after_at' \in BOOLEAN /\ after_dollar' \in BOOLEAN
    BY <1>3 DEF Inv, Rest, CloseBracket, KeepFlags
  <2>3. QED
    BY <2>1, <2>2, <1>3 DEF CloseBracket
<1>4. ASSUME NEW k \in Kind, OtherToken(k) PROVE Significant(k) /\ Own
  BY <1>4 DEF Inv, Rest, OtherToken, KeepFlags
<1>5. ASSUME MixinShorthand PROVE Significant("=") /\ Own
  BY <1>5 DEF Inv, Rest, MixinShorthand
<1>6. ASSUME NEW k \in Kind, IncludeShorthand(k) PROVE Significant("+") /\ Own
  BY <1>6 DEF Inv, Rest, IncludeShorthand
<1>7. ASSUME PlusFirst PROVE Significant("+") /\ Own
  BY <1>7 DEF Inv, Rest, PlusFirst, KeepFlags
<1>8. ASSUME At PROVE Significant("@") /\ Own
  BY <1>8 DEF Inv, Rest, At
<1>9. ASSUME DollarFirst PROVE Significant("$") /\ Own
  BY <1>9 DEF Inv, Rest, DollarFirst
<1> HIDE DEF Own
<1>10. QED
  BY <1>1, <1>2, <1>3, <1>4, <1>5, <1>6, <1>7, <1>8, <1>9 DEF Token

\* A line end opens a deeper block, defers it, or closes blocks.
LEMMA NewlineStack ==
    ASSUME Inv, NEW d \in Indent, NEW lines \in {1, 2}, Newline(d, lines)
    PROVE  StackInv' /\ Deferred'
<1> USE SassConstants
<1>1. nesting = 0 /\ nesting' = 0 /\ ~finished /\ ~finished'
  BY DEF Newline, LineEnds
<1>2. saw_content => pending_lbrace = None
  BY DEF Inv, Deferred
<1>3. CASE Continues(lines)
  <2>1. UNCHANGED <<indent_stack, depth, pending_lbrace, saw_content>>
    BY <1>3 DEF Newline
  <2>2. QED
    BY <1>1, <2>1 DEF Inv, StackInv, Deferred, Ordered
<1>4. CASE ~Continues(lines)
  <2>1. saw_content' = FALSE
    BY <1>4 DEF Newline
  <2>2. Deferred'
    BY <2>1, <1>1 DEF Deferred
  <2>3. ASSUME /\ indent_stack' = Closed(indent_stack, d)
               /\ depth' = depth - (Len(indent_stack) - Len(indent_stack'))
               /\ pending_lbrace' = pending_lbrace
        PROVE  StackInv'
    <3>1. PICK c : c = Closed(indent_stack, d)
      OBVIOUS
    <3>2. /\ c \in Seq(Indent) /\ c # <<>> /\ Ordered(c)
          /\ Last(c) <= Last(indent_stack)
      BY <3>1, ClosedOrdered DEF Inv, StackInv
    <3>3. Last(c) \in Nat /\ Last(indent_stack) \in Nat
      BY <3>2, LastInNat DEF Inv, StackInv
    <3>4. pending_lbrace # None => Last(c) < pending_lbrace
      BY <3>2, <3>3 DEF Inv, StackInv
    <3>5. depth' = Len(c) - 1
      BY <2>3, <3>1, <3>2 DEF Inv, StackInv
    <3>6. QED
      BY <2>3, <3>1, <3>2, <3>4, <3>5 DEF Inv, StackInv, Ordered
  <2>4. CASE saw_content /\ Deeper(d)
    <3>1. OpenBlock(d)
      BY <1>4, <2>4 DEF Newline
    <3>2. Last(indent_stack) < d
      BY <2>4, LastInNat DEF Deeper, top, Inv, StackInv
    <3>3. CASE after_at \/ after_dollar
      BY <2>2, <3>1, <3>2, <3>3 DEF OpenBlock, Inv, StackInv, Ordered
    <3>4. CASE ~(after_at \/ after_dollar)
      <4>1. /\ indent_stack' = Append(indent_stack, d)
            /\ depth' = depth + 1 /\ pending_lbrace' = None
        BY <3>1, <3>4, <1>2, <2>4 DEF OpenBlock
      <4>2. PICK s : s = Append(indent_stack, d)
        OBVIOUS
      <4>3. s \in Seq(Indent) /\ s # <<>> /\ Len(s) = Len(indent_stack) + 1
            /\ Ordered(s)
        BY <3>2, <4>2, AppendOrdered DEF Inv, StackInv
      <4>4. depth' = Len(s) - 1
        BY <4>1, <4>3 DEF Inv, StackInv
      <4>5. QED
        BY <2>2, <4>1, <4>2, <4>3, <4>4 DEF StackInv, Ordered
    <3>5. QED
      BY <3>3, <3>4
  <2>5. CASE saw_content /\ ~Deeper(d)
    <3>1. EndStatement(d)
      BY <1>4, <2>5 DEF Newline
    <3>2. QED
      BY <2>2, <3>1, <2>3 DEF EndStatement
  <2>6. CASE ~saw_content
    <3>1. EndBlankLine(d)
      BY <1>4, <2>6 DEF Newline
    <3>2. QED
      BY <2>2, <3>1, <2>3 DEF EndBlankLine
  <2>7. QED
    BY <2>2, <2>4, <2>5, <2>6
<1>5. QED
  BY <1>3, <1>4

\* A line end keeps the types of the rest.
LEMMA NewlineRest ==
    ASSUME Inv, NEW d \in Indent, NEW lines \in {1, 2}, Newline(d, lines)
    PROVE  Rest'
<1>1. WithLine \subseteq Indent
  BY DEF Inv, Rest, WithLine
<1>2. enclosing' \subseteq Indent /\ consistent' \in BOOLEAN /\ astray' \in BOOLEAN
  <2>1. CASE saw_content
    BY <2>1 DEF Newline, reference, Inv, Rest
  <2>2. CASE ~saw_content
    BY <2>2, <1>1 DEF Newline, Inv, Rest
  <2>3. QED
    BY <2>1, <2>2
<1>3. /\ saw_content' \in BOOLEAN
      /\ after_at' \in BOOLEAN /\ after_dollar' \in BOOLEAN
  <2>1. CASE Continues(lines)
    BY <2>1 DEF Newline, Inv, Rest
  <2>2. CASE ~Continues(lines)
    BY <2>2 DEF Newline, OpenBlock, EndStatement, EndBlankLine, Inv, Rest
  <2>3. QED
    BY <2>1, <2>2
<1>4. QED
  BY <1>2, <1>3 DEF Newline, tokens, Inv, Rest

\* The end of the file closes every block.
LEMMA EndOfFileKeepsInv ==
    ASSUME Inv, EndOfFile
    PROVE  Inv'
<1> USE SassConstants
<1> DEFINE open == IF pending_lbrace = None THEN indent_stack
                   ELSE Append(indent_stack, pending_lbrace)
<1>1. open \in Seq(Indent) /\ open # <<>>
  <2>1. CASE pending_lbrace = None
    BY <2>1 DEF Inv, StackInv
  <2>2. CASE pending_lbrace # None
    <3>1. pending_lbrace \in Indent
      BY <2>2 DEF Inv, StackInv
    <3>2. QED
      BY <2>2, <3>1, AppendOrdered DEF Inv, StackInv
  <2>3. QED
    BY <2>1, <2>2
<1>2. /\ finished' = TRUE /\ pending_lbrace' = None
      /\ indent_stack' = SubSeq(open, 1, 1)
      /\ depth' = depth + (Len(open) - Len(indent_stack)) - (Len(open) - 1)
  BY DEF EndOfFile
<1> HIDE DEF open
<1>3. PICK s : s = SubSeq(open, 1, 1)
  OBVIOUS
<1>4. s \in Seq(Indent) /\ Len(s) = 1
  <2>1. Len(open) >= 1 /\ Len(open) \in Nat
    BY <1>1, EmptySeq
  <2>2. QED
    BY <1>1, <1>3, <2>1, SubSeqProperties
<1>5. s # <<>> /\ Ordered(s)
  BY <1>4, EmptySeq DEF Ordered
<1>6. depth' = 0
  BY <1>1, <1>2 DEF Inv, StackInv
<1>7. StackInv'
  BY <1>2, <1>3, <1>4, <1>5, <1>6 DEF StackInv, Ordered
<1>8. Rest'
  BY DEF EndOfFile, tokens, flags, reference, Inv, Rest
<1>9. Deferred' /\ (finished' => Len(indent_stack') = 1)
  BY <1>2, <1>3, <1>4 DEF Deferred
<1>10. QED
  BY <1>7, <1>8, <1>9 DEF Inv

-----------------------------------------------------------------------------
\* The invariant is inductive.
THEOREM Invariant == Spec => []Inv
<1> USE SassConstants
<1>1. Init => Inv
  <2> SUFFICES ASSUME Init PROVE Inv
    OBVIOUS
  <2>1. <<0>> \in Seq(Indent) /\ <<0>> # <<>> /\ Len(<<0>>) = 1
    OBVIOUS
  <2>2. StackInv
    BY <2>1 DEF Init, StackInv, Ordered
  <2>3. Rest
    <3>1. nesting \in 0 .. MaxNesting
      BY DEF Init
    <3>2. enclosing \subseteq Indent /\ current_line_indent \in Indent
      BY DEF Init
    <3>3. QED
      BY <3>1, <3>2 DEF Init, Rest
  <2>4. QED
    BY <2>1, <2>2, <2>3 DEF Init, Inv, Deferred
<1>2. Inv /\ [Next]_vars => Inv'
  <2> SUFFICES ASSUME Inv, [Next]_vars PROVE Inv'
    OBVIOUS
  <2>1. CASE Token
    BY <2>1, TokenKeepsInv
  <2>2. ASSUME NEW d \in Indent, NEW lines \in {1, 2}, Newline(d, lines)
        PROVE  Inv'
    <3>1. StackInv' /\ Deferred' /\ Rest'
      BY <2>2, NewlineStack, NewlineRest
    <3>2. ~finished'
      BY <2>2 DEF Newline
    <3>3. QED
      BY <3>1, <3>2 DEF Inv
  <2>3. CASE Comment
    <3>1. comment' \in Indent \cup {None}
      BY <2>3 DEF Comment, Inv, Rest
    <3>2. UNCHANGED <<indent_stack, pending_lbrace, saw_content, tokens, flags,
                   nesting, current_line_indent, depth, finished, reference>>
      BY <2>3 DEF Comment
    <3>3. QED
      BY <3>1, <3>2 DEF Inv, StackInv, Rest, Deferred, Ordered, tokens, flags,
         reference
  <2>4. CASE EndOfFile
    BY <2>4, EndOfFileKeepsInv
  <2>5. CASE UNCHANGED vars
    BY <2>5 DEF Inv, StackInv, Rest, Deferred, Ordered, vars, tokens, flags,
       reference
  <2>6. QED
    BY <2>1, <2>2, <2>3, <2>4, <2>5 DEF Next
<1>3. QED
  BY <1>1, <1>2, PTL DEF Spec

\* The state of the lexer keeps its type.
THEOREM TypeCorrect == Spec => []TypeOK
<1>1. Inv => TypeOK
  <2>1. \A s \in Seq(Indent) : Len(s) \in Nat
    OBVIOUS
  <2>2. QED
    BY <2>1 DEF Inv, StackInv, Rest, TypeOK
<1>2. QED
  BY <1>1, Invariant, PTL

\* The blocks on the stack are ever deeper, and the deferred one deeper still.
THEOREM BlocksDeeper == Spec => []DeeperAndDeeper
<1>1. Inv => DeeperAndDeeper
  BY DEF Inv, StackInv, Ordered, DeeperAndDeeper, top
<1>2. QED
  BY <1>1, Invariant, PTL

\* Every virtual brace is matched, for every sequence of tokens.
THEOREM VirtualBracesBalance == Spec => []BracesBalance
<1>1. Inv => BracesBalance
  BY DEF Inv, StackInv, BracesBalance
<1>2. QED
  BY <1>1, Invariant, PTL

\* While a bracket is open no virtual brace is emitted before the end of the
\* file, because no block's brace can be deferred into the brackets.
THEOREM NoBraceInBrackets == Spec => BracketsAreOneLine
<1> DEFINE A == nesting > 0 /\ ~finished' => UNCHANGED <<indent_stack, depth>>
<1>1. Inv /\ [Next]_vars => [A]_vars
  <2> SUFFICES ASSUME Inv, Next, nesting > 0, ~finished'
               PROVE  UNCHANGED <<indent_stack, depth>>
    OBVIOUS
  <2>1. CASE Token
    BY <2>1, TokenKeepsInv
  <2>2. ASSUME NEW d \in Indent, NEW lines \in {1, 2}, Newline(d, lines)
        PROVE  FALSE
    BY <2>2 DEF Newline, LineEnds
  <2>3. CASE Comment
    BY <2>3 DEF Comment
  <2>4. CASE EndOfFile
    BY <2>4 DEF EndOfFile
  <2>5. QED
    BY <2>1, <2>2, <2>3, <2>4 DEF Next
<1>2. QED
  BY <1>1, Invariant, PTL DEF Spec, BracketsAreOneLine

-----------------------------------------------------------------------------
(* The blocks follow the indentation.                                       *)

\* An opened block is added to the columns of the stack.
LEMMA AppendColumns ==
    ASSUME NEW stack \in Seq(Indent), stack # <<>>, NEW d \in Indent
    PROVE  /\ ToSet(Append(stack, d)) = ToSet(stack) \cup {d}
           /\ Append(stack, d)[1] = stack[1]
<1> DEFINE s == Append(stack, d)
<1>1. Len(stack) \in Nat /\ Len(stack) >= 1
  BY EmptySeq
<1>2. s \in Seq(Indent) /\ Len(s) = Len(stack) + 1 /\ s[Len(stack) + 1] = d
      /\ \A i \in 1 .. Len(stack) : s[i] = stack[i]
  BY AppendProperties
<1> HIDE DEF s
<1>3. DOMAIN s = 1 .. Len(s) /\ DOMAIN stack = 1 .. Len(stack)
  BY <1>2
<1>4. ASSUME NEW x \in ToSet(s) PROVE x \in ToSet(stack) \cup {d}
  <2>1. PICK i \in 1 .. Len(s) : x = s[i]
    BY <1>3 DEF ToSet
  <2>2. CASE i = Len(stack) + 1
    BY <2>1, <2>2, <1>2
  <2>3. CASE i # Len(stack) + 1
    <3>1. i \in 1 .. Len(stack)
      BY <2>3, <1>1, <1>2
    <3>2. QED
      BY <2>1, <3>1, <1>2, <1>3 DEF ToSet
  <2>4. QED
    BY <2>2, <2>3
<1>5. ASSUME NEW x \in ToSet(stack) PROVE x \in ToSet(s)
  <2>1. PICK i \in 1 .. Len(stack) : x = stack[i]
    BY <1>3 DEF ToSet
  <2>2. i \in 1 .. Len(s) /\ x = s[i]
    BY <2>1, <1>1, <1>2
  <2>3. QED
    BY <2>2, <1>3 DEF ToSet
<1>6. d \in ToSet(s)
  <2>1. Len(stack) + 1 \in 1 .. Len(s)
    BY <1>1, <1>2
  <2>2. QED
    BY <2>1, <1>2, <1>3 DEF ToSet
<1>7. ToSet(s) = ToSet(stack) \cup {d}
  BY <1>4, <1>5, <1>6
<1>8. s[1] = stack[1]
  BY <1>1, <1>2
<1>9. QED
  BY <1>7, <1>8 DEF s

\* The columns of an ordered stack are naturals up to its top.
LEMMA ColumnsUpToTop ==
    ASSUME NEW stack \in Seq(Indent), stack # <<>>, Ordered(stack)
    PROVE  /\ ToSet(stack) \subseteq Indent
           /\ Last(stack) \in ToSet(stack)
           /\ stack[1] \in ToSet(stack)
           /\ \A x \in ToSet(stack) : x <= Last(stack)
<1> USE SassConstants
<1>1. Len(stack) \in Nat /\ Len(stack) >= 1
  BY EmptySeq
<1>2. DOMAIN stack = 1 .. Len(stack) /\ \A i \in 1 .. Len(stack) : stack[i] \in Indent
  BY ElementOfSeq
<1>3. Last(stack) = stack[Len(stack)]
  BY DEF Last
<1>4. Len(stack) \in 1 .. Len(stack) /\ 1 \in 1 .. Len(stack)
  BY <1>1
<1>5. ASSUME NEW x \in ToSet(stack) PROVE x <= Last(stack)
  <2>1. PICK i \in 1 .. Len(stack) : x = stack[i]
    BY <1>2 DEF ToSet
  <2>2. stack[i] \in Nat /\ stack[Len(stack)] \in Nat
    BY <1>2, <1>4
  <2>3. CASE i = Len(stack)
    BY <2>1, <2>2, <2>3, <1>3
  <2>4. CASE i # Len(stack)
    <3>1. i < Len(stack)
      BY <2>4, <1>1
    <3>2. stack[i] < stack[Len(stack)]
      BY <3>1, <1>4 DEF Ordered
    <3>3. QED
      BY <2>1, <2>2, <3>2, <1>3
  <2>5. QED
    BY <2>3, <2>4
<1>6. QED
  BY <1>2, <1>3, <1>4, <1>5 DEF ToSet

\* Closing at column d keeps exactly the columns up to d, for a stack whose
\* bottom is column 0.
LEMMA ClosedColumns ==
    ASSUME NEW stack \in Seq(Indent), stack # <<>>, Ordered(stack),
           stack[1] = 0, NEW d \in Indent
    PROVE  /\ ToSet(Closed(stack, d)) = {x \in ToSet(stack) : x <= d}
           /\ Closed(stack, d)[1] = 0
<1> USE SassConstants
<1> DEFINE c == Closed(stack, d)
<1>1. /\ c \in Seq(Indent) /\ Len(c) \in 1 .. Len(stack)
      /\ \A i \in 1 .. Len(c) : c[i] = stack[i]
      /\ \A i \in 1 .. Len(stack) : stack[i] <= d => i <= Len(c)
      /\ Len(c) = 1 \/ c[Len(c)] <= d
  BY ClosedFacts
<1>2. c # <<>> /\ Ordered(c)
  BY ClosedOrdered
<1> HIDE DEF c
<1>3. Len(stack) \in Nat /\ Len(c) \in Nat
  BY <1>1
<1>4. DOMAIN c = 1 .. Len(c) /\ DOMAIN stack = 1 .. Len(stack)
  BY <1>1
<1>5. c[1] = 0
  BY <1>1, <1>3
<1>6. Last(c) <= d
  <2>1. Last(c) = c[Len(c)]
    BY DEF Last
  <2>2. CASE Len(c) = 1
    <3>1. d \in Nat
      OBVIOUS
    <3>2. QED
      BY <2>1, <2>2, <3>1, <1>5
  <2>3. CASE c[Len(c)] <= d
    BY <2>1, <2>3
  <2>4. QED
    BY <1>1, <2>2, <2>3
<1>7. ASSUME NEW x \in ToSet(c) PROVE x \in ToSet(stack) /\ x <= d
  <2>1. PICK i \in 1 .. Len(c) : x = c[i]
    BY <1>4 DEF ToSet
  <2>2. i \in 1 .. Len(stack) /\ x = stack[i]
    BY <2>1, <1>1, <1>3
  <2>3. x <= Last(c) /\ x \in Indent /\ Last(c) \in Indent
    BY <1>1, <1>2, ColumnsUpToTop
  <2>4. x \in Nat /\ Last(c) \in Nat /\ d \in Nat
    BY <2>3
  <2>5. x <= d
    BY <2>3, <2>4, <1>6
  <2>6. QED
    BY <2>2, <2>5, <1>4 DEF ToSet
<1>8. ASSUME NEW x \in ToSet(stack), x <= d PROVE x \in ToSet(c)
  <2>1. PICK i \in 1 .. Len(stack) : x = stack[i]
    BY <1>4 DEF ToSet
  <2>2. i \in 1 .. Len(c) /\ x = c[i]
    BY <2>1, <1>1, <1>3, <1>8
  <2>3. QED
    BY <2>2, <1>4 DEF ToSet
<1>9. ToSet(c) = {x \in ToSet(stack) : x <= d}
  BY <1>7, <1>8
<1>10. QED
  BY <1>5, <1>9 DEF c

\* The columns up to one of them.
LEMMA ColumnsUpTo ==
    ASSUME NEW S, S \subseteq Nat, NEW d \in S
    PROVE  /\ {x \in S : x <= d} = {x \in S : x < d} \cup {d}
           /\ (\A x \in S : x <= d) => {x \in S : x < d} \cup {d} = S
<1>1. d \in Nat
  OBVIOUS
<1>2. ASSUME NEW x \in S PROVE x <= d <=> x < d \/ x = d
  <2>1. x \in Nat
    OBVIOUS
  <2>2. QED
    BY <1>1, <2>1
<1>3. d <= d
  BY <1>1
<1>4. QED
  BY <1>2, <1>3, Zenon

Awaited == IF pending_lbrace = None THEN {} ELSE {pending_lbrace}

Bottom == indent_stack[1] = 0

\* Within a statement the open blocks are the columns it is under.
InStatement == saw_content => ToSet(indent_stack) = enclosing

\* Between statements they are, with the deferred one, the columns a statement
\* on the line begun would be under.  A block is deferred at this line's own
\* column, which `enclosing` takes in only when a line without a statement ends.
Between ==
    ~saw_content =>
        /\ Returns => ToSet(indent_stack) \cup Awaited = WithLine
        /\ pending_lbrace # None =>
             /\ pending_lbrace = current_line_indent
             /\ \/ pending_lbrace \in enclosing
                \/ ToSet(indent_stack) = enclosing

Follows == consistent /\ ~astray /\ ~finished => InStatement /\ Between

BlocksInv == Inv /\ Bottom /\ Follows

\* A token that starts a statement finds the blocks of its line open, and one
\* that continues a header finds those of the header.
LEMMA TokenFollows ==
    ASSUME BlocksInv, NEW k, Significant(k)
    PROVE  Bottom' /\ Follows'
<1> USE SassConstants
<1>1. Bottom'
  <2>1. CASE Opens(k)
    <3>1. pending_lbrace \in Indent
      BY <2>1 DEF Opens, BlocksInv, Inv, StackInv
    <3>2. indent_stack' = Append(indent_stack, pending_lbrace)
      BY <2>1 DEF Significant
    <3>3. Append(indent_stack, pending_lbrace)[1] = indent_stack[1]
      BY <3>1, AppendColumns DEF BlocksInv, Inv, StackInv
    <3>4. QED
      BY <3>2, <3>3 DEF BlocksInv, Bottom
  <2>2. CASE ~Opens(k)
    BY <2>2 DEF Significant, BlocksInv, Bottom
  <2>3. QED
    BY <2>1, <2>2
<1>2. ASSUME consistent', ~astray'
      PROVE  ToSet(indent_stack') = enclosing'
  <2>1. consistent /\ ~astray /\ ~finished /\ ~Misread(k)
    BY <1>2 DEF Significant
  <2>2. InStatement /\ Between
    BY <2>1 DEF BlocksInv, Follows
  <2>3. CASE StartsStatement(k)
    <3>1. enclosing' = WithLine /\ Returns /\ ~saw_content
      BY <1>2, <2>3 DEF Significant, StartsStatement
    <3>2. ToSet(indent_stack) \cup Awaited = WithLine
      BY <3>1, <2>2 DEF Between
    <3>3. ~Resumes(k)
      BY <2>1, <2>3 DEF StartsStatement, Misread
    <3>4. CASE pending_lbrace # None
      <4>1. pending_lbrace \in Indent
        BY <3>4 DEF BlocksInv, Inv, StackInv
      <4>2. indent_stack' = Append(indent_stack, pending_lbrace)
        BY <3>3, <3>4 DEF Significant, Opens
      <4>3. ToSet(Append(indent_stack, pending_lbrace))
              = ToSet(indent_stack) \cup {pending_lbrace}
        BY <4>1, AppendColumns DEF BlocksInv, Inv, StackInv
      <4>4. QED
        BY <3>1, <3>2, <3>4, <4>2, <4>3 DEF Awaited
    <3>5. CASE pending_lbrace = None
      <4>1. indent_stack' = indent_stack
        BY <3>5 DEF Significant, Opens
      <4>2. QED
        BY <3>1, <3>2, <3>5, <4>1 DEF Awaited
    <3>6. QED
      BY <3>4, <3>5
  <2>4. CASE saw_content
    <3>1. pending_lbrace = None
      BY <2>4 DEF BlocksInv, Inv, Deferred
    <3>2. indent_stack' = indent_stack /\ enclosing' = enclosing
      BY <2>4, <3>1 DEF Significant, Opens, StartsStatement
    <3>3. QED
      BY <2>2, <2>4, <3>2 DEF InStatement
  <2>5. CASE ~saw_content /\ ~StartsStatement(k)
    <3>1. Resumes(k)
      BY <2>5 DEF StartsStatement
    <3>2. indent_stack' = indent_stack /\ enclosing' = enclosing
      BY <2>5, <3>1 DEF Significant, Opens
    <3>3. pending_lbrace # None /\ pending_lbrace \notin enclosing
      BY <3>1, <2>1 DEF Misread, Resumes
    <3>4. QED
      BY <2>2, <2>5, <3>2, <3>3 DEF Between
  <2>6. QED
    BY <2>3, <2>4, <2>5
<1>3. saw_content' = TRUE
  BY DEF Significant
<1>4. QED
  BY <1>1, <1>2, <1>3 DEF Follows, InStatement, Between

\* A line end after a statement: the deeper line's block is opened or
\* deferred, or the blocks up to the line's column stay.
LEMMA StatementEndFollows ==
    ASSUME BlocksInv, NEW d \in Indent, NEW lines \in {1, 2},
           Newline(d, lines), ~Continues(lines), saw_content
    PROVE  Bottom' /\ Follows'
<1> USE SassConstants
<1>1. /\ indent_stack \in Seq(Indent) /\ indent_stack # <<>>
      /\ Ordered(indent_stack) /\ indent_stack[1] = 0
      /\ pending_lbrace = None
  BY DEF BlocksInv, Inv, StackInv, Deferred, Bottom
<1>2. /\ saw_content' = FALSE /\ current_line_indent' = d
      /\ enclosing' = enclosing /\ consistent' = consistent
      /\ astray' = astray /\ finished' = finished
  BY DEF Newline, reference
<1>3. PICK S : S = ToSet(indent_stack)
  OBVIOUS
<1>4. /\ S \subseteq Nat /\ 0 \in S
      /\ Last(indent_stack) \in S /\ \A x \in S : x <= Last(indent_stack)
      /\ Last(indent_stack) \in Nat /\ d \in Nat
  BY <1>1, <1>3, ColumnsUpToTop
<1>5. Follows => (consistent' /\ ~astray' /\ ~finished' => enclosing = S)
  BY <1>2, <1>3 DEF Follows, InStatement
<1>6. CASE Deeper(d)
  <2>1. ASSUME NEW x \in S PROVE x < d
    <3>1. x \in Nat /\ x <= Last(indent_stack) /\ Last(indent_stack) < d
      BY <1>4, <1>6 DEF Deeper, top
    <3>2. QED
      BY <3>1, <1>4
  <2>2. OpenBlock(d)
    BY <1>6 DEF Newline
  <2>3. ASSUME enclosing = S PROVE WithLine' = S \cup {d}
    BY <2>1, <2>3, <1>2 DEF WithLine
  <2>4. CASE after_at \/ after_dollar
    <3>1. indent_stack' = indent_stack /\ pending_lbrace' = d
      BY <2>2, <2>4 DEF OpenBlock
    <3>2. Awaited' = {d}
      BY <3>1 DEF Awaited
    <3>3. ASSUME enclosing = S PROVE Between'
      BY <2>3, <3>1, <3>2, <3>3, <1>2, <1>3 DEF Between
    <3>4. QED
      BY <3>1, <3>3, <1>1, <1>2, <1>5 DEF BlocksInv, Follows, InStatement, Bottom
  <2>5. CASE ~(after_at \/ after_dollar)
    <3>1. indent_stack' = Append(indent_stack, d) /\ pending_lbrace' = None
      BY <2>2, <2>5, <1>1 DEF OpenBlock
    <3>2. /\ ToSet(Append(indent_stack, d)) = S \cup {d}
          /\ Append(indent_stack, d)[1] = 0
      BY <1>1, <1>3, AppendColumns
    <3>3. Awaited' = {}
      BY <3>1 DEF Awaited
    <3>4. ASSUME enclosing = S PROVE Between'
      BY <2>3, <3>1, <3>2, <3>3, <3>4 DEF Between
    <3>5. QED
      BY <3>1, <3>2, <3>4, <1>2, <1>5 DEF BlocksInv, Follows, InStatement, Bottom
  <2>6. QED
    BY <2>4, <2>5
<1>7. CASE ~Deeper(d)
  <2>1. ~(Last(indent_stack) < d)
    <3>1. ~(d > Last(indent_stack))
      BY <1>7 DEF Deeper, top
    <3>2. QED
      BY <3>1, <1>4
  <2>2. indent_stack' = Closed(indent_stack, d) /\ pending_lbrace' = None
    BY <1>1, <1>7 DEF Newline, EndStatement
  <2>3. /\ ToSet(Closed(indent_stack, d)) = {x \in S : x <= d}
        /\ Closed(indent_stack, d)[1] = 0
    BY <1>1, <1>3, ClosedColumns
  <2>4. Awaited' = {}
    BY <2>2 DEF Awaited
  <2>5. ASSUME enclosing = S, Returns'
        PROVE  ToSet(indent_stack') \cup Awaited' = WithLine'
    <3>1. d \in S
      <4>1. d \in S \/ (\A x \in S : x < d)
        BY <2>5, <1>2 DEF Returns
      <4>2. QED
        BY <4>1, <2>1, <1>4
    <3>2. {x \in S : x <= d} = {x \in S : x < d} \cup {d}
      BY <3>1, <1>4, ColumnsUpTo
    <3>3. WithLine' = {x \in S : x < d} \cup {d}
      BY <2>5, <1>2 DEF WithLine
    <3>4. QED
      BY <2>2, <2>3, <2>4, <3>2, <3>3
  <2>6. ASSUME enclosing = S PROVE Between'
    BY <2>2, <2>5, <2>6 DEF Between
  <2>7. QED
    BY <2>2, <2>3, <2>6, <1>2, <1>5 DEF BlocksInv, Follows, InStatement, Bottom
<1>8. QED
  BY <1>6, <1>7

\* A line end after a line without a statement: such a line is no deeper than
\* the one before it, and no shallower than a block deferred.
LEMMA BlankLineFollows ==
    ASSUME BlocksInv, NEW d \in Indent, NEW lines \in {1, 2},
           Newline(d, lines), ~Continues(lines), ~saw_content
    PROVE  Bottom' /\ Follows'
<1> USE SassConstants
<1>1. /\ indent_stack \in Seq(Indent) /\ indent_stack # <<>>
      /\ Ordered(indent_stack) /\ indent_stack[1] = 0
      /\ pending_lbrace # None =>
           pending_lbrace \in Indent /\ Last(indent_stack) < pending_lbrace
  BY DEF BlocksInv, Inv, StackInv, Bottom
<1>2. /\ saw_content' = FALSE /\ current_line_indent' = d
      /\ indent_stack' = Closed(indent_stack, d)
      /\ pending_lbrace' = pending_lbrace
      /\ enclosing' = WithLine
  BY DEF Newline, EndBlankLine
<1>3. PICK S : S = ToSet(indent_stack)
  OBVIOUS
<1>4. /\ S \subseteq Nat
      /\ Last(indent_stack) \in Nat /\ \A x \in S : x <= Last(indent_stack)
  BY <1>1, <1>3, ColumnsUpToTop
<1>5. /\ ToSet(Closed(indent_stack, d)) = {x \in S : x <= d}
      /\ Closed(indent_stack, d)[1] = 0
  BY <1>1, <1>3, ClosedColumns
<1>6. ASSUME consistent', ~astray', ~finished'
      PROVE  Between'
  <2>1. /\ consistent /\ Returns /\ d <= current_line_indent
        /\ ~astray /\ ~finished
        /\ ~(pending_lbrace # None /\ d < pending_lbrace)
    BY <1>6 DEF Newline
  <2>2. /\ S \cup Awaited = WithLine
        /\ pending_lbrace # None => pending_lbrace = current_line_indent
    BY <2>1, <1>3 DEF BlocksInv, Follows, Between
  <2>3. current_line_indent \in Nat /\ d \in Nat
    BY DEF BlocksInv, Inv, Rest
  <2>4. ~(current_line_indent < d)
    BY <2>1, <2>3
  <2>5. current_line_indent \in WithLine /\ WithLine \subseteq Nat
    BY <2>2, <2>3, <1>1, <1>4 DEF WithLine, Awaited
  <2>6. \A x \in WithLine : x <= current_line_indent
    BY <2>3, <2>5 DEF WithLine
  <2>7. CASE pending_lbrace # None
    <3>1. pending_lbrace = d /\ current_line_indent = d
      BY <2>1, <2>2, <2>3, <2>7
    <3>2. {x \in S : x <= d} = S
      <4>1. ASSUME NEW x \in S PROVE x <= d
        <5>1. x \in Nat /\ x <= Last(indent_stack) /\ Last(indent_stack) < d
          BY <3>1, <2>7, <1>1, <1>4
        <5>2. QED
          BY <5>1, <2>3, <1>4
      <4>2. QED
        BY <4>1
    <3>3. d \in enclosing'
      BY <3>1, <2>5, <1>2
    <3>4. WithLine' = WithLine
      <4>1. WithLine' = {x \in WithLine : x < d} \cup {d}
        BY <1>2 DEF WithLine
      <4>2. QED
        BY <4>1, <3>1, <2>5, <2>6, ColumnsUpTo
    <3>5. Awaited' = Awaited
      BY <1>2 DEF Awaited
    <3>6. QED
      BY <3>1, <3>2, <3>3, <3>4, <3>5, <2>2, <1>2, <1>5 DEF Between
  <2>8. CASE pending_lbrace = None
    <3>1. S = WithLine /\ Awaited' = {}
      BY <2>2, <2>8, <1>2 DEF Awaited
    <3>2. ASSUME Returns'
          PROVE  {x \in S : x <= d} = WithLine'
      <4>1. WithLine # {}
        BY <2>5
      <4>2. d \in WithLine \/ (\A x \in WithLine : x < d)
        BY <3>2, <1>2 DEF Returns
      <4>3. d \in WithLine
        BY <4>2, <2>5, <2>4
      <4>4. {x \in S : x <= d} = {x \in WithLine : x < d} \cup {d}
        BY <4>3, <3>1, <2>5, ColumnsUpTo
      <4>5. WithLine' = {x \in WithLine : x < d} \cup {d}
        BY <1>2 DEF WithLine
      <4>6. QED
        BY <4>4, <4>5
    <3>3. QED
      BY <3>1, <3>2, <2>8, <1>2, <1>5 DEF Between
  <2>9. QED
    BY <2>7, <2>8
<1>7. QED
  BY <1>2, <1>5, <1>6 DEF Follows, InStatement, Bottom

\* A line end that continues a statement changes no block.
LEMMA ContinuationFollows ==
    ASSUME BlocksInv, NEW d \in Indent, NEW lines \in {1, 2},
           Newline(d, lines), Continues(lines)
    PROVE  Bottom' /\ Follows'
<1>1. UNCHANGED <<indent_stack, pending_lbrace, saw_content, finished>>
  BY DEF Newline
<1>2. CASE saw_content
  <2>1. UNCHANGED <<enclosing, consistent, astray>>
    BY <1>2 DEF Newline, reference
  <2>2. QED
    BY <1>1, <1>2, <2>1 DEF BlocksInv, Bottom, Follows, InStatement, Between
<1>3. CASE ~saw_content
  <2>1. astray'
    BY <1>3 DEF Newline
  <2>2. QED
    BY <1>1, <2>1 DEF BlocksInv, Bottom, Follows
<1>4. QED
  BY <1>2, <1>3

\* The blocks open in a statement are those of the lines it is indented
\* under, for any columns and any sequence of tokens, unless the file returns
\* to a column it never used or a deferred brace went astray.
THEOREM BlocksFollow == Spec => []BlocksFollowUnlessAstray
<1> USE SassConstants
<1>1. Init => Bottom /\ Follows
  <2> SUFFICES ASSUME Init PROVE Bottom /\ Follows
    OBVIOUS
  <2>1. ToSet(<<0>>) = {0}
    BY DEF ToSet
  <2>2. WithLine = {0}
    BY DEF Init, WithLine
  <2>3. QED
    BY <2>1, <2>2 DEF Init, Bottom, Follows, InStatement, Between, Awaited
<1>2. Inv /\ Bottom /\ Follows /\ [Next]_vars => Bottom' /\ Follows'
  <2> SUFFICES ASSUME BlocksInv, [Next]_vars PROVE Bottom' /\ Follows'
    BY DEF BlocksInv
  <2>1. CASE Token
    <3>1. PICK k : Significant(k)
      BY <2>1 DEF Token, OpenBracket, CloseBracket, OtherToken,
         IncludeShorthand, MixinShorthand, PlusFirst, At, DollarFirst
    <3>2. QED
      BY <3>1, TokenFollows
  <2>2. ASSUME NEW d \in Indent, NEW lines \in {1, 2}, Newline(d, lines)
        PROVE  Bottom' /\ Follows'
    BY <2>2, ContinuationFollows, StatementEndFollows, BlankLineFollows
  <2>3. CASE Comment
    BY <2>3 DEF Comment, reference, BlocksInv, Bottom, Follows, InStatement,
       Between, Returns, WithLine, Awaited
  <2>4. CASE EndOfFile
    <3>1. PICK open : /\ open \in Seq(Indent) /\ open # <<>>
                      /\ open[1] = 0
                      /\ indent_stack' = SubSeq(open, 1, 1)
      <4>1. CASE pending_lbrace = None
        BY <2>4, <4>1 DEF EndOfFile, BlocksInv, Inv, StackInv, Bottom
      <4>2. CASE pending_lbrace # None
        <5>1. pending_lbrace \in Indent
          BY <4>2 DEF BlocksInv, Inv, StackInv
        <5>2. PICK s : s = Append(indent_stack, pending_lbrace)
          OBVIOUS
        <5>3. s \in Seq(Indent) /\ s # <<>> /\ s[1] = 0
          BY <4>2, <5>1, <5>2, AppendOrdered, AppendColumns
          DEF BlocksInv, Inv, StackInv, Bottom
        <5>4. QED
          BY <2>4, <4>2, <5>2, <5>3 DEF EndOfFile
      <4>3. QED
        BY <4>1, <4>2
    <3>2. Len(open) \in Nat /\ Len(open) >= 1
      BY <3>1, EmptySeq
    <3>3. SubSeq(open, 1, 1)[1] = open[1]
      BY <3>1, <3>2, SubSeqProperties
    <3>4. finished'
      BY <2>4 DEF EndOfFile
    <3>5. QED
      BY <3>1, <3>3, <3>4 DEF Bottom, Follows
  <2>5. CASE UNCHANGED vars
    BY <2>5 DEF vars, reference, BlocksInv, Bottom, Follows, InStatement,
       Between, Returns, WithLine, Awaited
  <2>6. QED
    BY <2>1, <2>2, <2>3, <2>4, <2>5 DEF Next
<1>3. Inv /\ Follows => BlocksFollowUnlessAstray
  BY DEF Inv, Rest, Follows, InStatement, BlocksFollowUnlessAstray,
     BlocksFollowIndentation
<1>4. QED
  BY <1>1, <1>2, <1>3, Invariant, PTL DEF Spec
=============================================================================
