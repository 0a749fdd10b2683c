------------------------------- MODULE Events -------------------------------
(***************************************************************************)
(* The parser's core (crates/sass-parser/src/parser.rs, input.rs,          *)
(* event.rs), as functions of a parser's state: what the grammar is built  *)
(* of.                                                                     *)
(*                                                                         *)
(* A significant token is a record [kind, text, ws]: its kind is its text  *)
(* for a symbol and "ident" for a word; ws says whether white space comes  *)
(* before it, which is as much of the trivia as the parser asks about.     *)
(*                                                                         *)
(* A parser that panics, or is found in a loop that consumes nothing, is   *)
(* halted: it is moved to the end of the input, where every rule returns.  *)
(***************************************************************************)
EXTENDS Integers, Sequences

-----------------------------------------------------------------------------
(* Parser.                                                                  *)

\* `result` is the completed marker the last call returned, 0 for None.
New(tokens) ==
    [input |-> tokens, pos |-> 1, events |-> <<>>, depth |-> 0,
     result |-> 0, halted |-> "no"]

Halt(p, why) ==
    [p EXCEPT !.halted = IF @ = "no" THEN why ELSE @,
              !.pos = Len(p.input) + 1]

AtEnd(p) == p.pos > Len(p.input)

Nth(p, n) == IF p.pos + n > Len(p.input) THEN "EOF" ELSE p.input[p.pos + n].kind
NthText(p, n) == IF p.pos + n > Len(p.input) THEN "" ELSE p.input[p.pos + n].text

\* nth_has_whitespace_before: not before the first token, nor at the end.
NthSpaced(p, n) ==
    p.pos + n > 1 /\ p.pos + n <= Len(p.input) /\ p.input[p.pos + n].ws

At(p, k) == Nth(p, 0) = k
AtAny(p, set) == Nth(p, 0) \in set
AtWord(p, words) == At(p, "ident") /\ NthText(p, 0) \in words
Spaced(p) == NthSpaced(p, 0)

Emit(p, e) == [p EXCEPT !.events = Append(@, e)]

\* Mutant: a token is passed over without an event.
BumpSilently(p) == IF AtEnd(p) THEN Halt(p, "panic") ELSE [p EXCEPT !.pos = @ + 1]

Bump(p) == IF AtEnd(p) THEN Halt(p, "panic")
           ELSE [Emit(p, [event |-> "token", at |-> p.pos]) EXCEPT !.pos = @ + 1]

Bump2(p) == Bump(Bump(p))

\* The place an error is reported at: a token, or the end.
Error(p) == Emit(p, [event |-> "error", at |-> p.pos])

Eat(p, k) == IF At(p, k) THEN Bump(p) ELSE p

\* Mutant: what is missing is not reported.
ExpectQuietly(p, k) == IF At(p, k) THEN Bump(p) ELSE p

Expect(p, k) == IF At(p, k) THEN Bump(p) ELSE Error(p)

-----------------------------------------------------------------------------
(* Markers.  A marker is the index of its Enter event.                      *)

Marker(p) == Len(p.events) + 1

Start(p) == Emit(p, [event |-> "enter", kind |-> "ERROR", forward |-> 0])

Complete(p, m, kind) ==
    IF p.events[m].event # "enter" THEN Halt(p, "panic")
    ELSE [Emit([p EXCEPT !.events[m].kind = kind], [event |-> "exit"])
             EXCEPT !.result = m]

Abandon(p, m) ==
    IF m = Len(p.events)
      THEN IF p.events[m].event = "enter"
             THEN [p EXCEPT !.events = SubSeq(@, 1, m - 1)]
             ELSE Halt(p, "panic")
      ELSE [p EXCEPT !.events[m] = [event |-> "tombstone"]]

Precede(p, cm) ==
    LET q == Start(p)
    IN  IF q.events[cm].event # "enter" THEN Halt(q, "panic")
        ELSE [q EXCEPT !.events[cm].forward = Marker(p)]

\* A node begun at p, as Start(p), that ends at q.
Node(p, kind, q) == Complete(q, Marker(p), kind)

ErrAndBump(p) == Node(p, "ERROR", Bump(Error(Start(p))))

None(p) == [p EXCEPT !.result = 0]
Some(p) == [p EXCEPT !.result = Marker(p)]
=============================================================================
