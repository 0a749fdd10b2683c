------------------------------- MODULE Parser -------------------------------
(***************************************************************************)
(* The depth guard and the loops of the grammar's rules, and the bridge    *)
(* from events to a tree (crates/sass-parser/src/bridge.rs), as functions  *)
(* of a parser's state.                                                    *)
(* Trivia, once in the tree, is part of the token it precedes.             *)
(***************************************************************************)
EXTENDS Events, FiniteSets, Functions

CONSTANT MaxDepth   \* MAX_DEPTH

ASSUME DepthConstant == MaxDepth \in Nat

-----------------------------------------------------------------------------
(* Depth, and loops.                                                        *)

\* depth_guard: Fail(_) is what the caller does when it is refused.
Guarded(p, Body(_), Fail(_)) ==
    IF p.depth >= MaxDepth THEN Fail(Error(p))
    ELSE [Body([p EXCEPT !.depth = @ + 1]) EXCEPT !.depth = p.depth]

\* while Go { Body }.  What a turn does is a function of the position (and of
\* the depth, which a turn leaves as it was): a turn that consumes nothing
\* will be taken for ever.
While(p, Go(_), Body(_)) ==
    LET RECURSIVE loop(_)
        turn(q, r) == IF r.pos = q.pos /\ Go(r) THEN Halt(r, "hang") ELSE loop(r)
        loop(q) == IF Go(q) THEN turn(q, Body(q)) ELSE q
    IN  loop(p)

\* The same, left as soon as Body returns None.
WhileSome(p, Go(_), Body(_)) ==
    LET RECURSIVE loop(_)
        turn(q, r) == IF r.result = 0 THEN r
                      ELSE IF r.pos = q.pos THEN Halt(r, "hang") ELSE loop(r)
        loop(q) == IF Go(q) THEN turn(q, Body(q)) ELSE q
    IN  loop(p)

\* while eat(sep) { Item }
Separated(p, sep, Item(_)) ==
    While(p, LAMBDA q : At(q, sep), LAMBDA q : Item(Bump(q)))

\* Tokens are consumed one by one, by Take(_) unless they open or close; n is
\* how many are open.
Skip(p, n, open, close, Go(_, _), Take(_)) ==
    LET RECURSIVE loop(_, _)
        loop(q, k) ==
            IF AtEnd(q) \/ ~Go(q, k) THEN q
            ELSE IF At(q, open) THEN loop(Bump(q), k + 1)
            ELSE IF At(q, close) THEN loop(Bump(q), IF k = 0 THEN 0 ELSE k - 1)
            ELSE loop(Take(q), k)
    IN  loop(p, n)

\* eat_balanced, eat_balanced_parens, eat_balanced_brackets
EatBalanced(p, open, close, Take(_)) ==
    Skip(Bump(p), 1, open, close, LAMBDA q, k : k > 0, Take)

-----------------------------------------------------------------------------
(* The bridge.  A leaf of the tree is a token; a node has a kind, kids and a *)
(* width, in tokens.                                                        *)

Leaf(t) == [token |-> t]
IsTree(x) == "kids" \in DOMAIN x
Width(x) == IF IsTree(x) THEN x.width ELSE 1
Tree(kind, kids) ==
    [kind |-> kind, kids |-> kids,
     width |-> SumFunction([i \in DOMAIN kids |-> Width(kids[i])])]

\* The kinds of a chain of forward parents, innermost first, and the events
\* of it that are spent.
RECURSIVE Chain(_, _)
Chain(events, i) ==
    IF events[i].event # "enter" THEN [kinds |-> <<>>, spent |-> {}, ok |-> FALSE]
    ELSE IF events[i].forward = 0
      THEN [kinds |-> <<events[i].kind>>, spent |-> {i}, ok |-> TRUE]
      ELSE LET rest == Chain(events, events[i].forward)
           IN  [kinds |-> <<events[i].kind>> \o rest.kinds,
                spent |-> {i} \cup rest.spent, ok |-> rest.ok]

\* start_node for each kind of a chain, outermost first.
Opened(b, kinds) ==
    [b EXCEPT !.parents = @ \o [i \in 1 .. Len(kinds) |->
        [kind |-> kinds[Len(kinds) + 1 - i], first |-> Len(b.children)]]]

Closed(b) ==
    LET top == b.parents[Len(b.parents)]
    IN  [b EXCEPT
           !.parents = SubSeq(@, 1, Len(@) - 1),
           !.children = Append(SubSeq(@, 1, top.first),
               Tree(top.kind, SubSeq(@, top.first + 1, Len(@))))]

\* One event.  `ok` is cleared where the code would panic.
BuildEvent(b, events, i, input) ==
    CASE i \in b.spent \/ events[i].event = "tombstone" -> b
      [] events[i].event = "error" -> [b EXCEPT !.errors = Append(@, events[i].at)]
      [] events[i].event = "token" ->
           [b EXCEPT !.children = Append(@, Leaf(input[events[i].at]))]
      [] events[i].event = "exit" ->
           IF b.parents = <<>> THEN [b EXCEPT !.ok = FALSE] ELSE Closed(b)
      [] OTHER ->
           LET chain == Chain(events, i)
           IN  IF ~chain.ok \/ chain.spent \cap b.spent # {}
                 THEN [b EXCEPT !.ok = FALSE]
                 ELSE [Opened(b, chain.kinds) EXCEPT !.spent = @ \cup chain.spent]

RECURSIVE BuildFrom(_, _, _, _)
BuildFrom(b, events, i, input) ==
    IF i > Len(events) \/ ~b.ok THEN b
    ELSE BuildFrom(BuildEvent(b, events, i, input), events, i + 1, input)

\* build_tree
Built(p) ==
    LET b == BuildFrom([children |-> <<>>, parents |-> <<>>, errors |-> <<>>,
                        spent |-> {}, ok |-> TRUE], p.events, 1, p.input)
    IN  IF b.ok /\ Len(b.children) = 1 /\ IsTree(b.children[1])
          THEN [tree |-> b.children[1], errors |-> b.errors, halted |-> p.halted]
          ELSE [tree |-> Tree("", <<>>), errors |-> b.errors,
                halted |-> IF p.halted = "no" THEN "panic" ELSE p.halted]
=============================================================================
