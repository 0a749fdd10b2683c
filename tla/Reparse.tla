------------------------------- MODULE Reparse -------------------------------
(***************************************************************************)
(* A document as it is edited, and its tree (crates/sass-parser/src/       *)
(* reparse.rs, crates/sass-lsp/src/worker.rs try_incremental_or_full): an  *)
(* edit re-parses a few siblings around it and splices them into the old   *)
(* tree, or the whole text is parsed again.                                *)
(*                                                                         *)
(* Offsets count tokens, each with the trivia before it.  Braces have no   *)
(* trivia of their own: it would be a child of the block beside the brace. *)
(***************************************************************************)
EXTENDS Grammar, SequencesExt

CONSTANTS Document,    \* texts that an edit may change anywhere
          Opening,     \* texts that are typed onto
          Inserted,    \* runs of tokens an edit may insert
          MaxDeleted,  \* how many tokens an edit may delete
          MaxTyped     \* how many edits are typed at the end

VARIABLES
    source,   \* the text
    tree,     \* DocumentState.green
    errors,   \* DocumentState.errors, as the places they are at
    full,     \* what parsing the text from scratch gives
    typed     \* how many edits there were

vars == <<source, tree, errors, full, typed>>

-----------------------------------------------------------------------------
(* Trees.                                                                   *)

RECURSIVE Leaves(_)
Leaves(x) == IF IsTree(x)
               THEN FlattenSeq([i \in 1 .. Len(x.kids) |-> Leaves(x.kids[i])])
               ELSE <<x.token>>

LeafKind(x) == IF IsTree(x) THEN "node" ELSE x.token.kind

\* Where the i-th child ends, when its parent starts at offset `from`.
EndOf(kids, from, i) ==
    from + SumFunction([j \in 1 .. i |-> Width(kids[j])])

RECURSIVE SubtreeAt(_, _), WithSubtree(_, _, _)
\* get_green_at_path
SubtreeAt(x, path) ==
    IF path = <<>> THEN x ELSE SubtreeAt(x.kids[Head(path)], Tail(path))
\* rebuild_ancestors
WithSubtree(x, path, y) ==
    IF path = <<>> THEN y
    ELSE Tree(x.kind, [x.kids EXCEPT ![Head(path)] = WithSubtree(@, Tail(path), y)])

-----------------------------------------------------------------------------
(* What an edit touches.  An edit deletes e.delete tokens at e.offset and   *)
(* inserts the tokens e.insert there.                                       *)

Applied(text, e) ==
    SubSeq(text, 1, e.offset) \o e.insert
      \o SubSeq(text, e.offset + e.delete + 1, Len(text))

\* node_contains_edit
Encloses(first, end, e) ==
    IF e.delete = 0 THEN first <= e.offset /\ e.offset < end
    ELSE first <= e.offset /\ e.offset + e.delete <= end

\* child_overlaps_edit
Overlaps(first, end, e) ==
    IF e.delete = 0 THEN first <= e.offset /\ e.offset < end
    ELSE first < e.offset + e.delete /\ e.offset < end

\* find_deepest_container: the path to the innermost block around the edit,
\* and the offset it starts at; the root when there is none.
RECURSIVE Container(_, _, _)
Container(x, from, e) ==
    LET root == [path |-> <<>>, from |-> from]
        around == {i \in 1 .. Len(x.kids) :
                     /\ IsTree(x.kids[i])
                     /\ Encloses(EndOf(x.kids, from, i - 1), EndOf(x.kids, from, i), e)}
        i == Min(around)
        inner == Container(x.kids[i], EndOf(x.kids, from, i - 1), e)
    IN  IF around = {} THEN root
        ELSE IF inner.path = <<>> /\ x.kids[i].kind # "BLOCK" THEN root
        ELSE [inner EXCEPT !.path = <<i>> \o @]

\* affected_child_range
Affected(kids, from, e) ==
    LET hit(Touches(_, _)) ==
          {i \in 1 .. Len(kids) : Touches(EndOf(kids, from, i - 1), EndOf(kids, from, i))}
        overlapping == hit(LAMBDA first, end : Overlaps(first, end, e))
        beside == hit(LAMBDA first, end : first <= e.offset /\ e.offset <= end)
    IN  IF overlapping # {} THEN Min(overlapping) .. Max(overlapping)
        ELSE IF beside # {} THEN {Min(beside)} ELSE {}

Brace(x) == LeafKind(x) \in {"{", "}"}

\* Mutant: only the children that the edit touches.
RegionAlone(kids, affected) == affected

\* The children to parse again: a sibling on either side as well, unless it is
\* a brace, or nothing would be left to reuse.
Region(kids, affected) ==
    LET beside == {i \in {Min(affected) - 1, Max(affected) + 1} :
                     i \in 1 .. Len(kids) /\ ~Brace(kids[i])}
    IN  IF Cardinality(affected \cup beside) < Len(kids) THEN affected \cup beside
        ELSE affected

-----------------------------------------------------------------------------
(* incremental_reparse                                                      *)

\* merge_errors.  Places inside the region are dropped.
Merged(old, region, first, end, delta) ==
    SelectSeq(old, LAMBDA at : at <= first)
      \o LET after == SelectSeq(old, LAMBDA at : at > first /\ at - 1 >= end)
         IN  [i \in 1 .. Len(after) |-> after[i] + delta]
      \o [i \in 1 .. Len(region) |-> region[i] + first]

\* `done` is cleared where the caller has to fall back.
FellBack == [done |-> FALSE]

\* What is parsed again: the kids `region` of the node, which are the tokens
\* first + 1 .. end of the old text.
Part(container, node, affected) ==
    LET region == Region(node.kids, affected)
        braces == node.kind = "BLOCK" /\ \E i \in affected : Brace(node.kids[i])
    IN  IF affected = {} \/ braces \/ Cardinality(region) = Len(node.kids) THEN FellBack
        ELSE [done |-> TRUE, path |-> container.path, node |-> node, region |-> region,
              first |-> EndOf(node.kids, container.from, Min(region) - 1),
              end |-> EndOf(node.kids, container.from, Max(region))]

\* The new kids take the place of the old ones, in text and tree.  Nobody
\* catches a panic of the parser here.
Spliced(e, part, text, parsed) ==
    LET delta == Len(e.insert) - e.delete
        old == part.node.kids
        kids == SubSeq(old, 1, Min(part.region) - 1) \o parsed.tree.kids
                  \o SubSeq(old, Max(part.region) + 1, Len(old))
        result == [done |-> TRUE,
                   tree |-> WithSubtree(tree, part.path, Tree(part.node.kind, kids)),
                   errors |-> Merged(errors, parsed.errors, part.first, part.end, delta)]
    IN  IF parsed.halted # "no"
          THEN [done |-> TRUE, tree |-> Tree(parsed.halted, <<>>), errors |-> <<>>]
        ELSE IF Width(parsed.tree) # Len(text)
             \/ Width(result.tree) # Len(source) + delta
          THEN FellBack
          ELSE result

Reparsed(e, part) ==
    LET delta == Len(e.insert) - e.delete
        text == SubSeq(Applied(source, e), part.first + 1, part.end + delta)
        rule == IF part.node.kind = "SOURCE_FILE" THEN "source_file" ELSE "block_body"
    IN  IF part.done THEN Spliced(e, part, text, ParseAs(rule, text)) ELSE FellBack

Incremental(e) ==
    LET container == Container(tree, 0, e)
        node == SubtreeAt(tree, container.path)
    IN  Reparsed(e, Part(container, node, Affected(node.kids, container.from, e)))

-----------------------------------------------------------------------------
(* The document.                                                            *)

Edit == [offset : 0 .. Len(source), delete : 0 .. MaxDeleted, insert : Inserted]

Init ==
    /\ source \in Document \cup Opening
    /\ full = Parse(source)
    /\ tree = full.tree /\ errors = full.errors
    /\ typed = 0

\* Bound: a document is edited once, anywhere, or typed onto a few times.
AtTheEnd(e) == e.offset = Len(source) /\ e.delete = 0

Change(e) ==
    /\ e.offset + e.delete <= Len(source) /\ Applied(source, e) # source
    /\ AtTheEnd(e) \/ source \in Document
    /\ typed' = IF AtTheEnd(e) THEN typed + 1 ELSE MaxTyped
    /\ source' = Applied(source, e)
    /\ full' = Parse(source')

ParseAnew == tree' = full'.tree /\ errors' = full'.errors

\* try_incremental_or_full: the edit is lost when another task came first.
TryIncremental(e) ==
    LET result == Incremental(e)
    IN  IF result.done THEN tree' = result.tree /\ errors' = result.errors
        ELSE ParseAnew

Next ==
    typed < MaxTyped /\ \E e \in Edit : Change(e) /\ (TryIncremental(e) \/ ParseAnew)

Spec == Init /\ [][Next]_vars

-----------------------------------------------------------------------------
(* Properties.                                                              *)

\* No ERROR node, and every block closed.
RECURSIVE Clean(_)
Clean(x) ==
    IsTree(x) =>
      /\ x.kind # "ERROR"
      /\ x.kind = "BLOCK" =>
           LeafKind(x.kids[1]) = "{" /\ LeafKind(x.kids[Len(x.kids)]) = "}"
      /\ \A i \in DOMAIN x.kids : Clean(x.kids[i])

\* The parser ends, without a panic, on every text.
Total == full.halted = "no"

\* Nothing of the text is lost: the leaves of a tree that was parsed, or
\* pieced together from parts, are the tokens of the text.
Lossless == Leaves(full.tree) = source /\ Leaves(tree) = source

\* What is wrong with a text is reported, and where: a text without reported
\* errors has no ERROR node, and all its blocks are closed; and the places that
\* errors are at, also those moved or dropped by merge_errors, are in the text
\* or at its end.
ErrorsReported ==
    /\ full.errors = <<>> => Clean(full.tree)
    /\ \A i \in DOMAIN errors : errors[i] \in 1 .. Len(source) + 1

\* Typing at the end of a correct text changes at most its last two items (an
\* `@else` takes the ";" and the `@if` before it).
ItemsStay ==
    [][LET old == full.tree.kids
       IN  full.errors = <<>> /\ IsPrefix(source, source') /\ Len(old) > 2 =>
             IsPrefix(SubSeq(old, 1, Len(old) - 2), full'.tree.kids)]_vars

Exact == tree = full.tree /\ Len(errors) = Len(full.errors)

\* Every bracket is closed by its like.
Balanced(text) ==
    LET closes == [k \in {")", "]", "}"} |->
                     CASE k = ")" -> {"("} [] k = "]" -> {"["} [] k = "}" -> {"{", "#{"}]
        step(open, t) ==
          IF t.kind \in {"(", "[", "{", "#{"} THEN <<t.kind>> \o open
          ELSE IF t.kind \notin DOMAIN closes THEN open
          ELSE IF open # <<>> /\ open[1] \in closes[t.kind] THEN Tail(open)
          ELSE <<"none">> \o open
    IN  FoldLeft(step, <<>>, text) = <<>>

\* Re-parsing a few siblings gives the tree, and as many errors, as parsing
\* the whole text, if both the old text and the new one are correct and the
\* brackets of the new one are balanced.
ExactWhenCorrect ==
    [][Exact /\ full.errors = <<>> /\ full'.errors = <<>> /\ Balanced(source') => Exact']_vars
=============================================================================
