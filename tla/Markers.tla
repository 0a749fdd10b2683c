------------------------------ MODULE Markers ------------------------------
(***************************************************************************)
(* A parser under any grammar, and the bridge that turns its events into a *)
(* tree (crates/sass-parser/src/parser.rs, event.rs, bridge.rs).           *)
(*                                                                         *)
(* The grammar is whatever sequence of calls the rules can make: a marker  *)
(* is completed or abandoned before the one it was started within, a       *)
(* marker from `start` only is abandoned, and what is preceded is complete *)
(* and not yet within anything that is.  Then the bridge takes the events  *)
(* one by one, and a chain of forward parents link by link.                *)
(*                                                                         *)
(* A leaf of the tree is a token with the trivia before it; the last       *)
(* trivia are a leaf of their own.  A child is named by the leaves it      *)
(* covers: those from `from`, exclusive, to `to`, inclusive.               *)
(***************************************************************************)
EXTENDS Events

CONSTANTS
    Token,        \* significant tokens
    Input,        \* those of the text
    Kinds,        \* kinds of nodes
    MaxEvents     \* bound: no marker or error behind so many events

ASSUME MarkersConstants ==
    /\ Input \in Seq(Token)
    /\ MaxEvents \in Nat

VARIABLES
    parser,
    nodes,            \* history: the markers started and not abandoned
    next,             \* the event the bridge is at; 0 while the parser runs
    parents,          \* DirectBuilder.parents
    children,         \* DirectBuilder.children
    token_idx,
    forward_parents,  \* the chain walked so far, innermost first
    fp,               \* its next link, 0 for None
    spent,            \* the events of chains, replaced by tombstones
    made,             \* history: the nodes finished
    panicked

vars == <<parser, nodes, next, parents, children, token_idx, forward_parents,
          fp, spent, made, panicked>>

events == parser.events

\* The leaf of the last trivia.
End == Len(Input) + 1

-----------------------------------------------------------------------------
(* The parser, driven by a grammar.                                         *)

\* A marker is the index of its Enter event.  What it precedes begins before
\* it; `exit` is 0 until it is completed, and kind and `to` come with that.
NewNode(at, begin, from) ==
    [at |-> at, begin |-> begin, exit |-> 0, kind |-> "ERROR",
     from |-> from, to |-> 0]

Consumed == parser.pos - 1

\* The first step of source_file.
Init ==
    /\ parser = Start(New(Input))
    /\ nodes = {NewNode(1, 1, 0)}
    /\ next = 0
    /\ parents = <<>> /\ children = <<>> /\ token_idx = 0
    /\ forward_parents = <<>> /\ fp = 0 /\ spent = {}
    /\ made = {} /\ panicked = FALSE

Live(n) == n.exit = 0

\* No marker that is still in use began behind n.
Innermost(n) == \A l \in nodes : Live(l) => l.begin <= n.begin

\* Nothing that is complete, or began behind n, holds it.
Outermost(n) ==
    \A m \in nodes : m # n => IF Live(m) THEN m.begin < n.begin
                              ELSE m.exit < n.exit \/ n.begin < m.begin

Room == Len(events) < MaxEvents

bridge == <<parents, children, token_idx, forward_parents, fp, spent, made,
            panicked>>

Parsing == next = 0 /\ UNCHANGED bridge

StartMarker ==
    /\ Parsing /\ UNCHANGED next /\ Room
    /\ parser' = Start(parser)
    /\ nodes' = nodes \cup {NewNode(Marker(parser), Marker(parser), Consumed)}

Completed(n, kind, to) ==
    [n EXCEPT !.exit = Marker(parser), !.kind = kind, !.to = to]

CompleteMarker(n, kind) ==
    /\ Parsing /\ UNCHANGED next
    /\ Live(n) /\ Innermost(n) /\ n.at # 1
    /\ parser' = Complete(parser, n.at, kind)
    /\ nodes' = (nodes \ {n}) \cup {Completed(n, kind, Consumed)}

AbandonMarker(n) ==
    /\ Parsing /\ UNCHANGED next
    /\ Live(n) /\ Innermost(n) /\ n.at # 1 /\ n.begin = n.at
    /\ parser' = Abandon(parser, n.at)
    /\ nodes' = nodes \ {n}

PrecedeNode(n) ==
    /\ Parsing /\ UNCHANGED next /\ Room
    /\ ~Live(n) /\ Outermost(n)
    /\ parser' = Precede(parser, n.at)
    /\ nodes' = nodes \cup {NewNode(Marker(parser), n.begin, n.from)}

BumpToken ==
    /\ Parsing /\ UNCHANGED next
    /\ ~AtEnd(parser)
    /\ parser' = Bump(parser)
    /\ UNCHANGED nodes

ReportError ==
    /\ Parsing /\ UNCHANGED next /\ Room
    /\ parser' = Error(parser)
    /\ UNCHANGED nodes

\* The last step of source_file, and the first of build_tree.
Finish(root, kind) ==
    /\ Parsing /\ next' = 1
    /\ root.at = 1 /\ Live(root) /\ Innermost(root) /\ AtEnd(parser)
    /\ parser' = Complete(parser, 1, kind)
    /\ nodes' = (nodes \ {root}) \cup {Completed(root, kind, End)}

Parse ==
    \/ StartMarker \/ BumpToken \/ ReportError
    \/ \E n \in nodes :
          \/ AbandonMarker(n) \/ PrecedeNode(n)
          \/ \E kind \in Kinds : CompleteMarker(n, kind) \/ Finish(n, kind)

-----------------------------------------------------------------------------
(* The bridge.                                                              *)

Here == events[next]

AtEvent == next \in 1 .. Len(events) /\ ~panicked

\* Neither a tombstone, nor replaced by one, nor within a chain.
AtEnter ==
    /\ AtEvent /\ forward_parents = <<>>
    /\ Here.event = "enter" /\ next \notin spent

\* A kind on its way into the builder, and the marker it comes from.
Link(i) == [kind |-> events[i].kind, marker |-> i]

\* Mutant: the chain opened innermost first.
OpenedInOrder(links) ==
    [i \in 1 .. Len(links) |->
        [kind |-> links[i].kind, marker |-> links[i].marker,
         first |-> Len(children)]]

\* start_node for each kind, the last of them first.
Opened(links) ==
    [i \in 1 .. Len(links) |->
        LET link == links[Len(links) + 1 - i]
        IN  [kind |-> link.kind, marker |-> link.marker,
             first |-> Len(children)]]

Enter ==
    /\ AtEnter /\ Here.forward = 0
    /\ parents' = parents \o Opened(<<Link(next)>>)
    /\ next' = next + 1
    /\ UNCHANGED <<parser, nodes, children, token_idx, forward_parents, fp,
                   spent, made, panicked>>

EnterChain ==
    /\ AtEnter /\ Here.forward # 0
    /\ forward_parents' = <<Link(next)>>
    /\ fp' = Here.forward
    /\ UNCHANGED <<parser, nodes, next, parents, children, token_idx, spent,
                   made, panicked>>

FollowChain ==
    /\ AtEvent /\ fp # 0
    /\ IF events[fp].event = "enter" /\ fp \notin spent
         THEN /\ forward_parents' = Append(forward_parents, Link(fp))
              /\ fp' = events[fp].forward
              /\ spent' = spent \cup {fp}
              /\ UNCHANGED panicked
         ELSE panicked' = TRUE /\ UNCHANGED <<forward_parents, fp, spent>>
    /\ UNCHANGED <<parser, nodes, next, parents, children, token_idx, made>>

OpenChain ==
    /\ AtEvent /\ fp = 0 /\ forward_parents # <<>>
    /\ parents' = parents \o Opened(forward_parents)
    /\ forward_parents' = <<>>
    /\ next' = next + 1
    /\ UNCHANGED <<parser, nodes, children, token_idx, fp, spent, made,
                   panicked>>

\* The trivia from where their walk stands, and the token.
AddToken ==
    /\ AtEvent /\ Here.event = "token"
    /\ children' = Append(children, [from |-> token_idx, to |-> Here.at])
    /\ token_idx' = token_idx + 1
    /\ next' = next + 1
    /\ UNCHANGED <<parser, nodes, parents, forward_parents, fp, spent, made,
                   panicked>>

\* What children cover.
Extent(kids) ==
    IF kids = <<>> THEN [from |-> token_idx, to |-> token_idx]
    ELSE [from |-> kids[1].from, to |-> kids[Len(kids)].to]

\* The root takes in the last trivia before it is closed.
AllChildren ==
    IF Len(parents) = 1 THEN Append(children, [from |-> token_idx, to |-> End])
    ELSE children

Exit ==
    /\ AtEvent /\ Here.event = "exit"
    /\ IF parents = <<>>
         THEN panicked' = TRUE /\ UNCHANGED <<parents, children, made>>
       ELSE LET top == parents[Len(parents)]
                under == SubSeq(parents, 1, Len(parents) - 1)
                node == Extent(SubSeq(AllChildren, top.first + 1,
                                      Len(AllChildren)))
            IN  /\ parents' = under
                /\ children' = Append(SubSeq(AllChildren, 1, top.first), node)
                /\ made' = made \cup
                     {[marker |-> top.marker, kind |-> top.kind,
                       from |-> node.from, to |-> node.to,
                       within |-> {under[i].marker : i \in DOMAIN under}]}
                /\ UNCHANGED panicked
    /\ next' = next + 1
    /\ UNCHANGED <<parser, nodes, token_idx, forward_parents, fp, spent>>

Pass ==
    /\ AtEvent
    /\ Here.event \in {"error", "tombstone"} \/ next \in spent
    /\ next' = next + 1
    /\ UNCHANGED <<parser, nodes, bridge>>

Build ==
    \/ Enter \/ EnterChain \/ FollowChain \/ OpenChain
    \/ AddToken \/ Exit \/ Pass

Next == Parse \/ Build

Spec == Init /\ [][Next]_vars

-----------------------------------------------------------------------------
(* Properties.                                                              *)

Built == next = Len(events) + 1

\* m was begun before n, or precedes it, and completed after it.
Encloses(m, n) == m.begin <= n.begin /\ n.exit < m.exit

\* The node that a marker stands for.
Marked(n) ==
    [marker |-> n.at, kind |-> n.kind, from |-> n.from, to |-> n.to,
     within |-> {m.at : m \in {m \in nodes : Encloses(m, n)}}]

\* None of the assertions and unreachable arms of parser.rs and bridge.rs is
\* reached.
NeverPanics == parser.halted = "no" /\ ~panicked

\* The nodes finished so far are those completed so far: each with its kind,
\* the tokens consumed between its start and its completion, and the nodes
\* around it.
NodesAsMarked ==
    made = {Marked(n) : n \in {n \in nodes : n.exit \in 1 .. next - 1}}

\* The walk over the trivia keeps in step with the tokens.
InStep == AtEvent /\ Here.event = "token" => Here.at = token_idx + 1

\* No leaf is lost, or is in two places, between one child and the next.
Seamless ==
    \A i \in 1 .. Len(children) - 1 : children[i].to = children[i + 1].from

\* In the end there is one node, over all leaves.
OneRoot == Built => children = <<[from |-> 0, to |-> End]>>

\* Whatever the grammar, the tree is as marked: the bridge does not panic, and
\* builds exactly the nodes whose markers were completed, each within those
\* that enclose it and over its own tokens, with every token and all trivia in
\* one place in order.
TreeAsMarked == NeverPanics /\ NodesAsMarked /\ InStep /\ Seamless /\ OneRoot
=============================================================================
