--------------------------- MODULE MarkersProofs ---------------------------
(***************************************************************************)
(* Proofs about the markers of any grammar and the bridge.                 *)
(***************************************************************************)
EXTENDS Markers, SequenceTheorems, TLAPS

-----------------------------------------------------------------------------
(* The inductive invariant.                                                 *)

Kind == Kinds \cup {"ERROR"}

EnterEvent == [event : {"enter"}, kind : Kind, forward : Nat]

Event == EnterEvent \cup [event : {"token", "error"}, at : Nat]
                    \cup [event : {"exit", "tombstone"}]

ParserState ==
    [input : {Input}, pos : 1 .. Len(Input) + 1, events : Seq(Event),
     depth : Nat, result : Nat, halted : {"no"}]

Mark == [at : Nat, begin : Nat, exit : Nat, kind : Kind, from : Nat, to : Nat]

LinkType == [kind : Kind, marker : Nat]

Parent == [kind : Kind, marker : Nat, first : Nat]

Child == [from : Nat, to : Nat]

TypeOK ==
    /\ parser \in ParserState
    /\ nodes \subseteq Mark
    /\ next \in Nat
    /\ parents \in Seq(Parent)
    /\ children \in Seq(Child)
    /\ token_idx \in Nat
    /\ forward_parents \in Seq(LinkType)
    /\ fp \in Nat
    /\ spent \subseteq Nat
    /\ panicked = FALSE

\* A marker is that of an Enter event of its kind, at or behind the one its
\* node begins at, and of an Exit event behind that if it is complete.
Placed ==
    \A n \in nodes :
        /\ n.at \in 1 .. Len(events) /\ n.begin \in 1 .. n.at
        /\ n.exit = 0 \/ n.exit \in n.at + 1 .. Len(events)
        /\ events[n.at].event = "enter" /\ events[n.at].kind = n.kind
        /\ n.exit # 0 => events[n.exit].event = "exit"

\* An event is of one marker.
Single ==
    \A m, n \in nodes :
        /\ m.at = n.at => m = n
        /\ m.exit = n.exit /\ m.exit # 0 => m = n

\* Every Enter and every Exit event is of a marker.
Covered ==
    \A i \in 1 .. Len(events) :
        /\ events[i].event = "enter" => \E n \in nodes : n.at = i
        /\ events[i].event = "exit" => \E n \in nodes : n.exit = i

\* Where a node begins there is a marker that precedes nothing.
Headed ==
    \A n \in nodes : \E h \in nodes : h.at = n.begin /\ h.begin = n.begin

\* Nodes are apart, or one is within the other; of those that begin together,
\* the one started later holds the others.
Laminar ==
    \A m, n \in nodes :
       /\ m.begin < n.begin => \/ m.exit = 0
                               \/ m.exit < n.begin
                               \/ n.exit # 0 /\ n.exit < m.exit
       /\ m.begin = n.begin /\ m.at < n.at => m.exit # 0 /\ m.exit < n.at

\* f is the marker after a of those that begin at b, 0 if there is none.
FollowedBy(a, b, f) ==
    /\ f = 0 => \A m \in nodes : m.begin = b => m.at <= a
    /\ f # 0 => /\ a < f
                /\ \E m \in nodes : m.at = f /\ m.begin = b
                /\ \A m \in nodes : m.begin = b => m.at <= a \/ m.at >= f

\* The forward parent of a marker is the next of those that begin with it.
Chained == \A n \in nodes : FollowedBy(n.at, n.begin, events[n.at].forward)

\* The root is the first marker, and the last to be complete.
Rooted ==
    /\ \E r \in nodes : r.at = 1
    /\ \A n \in nodes :
         IF n.at = 1 THEN /\ next = 0 <=> n.exit = 0
                          /\ next # 0 => n.exit = Len(events) /\ n.to = End
                                          /\ parser.pos = Len(Input) + 1
                          /\ n.from = 0
         ELSE n.begin > 1 /\ (next # 0 => n.exit # 0)

IsToken(i) == events[i].event = "token"

\* The events name the tokens consumed, each once and in order.
TokensInOrder ==
    /\ \A i \in 1 .. Len(events) : IsToken(i) => events[i].at \in 1 .. Consumed
    /\ \A i, j \in 1 .. Len(events) :
          IsToken(i) /\ IsToken(j) /\ i < j => events[i].at < events[j].at
    /\ \A c \in 1 .. Consumed :
          \E i \in 1 .. Len(events) : IsToken(i) /\ events[i].at = c

\* The first c tokens are those of the events before i.
Cut(i, c) ==
    /\ c \in 0 .. Consumed
    /\ \A j \in 1 .. Len(events) : IsToken(j) => (j < i <=> events[j].at <= c)

Spanning ==
    \A n \in nodes : /\ Cut(n.begin, n.from)
                     /\ n.exit # 0 /\ n.at # 1 => Cut(n.exit, n.to)

MarksOK ==
    /\ Placed /\ Single /\ Covered /\ Headed /\ Laminar /\ Chained /\ Rooted
    /\ TokensInOrder /\ Spanning

-----------------------------------------------------------------------------
(* What each call of the grammar does.                                      *)

\* An Enter event, whatever else it is.
LEMMA EnterFields ==
    ASSUME NEW e \in Event, e.event = "enter"
    PROVE  e \in EnterEvent /\ e.kind \in Kind /\ e.forward \in Nat
BY DEF Event, EnterEvent

\* The events, and the fields of the history.
LEMMA Fields ==
    ASSUME TypeOK
    PROVE  /\ events \in Seq(Event)
           /\ parser.pos \in 1 .. Len(Input) + 1 /\ parser.input = Input
           /\ Len(Input) \in Nat /\ Len(events) \in Nat
           /\ \A n \in nodes : /\ n.at \in Nat /\ n.begin \in Nat /\ n.exit \in Nat
                               /\ n.from \in Nat /\ n.to \in Nat /\ n.kind \in Kind
BY MarkersConstants DEF TypeOK, ParserState, Mark, events

\* The parser's state after one of its calls, in terms of the one before it.
Grown(q, e) ==
    /\ q \in ParserState
    /\ Len(q.events) = Len(events) + 1
    /\ q.events[Len(events) + 1] = e

\* One event more, behind those there were.
LEMMA Emitted ==
    ASSUME TypeOK, NEW e \in Event, NEW q \in ParserState,
           q.events = Append(events, e)
    PROVE  /\ Grown(q, e)
           /\ \A i \in 1 .. Len(events) : q.events[i] = events[i]
BY Fields DEF Grown

\* To append an event, and to move on, leaves a state of the parser.
LEMMA AppendEvent ==
    ASSUME TypeOK, NEW e \in Event, NEW x \in 1 .. Len(Input) + 1
    PROVE  LET q == [parser EXCEPT !.events = Append(@, e)]
               r == [parser EXCEPT !.events = Append(@, e), !.pos = x]
           IN  /\ q.events = Append(events, e) /\ q.pos = parser.pos
               /\ q \in ParserState
               /\ r.events = Append(events, e) /\ r.pos = x
               /\ r \in ParserState
<1> DEFINE s == Append(events, e)
<1>1. s \in Seq(Event)
  BY Fields
<1>2. [parser EXCEPT !.events = Append(@, e)] = [parser EXCEPT !.events = s]
  BY DEF events
<1>3. [parser EXCEPT !.events = Append(@, e), !.pos = x]
        = [parser EXCEPT !.events = s, !.pos = x]
  BY DEF events
<1> HIDE DEF s
<1>4. QED
  BY <1>1, <1>2, <1>3 DEF TypeOK, ParserState, s

\* start: an Enter event at the end.
LEMMA StartEffect ==
    ASSUME TypeOK
    PROVE  LET q == Start(parser)
               e == [event |-> "enter", kind |-> "ERROR", forward |-> 0]
           IN  /\ Grown(q, e) /\ e \in Event
               /\ q.pos = parser.pos
               /\ \A i \in 1 .. Len(events) : q.events[i] = events[i]
<1> DEFINE q == Start(parser)
           e == [event |-> "enter", kind |-> "ERROR", forward |-> 0]
<1>1. e \in Event
  BY DEF Event, EnterEvent, Kind
<1>2. q = [parser EXCEPT !.events = Append(@, e)]
  BY DEF Start, Emit
<1> HIDE DEF q, e
<1>3. q.events = Append(events, e) /\ q.pos = parser.pos /\ q \in ParserState
  BY <1>1, <1>2, Fields, AppendEvent
<1>4. QED
  BY <1>1, <1>3, Emitted DEF q, e

\* error: an error event at the end.
LEMMA ErrorEffect ==
    ASSUME TypeOK
    PROVE  LET q == Error(parser)
               e == [event |-> "error", at |-> parser.pos]
           IN  /\ Grown(q, e)
               /\ q.pos = parser.pos
               /\ \A i \in 1 .. Len(events) : q.events[i] = events[i]
<1> DEFINE q == Error(parser)
           e == [event |-> "error", at |-> parser.pos]
<1>1. e \in Event
  BY Fields DEF Event
<1>2. q = [parser EXCEPT !.events = Append(@, e)]
  BY DEF Error, Emit
<1> HIDE DEF q, e
<1>3. q.events = Append(events, e) /\ q.pos = parser.pos /\ q \in ParserState
  BY <1>1, <1>2, Fields, AppendEvent
<1>4. QED
  BY <1>1, <1>3, Emitted DEF q, e

\* bump: the token's event at the end, and the next token.
LEMMA BumpEffect ==
    ASSUME TypeOK, ~AtEnd(parser)
    PROVE  LET q == Bump(parser)
               e == [event |-> "token", at |-> parser.pos]
           IN  /\ Grown(q, e)
               /\ q.pos = parser.pos + 1
               /\ \A i \in 1 .. Len(events) : q.events[i] = events[i]
<1> DEFINE q == Bump(parser)
           e == [event |-> "token", at |-> parser.pos]
<1>1. e \in Event
  BY Fields DEF Event
<1>2. parser.pos + 1 \in 1 .. Len(Input) + 1
  BY Fields DEF AtEnd
<1>3. q = [parser EXCEPT !.events = Append(@, e), !.pos = @ + 1]
  BY DEF Bump, Emit, TypeOK, ParserState
<1> HIDE DEF q, e
<1>4. q.events = Append(events, e) /\ q.pos = parser.pos + 1 /\ q \in ParserState
  BY <1>1, <1>2, <1>3, AppendEvent
<1>5. QED
  BY <1>1, <1>4, Emitted DEF q, e

\* One event replaced by another.
LEMMA ReplaceEvent ==
    ASSUME TypeOK, NEW i \in 1 .. Len(events), NEW e \in Event
    PROVE  LET s == [events EXCEPT ![i] = e]
           IN  /\ s \in Seq(Event) /\ Len(s) = Len(events) /\ s[i] = e
               /\ \A j \in 1 .. Len(events) : j # i => s[j] = events[j]
BY Fields, ExceptSeq

\* A state of the parser with other events is one.
LEMMA WithEvents ==
    ASSUME TypeOK, NEW s \in Seq(Event), NEW r \in Nat
    PROVE  LET q == [parser EXCEPT !.events = s]
               c == [parser EXCEPT !.events = s, !.result = r]
           IN  /\ q \in ParserState /\ q.events = s /\ q.pos = parser.pos
               /\ c \in ParserState /\ c.events = s /\ c.pos = parser.pos
BY DEF TypeOK, ParserState

\* complete: the marker's kind, and an Exit event at the end.
LEMMA CompleteEffect ==
    ASSUME TypeOK, NEW m \in 1 .. Len(events), events[m].event = "enter",
           NEW kind \in Kind
    PROVE  LET q == Complete(parser, m, kind)
           IN  /\ Grown(q, [event |-> "exit"])
               /\ q.pos = parser.pos
               /\ q.events[m] = [event |-> "enter", kind |-> kind,
                                 forward |-> events[m].forward]
               /\ \A i \in 1 .. Len(events) : i # m => q.events[i] = events[i]
<1> DEFINE q == Complete(parser, m, kind)
           k == [events[m] EXCEPT !.kind = kind]
           x == [event |-> "exit"]
           s == [events EXCEPT ![m] = k]
           t == Append(s, x)
<1>1. events[m] \in EnterEvent
  BY Fields, EnterFields
<1>2. k = [event |-> "enter", kind |-> kind, forward |-> events[m].forward]
      /\ k \in Event /\ x \in Event
  BY <1>1 DEF Event, EnterEvent
<1>3. q = [parser EXCEPT !.events = t, !.result = m]
  <2>1. Complete(parser, m, kind) =
          [[parser EXCEPT !.events = Append([events EXCEPT ![m] = k], x)]
             EXCEPT !.result = m]
    BY DEF Complete, Emit, TypeOK, ParserState, events
  <2>2. QED
    BY <2>1
<1> HIDE DEF k, x
<1>4. /\ s \in Seq(Event) /\ Len(s) = Len(events) /\ s[m] = k
      /\ \A j \in 1 .. Len(events) : j # m => s[j] = events[j]
  BY <1>2, ReplaceEvent
<1> HIDE DEF s
<1>5. /\ t \in Seq(Event) /\ Len(t) = Len(events) + 1
      /\ t[Len(events) + 1] = x /\ t[m] = k
      /\ \A j \in 1 .. Len(events) : j # m => t[j] = events[j]
  BY <1>2, <1>4, Fields, AppendProperties
<1> HIDE DEF t, q
<1>6. q \in ParserState /\ q.events = t /\ q.pos = parser.pos
  <2>1. m \in Nat
    BY Fields
  <2>2. QED
    BY <1>3, <1>5, <2>1, WithEvents
<1>7. QED
  BY <1>2, <1>5, <1>6 DEF Grown, x, q

\* precede: an Enter event at the end, and the link to it from the marker.
LEMMA PrecedeEffect ==
    ASSUME TypeOK, NEW m \in 1 .. Len(events), events[m].event = "enter"
    PROVE  LET q == Precede(parser, m)
           IN  /\ Grown(q, [event |-> "enter", kind |-> "ERROR", forward |-> 0])
               /\ q.pos = parser.pos
               /\ q.events[m] = [event |-> "enter", kind |-> events[m].kind,
                                 forward |-> Len(events) + 1]
               /\ \A i \in 1 .. Len(events) : i # m => q.events[i] = events[i]
<1> DEFINE p == Start(parser)
           q == Precede(parser, m)
           e == [event |-> "enter", kind |-> "ERROR", forward |-> 0]
           k == [p.events[m] EXCEPT !.forward = Len(events) + 1]
           t == [p.events EXCEPT ![m] = k]
<1>1. /\ Grown(p, e) /\ p.pos = parser.pos
      /\ \A i \in 1 .. Len(events) : p.events[i] = events[i]
  BY StartEffect
<1> HIDE DEF p
<1>2. p.events[m].event = "enter" /\ p.events[m] = events[m]
  BY <1>1
<1>3. events[m] \in EnterEvent
  BY Fields, EnterFields
<1>4. k = [event |-> "enter", kind |-> events[m].kind, forward |-> Len(events) + 1]
      /\ k \in Event
  BY <1>2, <1>3, Fields DEF Event, EnterEvent
<1>5. q = [p EXCEPT !.events = t]
  BY <1>1, <1>2 DEF Precede, Marker, p, Grown, ParserState, events
<1> HIDE DEF k
<1>6. p \in ParserState /\ p.events \in Seq(Event) /\ Len(p.events) = Len(events) + 1
      /\ p.events[Len(events) + 1] = e
  BY <1>1 DEF Grown, ParserState
<1>7. /\ t \in Seq(Event) /\ Len(t) = Len(events) + 1
      /\ t[m] = k /\ t[Len(events) + 1] = e
      /\ \A j \in 1 .. Len(events) : j # m => t[j] = events[j]
  BY <1>1, <1>4, <1>6, Fields, ExceptSeq
<1> HIDE DEF t, q
<1>8. q \in ParserState /\ q.events = t /\ q.pos = p.pos
  BY <1>5, <1>6, <1>7 DEF ParserState
<1>9. QED
  BY <1>1, <1>4, <1>7, <1>8 DEF Grown, q

\* abandon: the last event is taken back, any other becomes a tombstone.
LEMMA AbandonEffect ==
    ASSUME TypeOK, NEW m \in 1 .. Len(events), events[m].event = "enter"
    PROVE  LET q == Abandon(parser, m)
           IN  /\ q \in ParserState /\ q.pos = parser.pos
               /\ \/ /\ Len(q.events) = Len(events) /\ m < Len(events)
                     /\ q.events[m] = [event |-> "tombstone"]
                     /\ \A i \in 1 .. Len(events) : i # m => q.events[i] = events[i]
                  \/ /\ Len(q.events) = Len(events) - 1 /\ m = Len(events)
                     /\ \A i \in 1 .. Len(events) - 1 : q.events[i] = events[i]
<1> DEFINE q == Abandon(parser, m)
           e == [event |-> "tombstone"]
           s == [events EXCEPT ![m] = e]
           r == SubSeq(events, 1, m - 1)
<1>1. e \in Event
  BY DEF Event
<1>2. CASE m = Len(events)
  <2>1. q = [parser EXCEPT !.events = r]
    BY <1>2 DEF Abandon, events
  <2>2. /\ r \in Seq(Event) /\ Len(r) = Len(events) - 1
        /\ \A i \in 1 .. Len(events) - 1 : r[i] = events[i]
    BY <1>2, Fields, SubSeqProperties
  <2> HIDE DEF q, r
  <2>3. q \in ParserState /\ q.events = r /\ q.pos = parser.pos
    BY <2>1, <2>2, WithEvents
  <2>4. QED
    BY <1>2, <2>2, <2>3 DEF q
<1>3. CASE m # Len(events)
  <2>1. q = [parser EXCEPT !.events = s]
    BY <1>3 DEF Abandon, events
  <2>2. /\ s \in Seq(Event) /\ Len(s) = Len(events) /\ s[m] = e
        /\ \A j \in 1 .. Len(events) : j # m => s[j] = events[j]
    BY <1>1, ReplaceEvent
  <2> HIDE DEF q, s
  <2>3. q \in ParserState /\ q.events = s /\ q.pos = parser.pos
    BY <2>1, <2>2, WithEvents
  <2>4. QED
    BY <1>3, <2>2, <2>3, Fields DEF q
<1>4. QED
  BY <1>2, <1>3

-----------------------------------------------------------------------------
(* The calls of the grammar keep the marks in order.                        *)

\* A step that leaves the token events as they are.
SameTokens ==
    /\ Consumed' = Consumed
    /\ \A i \in 1 .. Len(events) : IsToken(i) =>
          i <= Len(events') /\ IsToken(i)' /\ events'[i].at = events[i].at
    /\ \A i \in 1 .. Len(events') : IsToken(i)' => i <= Len(events) /\ IsToken(i)

\* Such a step keeps the tokens in order, and every place between them.
LEMMA TokensKept ==
    ASSUME TypeOK, TokensInOrder, SameTokens, Len(events') \in Nat
    PROVE  /\ TokensInOrder'
           /\ \A i \in Nat, c \in Nat : Cut(i, c) => Cut(i, c)'
<1>1. Len(events) \in Nat /\ Consumed \in Nat
  BY Fields DEF Consumed
<1>2. \A i \in 1 .. Len(events) : i <= Len(events') => i \in 1 .. Len(events')
  BY <1>1
<1>3. \A i \in 1 .. Len(events') : IsToken(i)' =>
         i \in 1 .. Len(events) /\ IsToken(i) /\ events'[i].at = events[i].at
  BY <1>1 DEF SameTokens
<1>4. \A i \in 1 .. Len(events) : IsToken(i) =>
         i \in 1 .. Len(events') /\ IsToken(i)' /\ events'[i].at = events[i].at
  BY <1>1, <1>2 DEF SameTokens
<1>5. \A i \in 1 .. Len(events') : IsToken(i)' => events'[i].at \in 1 .. Consumed'
  BY <1>3 DEF SameTokens, TokensInOrder
<1>6. ASSUME NEW i \in 1 .. Len(events'), NEW j \in 1 .. Len(events'),
             IsToken(i)', IsToken(j)', i < j
      PROVE  events'[i].at < events'[j].at
  BY <1>3, <1>6 DEF TokensInOrder
<1>7. ASSUME NEW c \in 1 .. Consumed'
      PROVE  \E i \in 1 .. Len(events') : IsToken(i)' /\ events'[i].at = c
  <2>1. PICK i \in 1 .. Len(events) : IsToken(i) /\ events[i].at = c
    BY DEF SameTokens, TokensInOrder
  <2>2. QED
    BY <1>4, <2>1
<1>8. TokensInOrder'
  BY <1>5, <1>6, <1>7 DEF TokensInOrder
<1>9. ASSUME NEW i \in Nat, NEW c \in Nat, Cut(i, c) PROVE Cut(i, c)'
  <2>1. c \in 0 .. Consumed'
    BY <1>9 DEF Cut, SameTokens
  <2>2. ASSUME NEW j \in 1 .. Len(events'), IsToken(j)'
        PROVE  j < i <=> events'[j].at <= c
    BY <1>3, <1>9, <2>2 DEF Cut
  <2>3. QED
    BY <2>1, <2>2 DEF Cut
<1>10. QED
  BY <1>8, <1>9

\* Behind all events, all tokens consumed are before.
LEMMA CutAtEnd ==
    ASSUME TypeOK, TokensInOrder
    PROVE  Cut(Len(events) + 1, Consumed)
BY Fields DEF Cut, TokensInOrder, Consumed

\* What follows a marker depends on where markers are and begin, and no more.
LEMMA SameFollower ==
    ASSUME TypeOK, nodes' \subseteq Mark,
           \A m \in nodes : \E o \in nodes' : o.at = m.at /\ o.begin = m.begin,
           \A m \in nodes' : \E o \in nodes : o.at = m.at /\ o.begin = m.begin,
           NEW a, NEW b, NEW f, FollowedBy(a, b, f)
    PROVE  FollowedBy(a, b, f)'
BY DEF FollowedBy

\* A new marker is apart from all that is complete, within all that is live.
LEMMA StartKeeps ==
    ASSUME TypeOK, MarksOK, StartMarker
    PROVE  parser' \in ParserState /\ nodes' \subseteq Mark /\ MarksOK'
<1> DEFINE L == Len(events)
           n2 == NewNode(L + 1, L + 1, Consumed)
<1> USE DEF MarksOK
<1>1. /\ parser' \in ParserState /\ parser'.pos = parser.pos /\ Consumed' = Consumed
      /\ Len(events') = L + 1 /\ next' = next /\ next = 0
      /\ \A i \in 1 .. L : events'[i] = events[i]
      /\ events'[L + 1] = [event |-> "enter", kind |-> "ERROR", forward |-> 0]
  BY StartEffect DEF StartMarker, Parsing, Grown, Consumed, events
<1>2. /\ events'[L + 1].event = "enter" /\ events'[L + 1].kind = "ERROR"
      /\ events'[L + 1].forward = 0
  BY <1>1
<1>3. /\ nodes' = nodes \cup {n2}
      /\ n2.at = L + 1 /\ n2.begin = L + 1 /\ n2.exit = 0 /\ n2.kind = "ERROR"
      /\ n2.from = Consumed /\ n2.to = 0 /\ n2 \in Mark
  BY Fields DEF StartMarker, NewNode, Marker, events, Consumed, Mark, Kind
<1>4. L \in Nat /\ Consumed \in Nat
  BY Fields DEF Consumed
<1> HIDE DEF n2
<1>5. Placed'
  BY <1>1, <1>2, <1>3, <1>4, Fields DEF Placed
<1>6. Single'
  BY <1>1, <1>2, <1>3, <1>4, Fields DEF Single, Placed
<1>7. Covered'
  BY <1>1, <1>2, <1>3, <1>4, Fields DEF Covered
<1>8. Headed'
  BY <1>1, <1>2, <1>3, <1>4, Fields DEF Headed
<1>9. Laminar'
  BY <1>1, <1>2, <1>3, <1>4, Fields DEF Laminar, Placed
<1>10. Chained'
  BY <1>1, <1>2, <1>3, <1>4, Fields DEF Chained, FollowedBy, Placed
<1>11. Rooted'
  BY <1>1, <1>2, <1>3, <1>4, Fields DEF Rooted, Placed
<1>12. SameTokens
  BY <1>1, <1>2, <1>4 DEF SameTokens, IsToken
<1>13. /\ TokensInOrder'
       /\ \A i \in Nat, c \in Nat : Cut(i, c) => Cut(i, c)'
  BY <1>1, <1>4, <1>12, TokensKept
<1>14. Spanning'
  <2>1. ASSUME NEW n \in nodes'
        PROVE  Cut(n.begin, n.from)' /\ (n.exit # 0 /\ n.at # 1 => Cut(n.exit, n.to)')
    <3>1. CASE n \in nodes
      BY <1>13, <3>1, Fields DEF Spanning
    <3>2. CASE n = n2
      <4>1. Cut(n.begin, n.from) /\ n.begin \in Nat /\ n.from \in Nat /\ n.exit = 0
        BY <1>3, <1>4, <3>2, CutAtEnd
      <4>2. QED
        BY <1>13, <4>1
    <3>3. QED
      BY <1>3, <3>1, <3>2
  <2>2. QED
    BY <2>1 DEF Spanning
<1>15. QED
  BY <1>1, <1>3, <1>5, <1>6, <1>7, <1>8, <1>9, <1>10, <1>11, <1>13, <1>14
     DEF TypeOK

\* The new marker begins where the marker it precedes does, and is the last to.
LEMMA PrecedeKeeps ==
    ASSUME TypeOK, MarksOK, NEW n \in nodes, PrecedeNode(n)
    PROVE  parser' \in ParserState /\ nodes' \subseteq Mark /\ MarksOK'
<1> DEFINE L == Len(events)
           n2 == NewNode(L + 1, n.begin, n.from)
<1> USE DEF MarksOK
<1>1. n.at \in 1 .. L /\ events[n.at].event = "enter" /\ n.exit # 0
  BY DEF PrecedeNode, Live, Placed
<1>2. /\ parser' \in ParserState /\ parser'.pos = parser.pos /\ Consumed' = Consumed
      /\ Len(events') = L + 1 /\ next' = next /\ next = 0
      /\ \A i \in 1 .. L : i # n.at => events'[i] = events[i]
      /\ events'[L + 1] = [event |-> "enter", kind |-> "ERROR", forward |-> 0]
      /\ events'[n.at] = [event |-> "enter", kind |-> events[n.at].kind,
                          forward |-> L + 1]
  BY <1>1, PrecedeEffect DEF PrecedeNode, Parsing, Grown, Consumed, events
<1>3. /\ events'[L + 1].event = "enter" /\ events'[L + 1].kind = "ERROR"
      /\ events'[L + 1].forward = 0
      /\ events'[n.at].event = "enter" /\ events'[n.at].kind = events[n.at].kind
      /\ events'[n.at].forward = L + 1
      /\ \A i \in 1 .. L : events'[i].event = events[i].event
      /\ \A i \in 1 .. L : events[i].event = "enter" =>
            events'[i].kind = events[i].kind
  BY <1>1, <1>2
<1>4. /\ nodes' = nodes \cup {n2}
      /\ n2.at = L + 1 /\ n2.begin = n.begin /\ n2.exit = 0 /\ n2.kind = "ERROR"
      /\ n2.from = n.from /\ n2.to = 0 /\ n2 \in Mark
  BY Fields DEF PrecedeNode, NewNode, Marker, events, Mark, Kind
<1>5. L \in Nat /\ Consumed \in Nat
  BY Fields DEF Consumed
<1>6. \A m \in nodes : m # n => IF m.exit = 0 THEN m.begin < n.begin
                                ELSE m.exit < n.exit \/ n.begin < m.begin
  BY DEF PrecedeNode, Outermost, Live
<1>7. \A m \in nodes : m.begin = n.begin => m.at <= n.at /\ m.exit # 0
  BY <1>1, <1>6, Fields DEF Laminar, Placed
<1> HIDE DEF n2
<1>8. Placed'
  <2>1. ASSUME NEW m \in nodes
        PROVE  /\ m.at \in 1 .. Len(events') /\ m.begin \in 1 .. m.at
               /\ m.exit = 0 \/ m.exit \in m.at + 1 .. Len(events')
               /\ events'[m.at].event = "enter" /\ events'[m.at].kind = m.kind
               /\ m.exit # 0 => events'[m.exit].event = "exit"
    BY <1>2, <1>3, <1>5, Fields DEF Placed
  <2>2. n2.at \in 1 .. Len(events') /\ n2.begin \in 1 .. n2.at
    BY <1>1, <1>2, <1>4, <1>5, Fields DEF Placed
  <2>3. QED
    BY <1>3, <1>4, <2>1, <2>2 DEF Placed
<1>9. Single'
  BY <1>2, <1>3, <1>4, <1>5, Fields DEF Single, Placed
<1>10. Covered'
  <2>1. ASSUME NEW i \in 1 .. L
        PROVE  /\ events'[i].event = "enter" => \E m \in nodes : m.at = i
               /\ events'[i].event = "exit" => \E m \in nodes : m.exit = i
    BY <1>3 DEF Covered
  <2>2. QED
    BY <1>2, <1>3, <1>4, <1>5, <2>1 DEF Covered
<1>11. Headed'
  BY <1>2, <1>3, <1>4, <1>5, Fields DEF Headed
<1>12. Laminar'
  <2>1. ASSUME NEW m \in nodes, m.begin < n.begin
        PROVE  m.exit = 0 \/ m.exit < n.begin
    BY <1>1, <1>6, <2>1, Fields DEF Laminar
  <2>2. \A m \in nodes : m.at < L + 1 /\ m.exit < L + 1
    BY <1>5, Fields DEF Placed
  <2>3. QED
    BY <1>4, <1>7, <2>1, <2>2, Fields DEF Laminar
<1>13. Chained'
  <2>1. ASSUME NEW m \in nodes, m # n
        PROVE  /\ events'[m.at].forward = events[m.at].forward
               /\ m.begin = n.begin => events[m.at].forward # 0
    BY <1>1, <1>2, <1>7, <2>1, Fields DEF Chained, FollowedBy, Single, Placed
  <2>2. \A m \in nodes : m.at < L + 1
    BY <1>5, Fields DEF Placed
  <2>3. ASSUME NEW m \in nodes, m # n
        PROVE  FollowedBy(m.at, m.begin, events[m.at].forward)'
    <3> DEFINE g == events[m.at].forward
    <3>1. FollowedBy(m.at, m.begin, g) /\ (m.begin = n.begin => g # 0)
          /\ events'[m.at].forward = g
      BY <2>1, <2>3 DEF Chained
    <3> HIDE DEF g
    <3>2. g # 0 => g < L + 1
      BY <2>2, <3>1 DEF FollowedBy
    <3>3. \A o \in nodes' : o \in nodes \/ (o.at = L + 1 /\ o.begin = n.begin)
      BY <1>4
    <3>4. /\ g = 0 => \A o \in nodes' : o.begin = m.begin => o.at <= m.at
          /\ g # 0 => /\ m.at < g
                      /\ \E o \in nodes' : o.at = g /\ o.begin = m.begin
                      /\ \A o \in nodes' : o.begin = m.begin =>
                            o.at <= m.at \/ o.at >= g
      <4>1. CASE g = 0
        BY <3>1, <3>3, <4>1 DEF FollowedBy
      <4>2. CASE g # 0
        <5>1. \E o \in nodes' : o.at = g /\ o.begin = m.begin
          BY <1>4, <3>1, <4>2 DEF FollowedBy
        <5>2. ASSUME NEW o \in nodes', o.begin = m.begin
              PROVE  o.at <= m.at \/ o.at >= g
          <6>1. CASE o \in nodes
            BY <3>1, <4>2, <5>2, <6>1 DEF FollowedBy
          <6>2. CASE o.at = L + 1
            <7>1. g \in Nat
              BY <3>1, <4>2, Fields DEF FollowedBy
            <7>2. QED
              BY <1>5, <3>2, <4>2, <6>2, <7>1
          <6>3. QED
            BY <3>3, <6>1, <6>2
        <5>3. QED
          BY <3>1, <4>2, <5>1, <5>2 DEF FollowedBy
      <4>3. QED
        BY <4>1, <4>2
    <3>5. QED
      BY <3>1, <3>4 DEF FollowedBy
  <2>4. FollowedBy(n.at, n.begin, events[n.at].forward)'
    <3>1. \A o \in nodes' : o.begin = n.begin => o.at <= n.at \/ o.at >= L + 1
      BY <1>4, <1>5, <1>7
    <3>2. n2 \in nodes' /\ n.at < L + 1 /\ L + 1 # 0
      BY <1>4, <1>5, <2>2
    <3>3. QED
      BY <1>3, <1>4, <3>1, <3>2 DEF FollowedBy
  <2>5. ASSUME NEW m \in nodes', m = n2
        PROVE  FollowedBy(m.at, m.begin, events[m.at].forward)'
    <3>1. \A o \in nodes' : o.at <= L + 1
      BY <1>4, <1>5, <2>2, Fields
    <3>2. m.at = L + 1 /\ events'[m.at].forward = 0
      BY <1>3, <1>4, <2>5
    <3>3. QED
      BY <3>1, <3>2 DEF FollowedBy
  <2>6. QED
    BY <1>4, <2>3, <2>4, <2>5 DEF Chained
<1>14. Rooted'
  BY <1>1, <1>2, <1>3, <1>4, <1>5, Fields DEF Rooted, Placed
<1>15. SameTokens
  BY <1>1, <1>2, <1>3, <1>5 DEF SameTokens, IsToken
<1>16. /\ TokensInOrder'
       /\ \A i \in Nat, c \in Nat : Cut(i, c) => Cut(i, c)'
  <2>1. Len(events') \in Nat
    BY <1>2, <1>5
  <2>2. QED
    BY <1>15, <2>1, TokensKept
<1>17. Spanning'
  <2>1. ASSUME NEW m \in nodes'
        PROVE  Cut(m.begin, m.from)' /\ (m.exit # 0 /\ m.at # 1 => Cut(m.exit, m.to)')
    <3>1. CASE m \in nodes
      BY <1>16, <3>1, Fields DEF Spanning
    <3>2. CASE m = n2
      <4>1. Cut(m.begin, m.from) /\ m.begin \in Nat /\ m.from \in Nat /\ m.exit = 0
        BY <1>4, <1>5, <3>2, Fields DEF Spanning
      <4>2. QED
        BY <1>16, <4>1
    <3>3. QED
      BY <1>4, <3>1, <3>2
  <2>2. QED
    BY <2>1 DEF Spanning
<1>18. QED
  BY <1>2, <1>4, <1>8, <1>9, <1>10, <1>11, <1>12, <1>13, <1>14, <1>16, <1>17
     DEF TypeOK

\* What is completed encloses all that began behind it.
LEMMA CompleteKeeps ==
    ASSUME TypeOK, MarksOK, NEW n \in nodes, NEW kind \in Kinds,
           CompleteMarker(n, kind)
    PROVE  parser' \in ParserState /\ nodes' \subseteq Mark /\ MarksOK'
<1> DEFINE L == Len(events)
           n2 == Completed(n, kind, Consumed)
<1> USE DEF MarksOK
<1>5. L \in Nat /\ Consumed \in Nat
  BY Fields DEF Consumed
<1>1. /\ n.at \in 1 .. L /\ events[n.at].event = "enter" /\ n.exit = 0 /\ n.at # 1
      /\ kind \in Kind
  BY DEF CompleteMarker, Live, Placed, Kind
<1>2. /\ parser' \in ParserState /\ parser'.pos = parser.pos /\ Consumed' = Consumed
      /\ Len(events') = L + 1 /\ next' = next /\ next = 0
      /\ \A i \in 1 .. L : i # n.at => events'[i] = events[i]
      /\ events'[L + 1] = [event |-> "exit"]
      /\ events'[n.at] = [event |-> "enter", kind |-> kind,
                          forward |-> events[n.at].forward]
  BY <1>1, CompleteEffect DEF CompleteMarker, Parsing, Grown, Consumed, events
<1>3. /\ events'[L + 1].event = "exit"
      /\ events'[n.at].event = "enter" /\ events'[n.at].kind = kind
      /\ \A i \in 1 .. L : events[i].event = "enter" =>
            events'[i].forward = events[i].forward
      /\ \A i \in 1 .. L : events'[i].event = events[i].event
      /\ \A i \in 1 .. L : i # n.at => events'[i].kind = events[i].kind
  BY <1>1, <1>2
<1>4. /\ nodes' = (nodes \ {n}) \cup {n2}
      /\ n2.at = n.at /\ n2.begin = n.begin /\ n2.exit = L + 1 /\ n2.kind = kind
      /\ n2.from = n.from /\ n2.to = Consumed /\ n2 \in Mark
  <2>1. n2 = [n EXCEPT !.exit = L + 1, !.kind = kind, !.to = Consumed]
    BY DEF Completed, Marker, events
  <2>2. n \in Mark /\ L + 1 \in Nat /\ Consumed \in Nat /\ kind \in Kind
    BY <1>1, <1>5 DEF TypeOK
  <2>3. nodes' = (nodes \ {n}) \cup {n2}
    BY DEF CompleteMarker
  <2> HIDE DEF n2
  <2>4. QED
    BY <2>1, <2>2, <2>3 DEF Mark
<1>6. \A m \in nodes : m.exit = 0 => m.begin <= n.begin
  BY DEF CompleteMarker, Innermost, Live
<1> HIDE DEF n2
<1>8. Placed'
  <2>1. ASSUME NEW m \in nodes, m # n
        PROVE  /\ m.at \in 1 .. Len(events') /\ m.begin \in 1 .. m.at
               /\ m.exit = 0 \/ m.exit \in m.at + 1 .. Len(events')
               /\ events'[m.at].event = "enter" /\ events'[m.at].kind = m.kind
               /\ m.exit # 0 => events'[m.exit].event = "exit"
    <3>1. /\ m.at \in 1 .. L /\ m.begin \in 1 .. m.at
          /\ m.exit = 0 \/ m.exit \in m.at + 1 .. L
          /\ events[m.at].event = "enter" /\ events[m.at].kind = m.kind
          /\ m.exit # 0 => m.exit \in 1 .. L /\ events[m.exit].event = "exit"
      BY Fields DEF Placed
    <3>2. m.at # n.at
      BY <2>1 DEF Single
    <3>3. /\ m.at \in 1 .. Len(events')
          /\ m.exit = 0 \/ m.exit \in m.at + 1 .. Len(events')
      BY <1>2, <1>5, <3>1, Fields
    <3>4. QED
      BY <1>1, <1>3, <3>1, <3>2, <3>3
  <2>2. /\ n2.at \in 1 .. Len(events') /\ n2.begin \in 1 .. n2.at
        /\ n2.exit \in n2.at + 1 .. Len(events')
    BY <1>1, <1>2, <1>4, <1>5, Fields DEF Placed
  <2>3. QED
    BY <1>2, <1>3, <1>4, <2>1, <2>2 DEF Placed
<1>9. Single'
  BY <1>2, <1>3, <1>4, <1>5, Fields DEF Single, Placed
<1>10. Covered'
  <2>1. ASSUME NEW i \in 1 .. L
        PROVE  /\ events'[i].event = "enter" => \E m \in nodes' : m.at = i
               /\ events'[i].event = "exit" => \E m \in nodes' : m.exit = i
    BY <1>1, <1>3, <1>4 DEF Covered
  <2>2. QED
    BY <1>2, <1>3, <1>4, <1>5, <2>1 DEF Covered
<1>11. Headed'
  BY <1>4, <1>5, Fields DEF Headed
<1>12. Laminar'
  BY <1>1, <1>4, <1>5, <1>6, Fields DEF Laminar, Placed
<1>13. Chained'
  <2>1. ASSUME NEW m \in nodes' PROVE FollowedBy(m.at, m.begin, events[m.at].forward)'
    <3>1. PICK o \in nodes : o.at = m.at /\ o.begin = m.begin
      BY <1>1, <1>4
    <3>2. FollowedBy(o.at, o.begin, events[o.at].forward)
          /\ events'[o.at].forward = events[o.at].forward
      BY <1>3 DEF Chained, Placed
    <3>3. /\ \A x \in nodes : \E y \in nodes' : y.at = x.at /\ y.begin = x.begin
          /\ \A x \in nodes' : \E y \in nodes : y.at = x.at /\ y.begin = x.begin
          /\ nodes' \subseteq Mark
      BY <1>1, <1>4 DEF TypeOK
    <3>4. PICK f : f = events[o.at].forward
      OBVIOUS
    <3>5. FollowedBy(o.at, o.begin, f)'
      BY <3>2, <3>3, <3>4, SameFollower
    <3>6. QED
      BY <3>1, <3>2, <3>4, <3>5 DEF FollowedBy
  <2>2. QED
    BY <2>1 DEF Chained
<1>14. Rooted'
  BY <1>1, <1>2, <1>3, <1>4, <1>5, Fields DEF Rooted, Placed
<1>15. SameTokens
  BY <1>1, <1>2, <1>3, <1>5 DEF SameTokens, IsToken
<1>16. /\ TokensInOrder'
       /\ \A i \in Nat, c \in Nat : Cut(i, c) => Cut(i, c)'
  <2>1. Len(events') \in Nat
    BY <1>2, <1>5
  <2>2. QED
    BY <1>15, <2>1, TokensKept
<1>17. Spanning'
  <2>1. ASSUME NEW m \in nodes'
        PROVE  Cut(m.begin, m.from)' /\ (m.exit # 0 /\ m.at # 1 => Cut(m.exit, m.to)')
    <3>1. CASE m \in nodes
      BY <1>16, <3>1, Fields DEF Spanning
    <3>2. CASE m = n2
      <4>1. /\ Cut(m.begin, m.from) /\ m.begin \in Nat /\ m.from \in Nat
            /\ Cut(m.exit, m.to) /\ m.exit \in Nat /\ m.to \in Nat
        BY <1>4, <1>5, <3>2, Fields, CutAtEnd DEF Spanning
      <4>2. QED
        BY <1>16, <4>1
    <3>3. QED
      BY <1>4, <3>1, <3>2
  <2>2. QED
    BY <2>1 DEF Spanning
<1>18. QED
  BY <1>2, <1>4, <1>8, <1>9, <1>10, <1>11, <1>12, <1>13, <1>14, <1>16, <1>17
     DEF TypeOK

\* Nothing begins with the marker that is given up, or leads to it.
LEMMA AbandonKeeps ==
    ASSUME TypeOK, MarksOK, NEW n \in nodes, AbandonMarker(n)
    PROVE  parser' \in ParserState /\ nodes' \subseteq Mark /\ MarksOK'
<1> DEFINE L == Len(events)
           M == Len(events')
<1> USE DEF MarksOK
<1>1. /\ n.at \in 1 .. L /\ events[n.at].event = "enter" /\ n.exit = 0 /\ n.at # 1
      /\ n.begin = n.at /\ nodes' = nodes \ {n}
  BY DEF AbandonMarker, Live, Placed
<1>2. /\ parser' \in ParserState /\ parser'.pos = parser.pos /\ Consumed' = Consumed
      /\ next' = next /\ next = 0
  BY <1>1, AbandonEffect DEF AbandonMarker, Parsing, Consumed, events
<1>3. L \in Nat /\ Consumed \in Nat
  BY Fields DEF Consumed
<1>4. \/ M = L /\ n.at < L /\ events'[n.at].event = "tombstone"
      \/ M = L - 1 /\ n.at = L
  BY <1>1, AbandonEffect DEF AbandonMarker, events
<1>5. M \in L - 1 .. L /\ \A i \in 1 .. M : i # n.at => events'[i] = events[i]
  <2>1. \/ /\ M = L
           /\ \A i \in 1 .. L : i # n.at => events'[i] = events[i]
        \/ M = L - 1 /\ \A i \in 1 .. L - 1 : events'[i] = events[i]
    BY <1>1, AbandonEffect DEF AbandonMarker, events
  <2>2. QED
    BY <1>3, <2>1
<1>6. \A m \in nodes : m.begin = n.begin => m = n
  BY <1>1, Fields DEF Laminar, Placed, Single
<1>7. \A m \in nodes : m # n => m.at \in 1 .. M /\ m.at # n.at
                                /\ m.exit # n.at /\ m.exit \in 0 .. M
  BY <1>1, <1>3, <1>4, Fields DEF Placed, Single
<1> HIDE DEF M
<1>8. Placed'
  <2>1. ASSUME NEW m \in nodes, m # n
        PROVE  /\ m.at \in 1 .. M /\ m.begin \in 1 .. m.at
               /\ m.exit = 0 \/ m.exit \in m.at + 1 .. M
               /\ events'[m.at].event = "enter" /\ events'[m.at].kind = m.kind
               /\ m.exit # 0 => events'[m.exit].event = "exit"
    <3>1. /\ m.at \in 1 .. L /\ m.begin \in 1 .. m.at
          /\ m.exit = 0 \/ m.exit \in m.at + 1 .. L
          /\ events[m.at].event = "enter" /\ events[m.at].kind = m.kind
          /\ m.exit # 0 => events[m.exit].event = "exit"
      BY DEF Placed
    <3>2. m.exit # 0 => m.exit \in 1 .. M
      BY <1>3, <1>5, <1>7, <2>1, Fields
    <3>3. QED
      BY <1>3, <1>5, <1>7, <2>1, <3>1, <3>2, Fields
  <2>2. QED
    BY <1>1, <2>1 DEF Placed, M
<1>9. Single'
  BY <1>1 DEF Single
<1>10. Covered'
  BY <1>1, <1>3, <1>4, <1>5, Fields DEF Covered, M
<1>11. Headed'
  BY <1>1, <1>6 DEF Headed
<1>12. Laminar'
  BY <1>1 DEF Laminar
<1>13. Chained'
  <2>1. ASSUME NEW m \in nodes'
        PROVE  FollowedBy(m.at, m.begin, events[m.at].forward)'
    <3>1. m \in nodes /\ m # n /\ m.begin # n.begin
      BY <1>1, <1>6
    <3>2. FollowedBy(m.at, m.begin, events[m.at].forward)
          /\ events'[m.at].forward = events[m.at].forward
      BY <1>5, <1>7, <3>1 DEF Chained
    <3>3. QED
      BY <1>1, <3>1, <3>2 DEF FollowedBy
  <2>2. QED
    BY <2>1 DEF Chained
<1>14. Rooted'
  BY <1>1, <1>2, Fields DEF Rooted
<1>15. SameTokens
  BY <1>1, <1>2, <1>3, <1>4, <1>5 DEF SameTokens, IsToken, M
<1>16. /\ TokensInOrder'
       /\ \A i \in Nat, c \in Nat : Cut(i, c) => Cut(i, c)'
  <2>1. Len(events') \in Nat
    BY <1>1, <1>3, <1>5 DEF M
  <2>2. QED
    BY <1>15, <2>1, TokensKept
<1>17. Spanning'
  BY <1>1, <1>16, Fields DEF Spanning
<1>18. QED
  BY <1>1, <1>2, <1>8, <1>9, <1>10, <1>11, <1>12, <1>13, <1>14, <1>16, <1>17
     DEF TypeOK

\* An error is of no marker and no token.
LEMMA ErrorKeeps ==
    ASSUME TypeOK, MarksOK, ReportError
    PROVE  parser' \in ParserState /\ nodes' \subseteq Mark /\ MarksOK'
<1> DEFINE L == Len(events)
<1> USE DEF MarksOK
<1>1. /\ parser' \in ParserState /\ parser'.pos = parser.pos /\ Consumed' = Consumed
      /\ Len(events') = L + 1 /\ next' = next /\ next = 0
      /\ \A i \in 1 .. L : events'[i] = events[i]
      /\ events'[L + 1].event = "error"
      /\ nodes' = nodes
  BY ErrorEffect DEF ReportError, Parsing, Grown, Consumed, events
<1>2. L \in Nat /\ Consumed \in Nat
  BY Fields DEF Consumed
<1>3. Placed' /\ Single' /\ Covered' /\ Headed' /\ Laminar' /\ Chained'
  <2>1. Placed'
    <3>1. ASSUME NEW m \in nodes
          PROVE  /\ m.at \in 1 .. L + 1 /\ m.begin \in 1 .. m.at
                 /\ m.exit = 0 \/ m.exit \in m.at + 1 .. L + 1
                 /\ events'[m.at].event = "enter" /\ events'[m.at].kind = m.kind
                 /\ m.exit # 0 => events'[m.exit].event = "exit"
      BY <1>1, <1>2, Fields DEF Placed
    <3>2. QED
      BY <1>1, <3>1 DEF Placed
  <2>2. Covered'
    BY <1>1, <1>2, Fields DEF Covered
  <2>3. \A m \in nodes : events'[m.at].forward = events[m.at].forward
    BY <1>1 DEF Placed
  <2>4. QED
    BY <1>1, <2>1, <2>2, <2>3 DEF Single, Headed, Laminar, Chained, FollowedBy
<1>4. Rooted'
  BY <1>1, Fields DEF Rooted
<1>5. SameTokens
  BY <1>1, <1>2 DEF SameTokens, IsToken
<1>6. /\ TokensInOrder'
      /\ \A i \in Nat, c \in Nat : Cut(i, c) => Cut(i, c)'
  BY <1>1, <1>2, <1>5, TokensKept
<1>7. Spanning'
  BY <1>1, <1>6, Fields DEF Spanning
<1>8. QED
  BY <1>1, <1>3, <1>4, <1>6, <1>7 DEF TypeOK

\* A token is behind the start of every marker.
LEMMA BumpKeeps ==
    ASSUME TypeOK, MarksOK, BumpToken
    PROVE  parser' \in ParserState /\ nodes' \subseteq Mark /\ MarksOK'
<1> DEFINE L == Len(events)
<1> USE DEF MarksOK
<1>1. /\ parser' \in ParserState /\ parser'.pos = parser.pos + 1
      /\ Len(events') = L + 1 /\ next' = next /\ next = 0
      /\ \A i \in 1 .. L : events'[i] = events[i]
      /\ events'[L + 1].event = "token" /\ events'[L + 1].at = parser.pos
      /\ nodes' = nodes
  BY BumpEffect DEF BumpToken, Parsing, Grown, events
<1>2. /\ L \in Nat /\ Consumed \in Nat /\ Consumed' = Consumed + 1
      /\ parser.pos = Consumed + 1
  BY <1>1, Fields DEF Consumed
<1>3. Placed' /\ Single' /\ Covered' /\ Headed' /\ Laminar' /\ Chained'
  <2>1. Placed'
    <3>1. ASSUME NEW m \in nodes
          PROVE  /\ m.at \in 1 .. L + 1 /\ m.begin \in 1 .. m.at
                 /\ m.exit = 0 \/ m.exit \in m.at + 1 .. L + 1
                 /\ events'[m.at].event = "enter" /\ events'[m.at].kind = m.kind
                 /\ m.exit # 0 => events'[m.exit].event = "exit"
      BY <1>1, <1>2, Fields DEF Placed
    <3>2. QED
      BY <1>1, <3>1 DEF Placed
  <2>2. Covered'
    BY <1>1, <1>2, Fields DEF Covered
  <2>3. \A m \in nodes : events'[m.at].forward = events[m.at].forward
    BY <1>1 DEF Placed
  <2>4. QED
    BY <1>1, <2>1, <2>2, <2>3 DEF Single, Headed, Laminar, Chained, FollowedBy
<1>4. Rooted'
  BY <1>1, Fields DEF Rooted
<1>5. TokensInOrder'
  <2>1. \A i \in 1 .. Len(events') : IsToken(i)' =>
          \/ i \in 1 .. L /\ IsToken(i) /\ events'[i].at = events[i].at
          \/ i = L + 1 /\ events'[i].at = Consumed + 1
    BY <1>1, <1>2 DEF IsToken
  <2>2. /\ \A i \in 1 .. L : IsToken(i) =>
              IsToken(i)' /\ events'[i].at = events[i].at /\ i \in 1 .. Len(events')
        /\ \E i \in 1 .. Len(events') : IsToken(i)' /\ events'[i].at = Consumed + 1
    <3>1. \A i \in 1 .. Len(events') : i = L + 1 =>
             IsToken(i)' /\ events'[i].at = Consumed + 1
      BY <1>1, <1>2 DEF IsToken
    <3>2. QED
      BY <1>1, <1>2, <3>1 DEF IsToken
  <2>3. \A i \in 1 .. Len(events') : IsToken(i)' => events'[i].at \in 1 .. Consumed'
    BY <1>2, <2>1 DEF TokensInOrder
  <2>4. \A i, j \in 1 .. Len(events') :
          IsToken(i)' /\ IsToken(j)' /\ i < j => events'[i].at < events'[j].at
    <3>1. ASSUME NEW i \in 1 .. Len(events'), NEW j \in 1 .. Len(events'),
                 IsToken(i)', IsToken(j)', i < j
          PROVE  events'[i].at < events'[j].at
      <4>1. i \in 1 .. L /\ IsToken(i) /\ events'[i].at = events[i].at
            /\ events[i].at \in 1 .. Consumed
        BY <1>1, <1>2, <2>1, <3>1 DEF TokensInOrder
      <4>2. CASE j \in 1 .. L
        BY <1>2, <2>1, <3>1, <4>1, <4>2 DEF TokensInOrder
      <4>3. CASE j = L + 1
        BY <1>1, <1>2, <4>1, <4>3
      <4>4. QED
        BY <1>1, <1>2, <4>2, <4>3
    <3>2. QED
      BY <3>1
  <2>5. \A c \in 1 .. Consumed' :
          \E i \in 1 .. Len(events') : IsToken(i)' /\ events'[i].at = c
    <3>1. ASSUME NEW c \in 1 .. Consumed
          PROVE  \E i \in 1 .. Len(events') : IsToken(i)' /\ events'[i].at = c
      <4>1. PICK i \in 1 .. L : IsToken(i) /\ events[i].at = c
        BY DEF TokensInOrder
      <4>2. QED
        BY <2>2, <4>1
    <3>2. \A c \in 1 .. Consumed' : c \in 1 .. Consumed \/ c = Consumed + 1
      BY <1>2
    <3>3. QED
      BY <2>2, <3>1, <3>2
  <2>6. QED
    BY <2>3, <2>4, <2>5 DEF TokensInOrder
<1>6. \A i \in 0 .. L, c \in Nat : Cut(i, c) => Cut(i, c)'
  BY <1>1, <1>2 DEF Cut, IsToken
<1>7. Spanning'
  BY <1>1, <1>2, <1>6, Fields DEF Spanning, Placed
<1>8. QED
  BY <1>1, <1>3, <1>4, <1>5, <1>7 DEF TypeOK

\* The root encloses all other markers.
LEMMA FinishKeeps ==
    ASSUME TypeOK, MarksOK, NEW n \in nodes, NEW kind \in Kinds, Finish(n, kind)
    PROVE  parser' \in ParserState /\ nodes' \subseteq Mark /\ MarksOK'
<1> DEFINE L == Len(events)
           n2 == Completed(n, kind, End)
<1> USE DEF MarksOK
<1>1. /\ n.at = 1 /\ 1 \in 1 .. L /\ events[1].event = "enter" /\ n.exit = 0
      /\ kind \in Kind
  BY DEF Finish, Live, Placed, Kind
<1>2. /\ parser' \in ParserState /\ parser'.pos = parser.pos /\ Consumed' = Consumed
      /\ Len(events') = L + 1 /\ next' = 1 /\ next = 0
      /\ \A i \in 1 .. L : i # 1 => events'[i] = events[i]
      /\ events'[L + 1] = [event |-> "exit"]
      /\ events'[1] = [event |-> "enter", kind |-> kind,
                       forward |-> events[1].forward]
  BY <1>1, CompleteEffect DEF Finish, Parsing, Grown, Consumed, events
<1>3. /\ events'[L + 1].event = "exit"
      /\ events'[1].event = "enter" /\ events'[1].kind = kind
      /\ \A i \in 1 .. L : events[i].event = "enter" =>
            events'[i].forward = events[i].forward
      /\ \A i \in 1 .. L : events'[i].event = events[i].event
      /\ \A i \in 1 .. L : i # 1 => events'[i].kind = events[i].kind
  BY <1>1, <1>2
<1>4. /\ nodes' = (nodes \ {n}) \cup {n2}
      /\ n2.at = 1 /\ n2.begin = n.begin /\ n2.exit = L + 1 /\ n2.kind = kind
      /\ n2.from = n.from /\ n2.to = End /\ n2 \in Mark
  <2>1. n2 = [n EXCEPT !.exit = L + 1, !.kind = kind, !.to = End]
    BY DEF Completed, Marker, events
  <2>2. n \in Mark /\ L + 1 \in Nat /\ End \in Nat /\ kind \in Kind
    BY <1>1, Fields DEF TypeOK, End
  <2>3. nodes' = (nodes \ {n}) \cup {n2}
    BY DEF Finish
  <2> HIDE DEF n2
  <2>4. QED
    BY <1>1, <2>1, <2>2, <2>3 DEF Mark
<1>5. L \in Nat /\ Consumed \in Nat
  BY Fields DEF Consumed
<1>6. \A m \in nodes : m.exit = 0 => m.begin <= n.begin
  BY DEF Finish, Innermost, Live
<1>7. \A m \in nodes : m # n => m.exit # 0 /\ m.at # 1
  BY <1>1, <1>6, Fields DEF Placed, Rooted, Single
<1> HIDE DEF n2
<1>8. Placed'
  <2>1. ASSUME NEW m \in nodes, m # n
        PROVE  /\ m.at \in 1 .. Len(events') /\ m.begin \in 1 .. m.at
               /\ m.exit = 0 \/ m.exit \in m.at + 1 .. Len(events')
               /\ events'[m.at].event = "enter" /\ events'[m.at].kind = m.kind
               /\ m.exit # 0 => events'[m.exit].event = "exit"
    <3>1. /\ m.at \in 1 .. L /\ m.begin \in 1 .. m.at
          /\ m.exit = 0 \/ m.exit \in m.at + 1 .. L
          /\ events[m.at].event = "enter" /\ events[m.at].kind = m.kind
          /\ m.exit # 0 => m.exit \in 1 .. L /\ events[m.exit].event = "exit"
      BY Fields DEF Placed
    <3>2. m.at # n.at
      BY <2>1 DEF Single
    <3>3. /\ m.at \in 1 .. Len(events')
          /\ m.exit = 0 \/ m.exit \in m.at + 1 .. Len(events')
      BY <1>2, <1>5, <3>1, Fields
    <3>4. QED
      BY <1>1, <1>3, <3>1, <3>2, <3>3
  <2>2. /\ n2.at \in 1 .. Len(events') /\ n2.begin \in 1 .. n2.at
        /\ n2.exit \in n2.at + 1 .. Len(events')
    BY <1>1, <1>2, <1>4, <1>5, Fields DEF Placed
  <2>3. QED
    BY <1>2, <1>3, <1>4, <2>1, <2>2 DEF Placed
<1>9. Single'
  BY <1>1, <1>2, <1>3, <1>4, <1>5, Fields DEF Single, Placed
<1>10. Covered'
  <2>1. ASSUME NEW i \in 1 .. L
        PROVE  /\ events'[i].event = "enter" => \E m \in nodes' : m.at = i
               /\ events'[i].event = "exit" => \E m \in nodes' : m.exit = i
    BY <1>1, <1>3, <1>4 DEF Covered
  <2>2. QED
    BY <1>2, <1>3, <1>4, <1>5, <2>1 DEF Covered
<1>11. Headed'
  BY <1>1, <1>4, <1>5, Fields DEF Headed
<1>12. Laminar'
  BY <1>1, <1>4, <1>5, <1>7, Fields DEF Laminar, Placed
<1>13. Chained'
  <2>1. ASSUME NEW m \in nodes' PROVE FollowedBy(m.at, m.begin, events[m.at].forward)'
    <3>1. PICK o \in nodes : o.at = m.at /\ o.begin = m.begin
      BY <1>1, <1>4
    <3>2. FollowedBy(o.at, o.begin, events[o.at].forward)
          /\ events'[o.at].forward = events[o.at].forward
      BY <1>3 DEF Chained, Placed
    <3>3. /\ \A x \in nodes : \E y \in nodes' : y.at = x.at /\ y.begin = x.begin
          /\ \A x \in nodes' : \E y \in nodes : y.at = x.at /\ y.begin = x.begin
          /\ nodes' \subseteq Mark
      BY <1>1, <1>4 DEF TypeOK
    <3>4. PICK f : f = events[o.at].forward
      OBVIOUS
    <3>5. FollowedBy(o.at, o.begin, f)'
      BY <3>2, <3>3, <3>4, SameFollower
    <3>6. QED
      BY <3>1, <3>2, <3>4, <3>5 DEF FollowedBy
  <2>2. QED
    BY <2>1 DEF Chained
<1>14. Rooted'
  <2>1. End' = End /\ parser'.pos = Len(Input) + 1
    BY <1>2, Fields DEF End, Finish, AtEnd
  <2>2. QED
    BY <1>1, <1>2, <1>4, <1>5, <1>7, <2>1, Fields DEF Rooted
<1>15. SameTokens
  BY <1>1, <1>2, <1>3, <1>5 DEF SameTokens, IsToken
<1>16. /\ TokensInOrder'
       /\ \A i \in Nat, c \in Nat : Cut(i, c) => Cut(i, c)'
  <2>1. Len(events') \in Nat
    BY <1>2, <1>5
  <2>2. QED
    BY <1>15, <2>1, TokensKept
<1>17. Spanning'
  <2>1. ASSUME NEW m \in nodes'
        PROVE  Cut(m.begin, m.from)' /\ (m.exit # 0 /\ m.at # 1 => Cut(m.exit, m.to)')
    <3>1. CASE m \in nodes
      BY <1>16, <3>1, Fields DEF Spanning
    <3>2. CASE m = n2
      <4>1. /\ Cut(m.begin, m.from) /\ m.begin \in Nat /\ m.from \in Nat
            /\ m.at = 1
        BY <1>4, <1>5, <3>2, Fields DEF Spanning
      <4>2. QED
        BY <1>16, <4>1
    <3>3. QED
      BY <1>4, <3>1, <3>2
  <2>2. QED
    BY <2>1 DEF Spanning
<1>18. QED
  BY <1>2, <1>4, <1>8, <1>9, <1>10, <1>11, <1>12, <1>13, <1>14, <1>16, <1>17
     DEF TypeOK

-----------------------------------------------------------------------------
(* The inductive invariant of the bridge.                                   *)

\* Before the bridge starts nothing is built.
Unbuilt ==
    /\ parents = <<>> /\ children = <<>> /\ token_idx = 0
    /\ forward_parents = <<>> /\ fp = 0 /\ spent = {} /\ made = {}

\* Begun before the event the bridge is at, and not completed before it.
Open(n) == n.begin < next /\ next <= n.exit

\* The parents are the nodes that are open, the outermost first.
Nested ==
    /\ \A i \in 1 .. Len(parents) : \E n \in nodes :
          parents[i].marker = n.at /\ parents[i].kind = n.kind /\ Open(n)
    /\ \A n \in nodes : Open(n) =>
          \E i \in 1 .. Len(parents) : parents[i].marker = n.at
    /\ \A i, j \in 1 .. Len(parents) : \A m, n \in nodes :
          i < j /\ parents[i].marker = m.at /\ parents[j].marker = n.at
             => n.exit < m.exit

\* The leaf behind which the child after the first f begins.
Reach(f) == IF f = Len(children) THEN token_idx ELSE children[f + 1].from

\* The first child of a parent begins where the parent does.
Reached ==
    /\ \A i \in 1 .. Len(parents) : parents[i].first \in 0 .. Len(children)
    /\ \A i, j \in 1 .. Len(parents) : i < j => parents[i].first <= parents[j].first
    /\ \A i \in 1 .. Len(parents) : \A n \in nodes :
          parents[i].marker = n.at => Reach(parents[i].first) = n.from
    /\ parents # <<>> => parents[1].first = 0
    /\ next = 1 => children = <<>>

\* The children end with the last token passed.
Joined ==
    next <= Len(events) =>
       /\ Cut(next, token_idx)
       /\ children # <<>> => children[Len(children)].to = token_idx

\* A chain being walked holds the first nodes that begin here, innermost
\* first, and goes on with the one after them.
Walked ==
    IF forward_parents = <<>> THEN fp = 0
    ELSE /\ next \in 1 .. Len(events) /\ events[next].event = "enter"
         /\ next \notin spent
         /\ \A i \in 1 .. Len(forward_parents) : \E n \in nodes :
               /\ forward_parents[i].marker = n.at
               /\ forward_parents[i].kind = n.kind /\ n.begin = next
         /\ \A i, j \in 1 .. Len(forward_parents) :
               i < j => forward_parents[i].marker < forward_parents[j].marker
         /\ LET l == forward_parents[Len(forward_parents)].marker
            IN  /\ \A n \in nodes : n.begin = next /\ n.at <= l =>
                      \E i \in 1 .. Len(forward_parents) :
                         forward_parents[i].marker = n.at
                /\ fp = events[l].forward

InChain(n) == \E i \in 1 .. Len(forward_parents) : forward_parents[i].marker = n.at

\* Spent are the markers that precede others, once the bridge has passed where
\* they begin or has them in the chain.
Spent ==
    \A i \in Nat : i \in spent <=>
       \E n \in nodes : /\ n.at = i /\ n.at # n.begin
                        /\ n.begin < next \/ InChain(n)

BridgeOK ==
    IF next = 0 THEN Unbuilt
    ELSE /\ next \in 1 .. Len(events) + 1
         /\ Nested /\ Reached /\ Joined /\ Walked /\ Spent
         /\ NodesAsMarked /\ Seamless /\ OneRoot

Inv == TypeOK /\ MarksOK /\ BridgeOK

-----------------------------------------------------------------------------
(* What the bridge finds in the events.                                     *)

\* Once the parser has finished, every node is complete.
LEMMA Finished ==
    ASSUME TypeOK, MarksOK, next # 0
    PROVE  /\ Consumed = Len(Input)
           /\ \A n \in nodes :
                 /\ n.at \in 1 .. Len(events) /\ n.begin \in 1 .. n.at
                 /\ n.exit \in n.at + 1 .. Len(events)
                 /\ events[n.at].event = "enter" /\ events[n.at].kind = n.kind
                 /\ events[n.exit].event = "exit" /\ events[n.begin].event = "enter"
                 /\ Cut(n.begin, n.from)
                 /\ IF n.at = 1 THEN /\ n.begin = 1 /\ n.exit = Len(events)
                                     /\ n.from = 0 /\ n.to = End
                    ELSE /\ Cut(n.exit, n.to) /\ n.exit < Len(events)
                         /\ n.begin > 1
           /\ \E r \in nodes : r.at = 1
<1> USE DEF MarksOK
<1>1. PICK r \in nodes : r.at = 1
  BY DEF Rooted
<1>2. r.exit = Len(events) /\ parser.pos = Len(Input) + 1
  BY <1>1 DEF Rooted
<1>3. ASSUME NEW n \in nodes
      PROVE  /\ n.at \in 1 .. Len(events) /\ n.begin \in 1 .. n.at
             /\ n.exit # 0 /\ n.exit \in n.at + 1 .. Len(events)
             /\ events[n.at].event = "enter" /\ events[n.at].kind = n.kind
             /\ events[n.exit].event = "exit"
  BY Fields DEF Placed, Rooted
<1>4. ASSUME NEW n \in nodes
      PROVE  events[n.begin].event = "enter"
  BY <1>3 DEF Headed
<1>5. ASSUME NEW n \in nodes, n.at # 1
      PROVE  Cut(n.exit, n.to) /\ n.exit < Len(events) /\ n.begin > 1
  <2>1. n.exit # r.exit
    BY <1>1, <1>3, <1>5 DEF Single
  <2>2. QED
    BY <1>2, <1>3, <1>5, <2>1, Fields DEF Spanning, Rooted
<1>6. ASSUME NEW n \in nodes, n.at = 1
      PROVE  n.begin = 1 /\ n.exit = Len(events) /\ n.from = 0 /\ n.to = End
  BY <1>3, <1>6 DEF Rooted
<1>7. QED
  BY <1>1, <1>2, <1>3, <1>4, <1>5, <1>6, Fields DEF Spanning, Consumed

\* The events before a place tell how many tokens are.
LEMMA CutUnique ==
    ASSUME TypeOK, TokensInOrder, NEW i, NEW c, NEW d, Cut(i, c), Cut(i, d)
    PROVE  c = d
<1>1. Consumed \in Nat
  BY Fields DEF Consumed
<1>2. ASSUME NEW x \in 0 .. Consumed, NEW y \in 0 .. Consumed,
             Cut(i, x), Cut(i, y), x < y
      PROVE  FALSE
  <2>1. PICK j \in 1 .. Len(events) : IsToken(j) /\ events[j].at = y
    BY <1>1, <1>2 DEF TokensInOrder
  <2>2. QED
    BY <1>1, <1>2, <2>1 DEF Cut
<1>3. c \in 0 .. Consumed /\ d \in 0 .. Consumed
  BY DEF Cut
<1>4. QED
  BY <1>1, <1>2, <1>3

\* Behind an event that is no token there are as many tokens as before it.
LEMMA CutNext ==
    ASSUME TypeOK, NEW i \in 1 .. Len(events), NEW c, Cut(i, c), ~IsToken(i)
    PROVE  Cut(i + 1, c)
BY Fields DEF Cut

\* A token is the one after those before it.
LEMMA CutToken ==
    ASSUME TypeOK, TokensInOrder, NEW i \in 1 .. Len(events), NEW c,
           Cut(i, c), IsToken(i)
    PROVE  /\ events[i].at = c + 1 /\ c \in Nat
           /\ Cut(i + 1, c + 1)
<1>1. Consumed \in Nat /\ Len(events) \in Nat
  BY Fields DEF Consumed
<1>2. c \in 0 .. Consumed /\ events[i].at \in 1 .. Consumed /\ c < events[i].at
  BY <1>1 DEF Cut, TokensInOrder
<1>3. events[i].at = c + 1
  <2>0. c + 1 \in 1 .. Consumed
    BY <1>1, <1>2
  <2>1. PICK j \in 1 .. Len(events) : IsToken(j) /\ events[j].at = c + 1
    BY <2>0 DEF TokensInOrder
  <2>2. ~(j < i)
    BY <1>1, <1>2, <2>1 DEF Cut
  <2>3. j # i => events[i].at < events[j].at
    BY <1>1, <2>1, <2>2 DEF TokensInOrder
  <2>4. QED
    BY <1>2, <2>1, <2>3
<1>4. ASSUME NEW j \in 1 .. Len(events), IsToken(j)
      PROVE  j < i + 1 <=> events[j].at <= c + 1
  <2>1. events[j].at \in 1 .. Consumed
    BY <1>4 DEF TokensInOrder
  <2>2. CASE j < i
    <3>1. events[j].at <= c
      BY <1>4, <2>2 DEF Cut
    <3>2. QED
      BY <1>1, <1>2, <2>1, <2>2, <3>1
  <2>3. CASE j = i
    BY <1>1, <1>2, <1>3, <2>3
  <2>4. CASE j > i
    <3>1. events[i].at < events[j].at
      BY <1>4, <2>4 DEF TokensInOrder
    <3>2. QED
      BY <1>1, <1>2, <1>3, <2>1, <2>4, <3>1
  <2>5. QED
    BY <1>1, <2>2, <2>3, <2>4
<1>5. QED
  BY <1>1, <1>2, <1>3, <1>4 DEF Cut

\* The bridge leaves the events and the history alone.
LEMMA MarksCarried ==
    ASSUME TypeOK, MarksOK, next # 0, next' # 0, UNCHANGED <<parser, nodes>>
    PROVE  MarksOK'
<1>1. events' = events /\ Consumed' = Consumed
  BY DEF events, Consumed
<1>2. Placed' /\ Single' /\ Covered' /\ Headed' /\ Laminar'
  BY <1>1 DEF MarksOK, Placed, Single, Covered, Headed, Laminar
<1>3. Chained'
  BY <1>1 DEF MarksOK, Chained, FollowedBy
<1>4. Rooted'
  BY <1>1 DEF MarksOK, Rooted, End
<1>5. TokensInOrder' /\ Spanning'
  BY <1>1 DEF MarksOK, TokensInOrder, IsToken, Spanning, Cut
<1>6. QED
  BY <1>2, <1>3, <1>4, <1>5 DEF MarksOK

\* What is said of the events and the history stays so.
LEMMA Carried ==
    ASSUME UNCHANGED <<parser, nodes>>
    PROVE  /\ events' = events /\ Consumed' = Consumed
           /\ \A i, c : Cut(i, c)' <=> Cut(i, c)
           /\ \A n : Marked(n)' = Marked(n)
<1>1. events' = events /\ Consumed' = Consumed
  BY DEF events, Consumed
<1>2. QED
  BY <1>1 DEF Cut, IsToken, Marked, Encloses

-----------------------------------------------------------------------------
(* The steps of the bridge.                                                 *)

\* The event after one at which no node begins or ends.
LEMMA Passed ==
    ASSUME Inv, next \in 1 .. Len(events), forward_parents = <<>>,
           \A n \in nodes : n.begin # next /\ n.exit # next,
           next' = next + 1,
           UNCHANGED <<parser, nodes, parents, forward_parents, fp, spent, made>>
    PROVE  Nested' /\ Walked' /\ Spent' /\ NodesAsMarked'
<1>1. next \in Nat /\ \A n \in nodes : n.begin \in Nat /\ n.exit \in Nat
  BY Fields DEF Inv
<1>2. \A n \in nodes : Open(n)' <=> Open(n)
  BY <1>1 DEF Open
<1>3. Nested'
  BY <1>2 DEF Inv, BridgeOK, Nested
<1>4. Walked'
  BY DEF Inv, BridgeOK, Walked
<1>5. \A n \in nodes : n.begin < next + 1 <=> n.begin < next
  BY <1>1
<1>6. \A n \in nodes : ~InChain(n) /\ ~InChain(n)'
  BY DEF InChain
<1>7. Spent'
  BY <1>1, <1>5, <1>6 DEF Inv, BridgeOK, Spent
<1>8. \A n \in nodes : n.exit \in 1 .. next + 1 - 1 <=> n.exit \in 1 .. next - 1
  BY <1>1
<1>9. NodesAsMarked'
  <2>1. {n \in nodes : n.exit \in 1 .. next + 1 - 1}
          = {n \in nodes : n.exit \in 1 .. next - 1}
    BY <1>8
  <2>2. \A n : Marked(n)' = Marked(n)
    BY Carried
  <2>3. made = {Marked(n) : n \in {n \in nodes : n.exit \in 1 .. next - 1}}
    BY <1>1 DEF Inv, BridgeOK, NodesAsMarked
  <2>4. QED
    BY <2>1, <2>2, <2>3 DEF NodesAsMarked
<1>10. QED
  BY <1>3, <1>4, <1>7, <1>9

\* The last event is the root's Exit.
LEMMA LastIsExit ==
    ASSUME TypeOK, MarksOK, next # 0
    PROVE  events[Len(events)].event = "exit"
<1>1. PICK r \in nodes : r.at = 1
  BY Finished
<1>2. QED
  BY <1>1, Finished

\* At an event that is neither Enter nor Exit no node begins or ends.
LEMMA NoMark ==
    ASSUME TypeOK, MarksOK, next \in 1 .. Len(events),
           events[next].event \notin {"enter", "exit"}
    PROVE  \A n \in nodes : n.begin # next /\ n.exit # next
<1>1. next # 0
  BY Fields
<1>2. QED
  BY <1>1, Finished

\* Nothing is walked but at an Enter event that is not spent.
LEMMA NotWalking ==
    ASSUME Inv, next \in 1 .. Len(events),
           events[next].event # "enter" \/ next \in spent
    PROVE  forward_parents = <<>>
<1>1. next # 0
  BY Fields DEF Inv
<1>2. QED
  BY <1>1 DEF Inv, BridgeOK, Walked

\* What the bridge passes over is no node's.
LEMMA PassKeeps ==
    ASSUME Inv, Pass
    PROVE  Inv'
<1> USE DEF Inv
<1>1. next \in 1 .. Len(events) /\ next' = next + 1 /\ next # 0 /\ next' # 0
      /\ UNCHANGED <<parser, nodes, parents, children, token_idx, forward_parents,
                     fp, spent, made, panicked>>
  BY Fields DEF Pass, AtEvent, bridge
<1>2. Here.event \in {"error", "tombstone"} \/ next \in spent
  BY DEF Pass
<1>3. forward_parents = <<>>
  BY <1>1, <1>2, NotWalking DEF Here
<1>4. \A n \in nodes : n.begin # next /\ n.exit # next
  <2>1. CASE next \in spent
    <3>1. PICK o \in nodes : o.at = next /\ o.at # o.begin
      BY <1>1, <2>1, Fields DEF BridgeOK, Spent
    <3>2. ASSUME NEW n \in nodes, n.begin = next
          PROVE  FALSE
      <4>1. PICK h \in nodes : h.at = next /\ h.begin = next
        BY <3>2 DEF MarksOK, Headed
      <4>2. QED
        BY <3>1, <4>1 DEF MarksOK, Single
    <3>3. \A n \in nodes : n.exit # next
      BY <1>1, <3>1, Finished
    <3>4. QED
      BY <3>2, <3>3
  <2>2. CASE Here.event \in {"error", "tombstone"}
    BY <1>1, <2>2, NoMark DEF Here
  <2>3. QED
    BY <1>2, <2>1, <2>2
<1>5. Here.event # "exit" /\ ~IsToken(next)
  <2>1. CASE next \in spent
    <3>1. PICK o \in nodes : o.at = next
      BY <1>1, <2>1, Fields DEF BridgeOK, Spent
    <3>2. QED
      BY <1>1, <3>1, Finished DEF Here, IsToken
  <2>2. QED
    BY <1>2, <2>1 DEF Here, IsToken
<1>6. next # Len(events)
  BY <1>1, <1>5, LastIsExit DEF Here
<1>7. Nested' /\ Walked' /\ Spent' /\ NodesAsMarked'
  BY <1>1, <1>3, <1>4, Passed
<1>8. MarksOK'
  BY <1>1, MarksCarried
<1>9. next' \in 1 .. Len(events') + 1 /\ events' = events /\ next' <= Len(events)
  BY <1>1, <1>6, Fields, Carried
<1>10. Reached'
  <2>1. next' # 1
    BY <1>1, Fields
  <2>2. QED
    BY <1>1, <2>1 DEF BridgeOK, Reached, Reach
<1>11. Joined'
  <2>1. Cut(next, token_idx) /\ next \in Nat /\ next + 1 = next'
    BY <1>1, Fields DEF BridgeOK, Joined
  <2>2. Cut(next + 1, token_idx)
    BY <1>1, <1>5, <2>1, CutNext
  <2>3. PICK i : i = next + 1
    OBVIOUS
  <2>4. PICK c : c = token_idx
    OBVIOUS
  <2>5. Cut(i, c)'
    BY <1>1, <2>2, <2>3, <2>4, Carried
  <2>6. Cut(next, token_idx)'
    BY <1>1, <2>3, <2>4, <2>5 DEF Cut
  <2>7. children # <<>> => children[Len(children)].to = token_idx
    BY <1>1, Fields DEF BridgeOK, Joined
  <2>8. QED
    BY <1>1, <2>6, <2>7 DEF Joined
<1>12. Seamless' /\ OneRoot'
  BY <1>1, <1>9, Fields DEF BridgeOK, Seamless, OneRoot, Built
<1>13. TypeOK'
  BY <1>1, Fields DEF TypeOK
<1>14. QED
  BY <1>1, <1>7, <1>8, <1>9, <1>10, <1>11, <1>12, <1>13 DEF BridgeOK

\* The token is the next of those walked over.
LEMMA AddTokenKeeps ==
    ASSUME Inv, AddToken
    PROVE  Inv' /\ Here.at = token_idx + 1
<1> USE DEF Inv
<1> DEFINE T == Len(children)
           child == [from |-> token_idx, to |-> Here.at]
<1>1. next \in 1 .. Len(events) /\ next' = next + 1 /\ next # 0 /\ next' # 0
      /\ token_idx' = token_idx + 1
      /\ UNCHANGED <<parser, nodes, parents, forward_parents, fp, spent, made,
                     panicked>>
  BY Fields DEF AddToken, AtEvent
<1>2. IsToken(next) /\ Here = events[next]
  BY DEF AddToken, Here, IsToken
<1>3. forward_parents = <<>>
  BY <1>1, <1>2, NotWalking DEF IsToken
<1>4. \A n \in nodes : n.begin # next /\ n.exit # next
  BY <1>1, <1>2, NoMark DEF IsToken
<1>5. /\ Cut(next, token_idx)
      /\ children # <<>> => children[Len(children)].to = token_idx
  BY <1>1, Fields DEF BridgeOK, Joined
<1>6. Here.at = token_idx + 1 /\ token_idx \in Nat /\ Cut(next + 1, token_idx + 1)
  BY <1>1, <1>2, <1>5, CutToken DEF MarksOK
<1>7. /\ children' = Append(children, child)
      /\ child.from = token_idx /\ child.to = token_idx + 1
      /\ child \in Child
  BY <1>6 DEF AddToken, Child
<1> HIDE DEF child
<1>8. /\ T \in Nat /\ Len(children') = T + 1 /\ children' \in Seq(Child)
      /\ \A i \in 1 .. T : children'[i] = children[i]
      /\ children'[T + 1] = child
  BY <1>7 DEF TypeOK
<1>9. next # Len(events)
  BY <1>1, <1>2, LastIsExit DEF IsToken
<1>10. Nested' /\ Walked' /\ Spent' /\ NodesAsMarked'
  BY <1>1, <1>3, <1>4, Passed
<1>11. MarksOK'
  BY <1>1, MarksCarried
<1>12. next' \in 1 .. Len(events') + 1 /\ events' = events /\ next' <= Len(events)
  BY <1>1, <1>9, Fields, Carried
<1>13. Reached'
  <2>1. next' # 1
    BY <1>1, Fields
  <2>2. \A f \in 0 .. T : Reach(f)' = Reach(f)
    BY <1>7, <1>8 DEF Reach
  <2>3. \A i \in 1 .. Len(parents) : parents[i].first \in 0 .. T
    BY <1>1 DEF BridgeOK, Reached
  <2>4. ASSUME NEW i \in 1 .. Len(parents), NEW n \in nodes, parents[i].marker = n.at
        PROVE  Reach(parents[i].first)' = n.from
    <3>1. PICK f \in 0 .. T : f = parents[i].first
      BY <2>3
    <3>2. Reach(f) = n.from
      BY <1>1, <2>4, <3>1 DEF BridgeOK, Reached
    <3>3. Reach(f)' = n.from
      BY <2>2, <3>2
    <3>4. QED
      BY <1>1, <3>1, <3>3 DEF Reach
  <2>5. \A i \in 1 .. Len(parents) : parents[i].first \in 0 .. Len(children')
    BY <1>8, <2>3
  <2>6. QED
    BY <1>1, <2>1, <2>4, <2>5 DEF BridgeOK, Reached
<1>14. Joined'
  <2>1. PICK i : i = next + 1
    OBVIOUS
  <2>2. PICK c : c = token_idx + 1
    OBVIOUS
  <2>3. Cut(i, c)'
    BY <1>1, <1>6, <2>1, <2>2, Carried
  <2>4. Cut(next, token_idx)'
    BY <1>1, <2>1, <2>2, <2>3 DEF Cut
  <2>5. children'[Len(children')].to = token_idx'
    BY <1>1, <1>7, <1>8
  <2>6. QED
    BY <2>4, <2>5 DEF Joined
<1>15. Seamless'
  <2>1. ASSUME NEW i \in 1 .. T
        PROVE  children'[i].to = children'[i + 1].from
    <3>1. CASE i = T
      BY <1>5, <1>7, <1>8, <3>1
    <3>2. CASE i < T
      <4>1. i \in 1 .. T - 1 /\ i + 1 \in 1 .. T
        BY <1>8, <3>2
      <4>2. children[i].to = children[i + 1].from
        BY <1>1, <4>1 DEF BridgeOK, Seamless
      <4>3. QED
        BY <1>8, <4>1, <4>2
    <3>3. QED
      BY <1>8, <3>1, <3>2
  <2>2. QED
    BY <1>8, <2>1 DEF Seamless
<1>16. OneRoot'
  BY <1>12, Fields DEF OneRoot, Built
<1>17. TypeOK'
  BY <1>1, <1>6, <1>8, Fields DEF TypeOK
<1>18. QED
  BY <1>1, <1>6, <1>10, <1>11, <1>12, <1>13, <1>14, <1>15, <1>16, <1>17
     DEF BridgeOK

\* Where an Enter event is not spent a node begins that precedes nothing.
LEMMA HeadHere ==
    ASSUME Inv, AtEnter
    PROVE  \E n \in nodes :
              n.at = next /\ n.begin = next /\ events[next].kind = n.kind
<1>1. next \in 1 .. Len(events) /\ next # 0 /\ next \in Nat
      /\ events[next].event = "enter" /\ next \notin spent
  BY Fields DEF Inv, AtEnter, AtEvent, Here
<1>2. PICK n \in nodes : n.at = next
  BY <1>1 DEF Inv, MarksOK, Covered
<1>3. n.begin \in 1 .. n.at /\ events[n.at].kind = n.kind
  BY <1>1, Finished DEF Inv
<1>4. CASE n.begin < next
  BY <1>1, <1>2, <1>4 DEF Inv, BridgeOK, Spent
<1>5. QED
  BY <1>1, <1>2, <1>3, <1>4

\* A chain starts with the one marker that precedes nothing.
LEMMA EnterChainKeeps ==
    ASSUME Inv, EnterChain
    PROVE  Inv'
<1> USE DEF Inv
<1>1. next \in 1 .. Len(events) /\ next' = next /\ next # 0 /\ next \in Nat
      /\ events[next].event = "enter" /\ next \notin spent
      /\ forward_parents = <<>> /\ AtEnter
      /\ UNCHANGED <<parser, nodes, parents, children, token_idx, spent, made,
                     panicked>>
  BY Fields DEF EnterChain, AtEnter, AtEvent, Here
<1>2. PICK n \in nodes : n.at = next /\ n.begin = next /\ events[next].kind = n.kind
  BY <1>1, HeadHere
<1>3. /\ forward_parents' = <<Link(next)>> /\ fp' = events[next].forward
      /\ Link(next).marker = next /\ Link(next).kind = n.kind
      /\ Link(next) \in LinkType /\ fp' \in Nat
  <2>1. events[next].forward \in Nat /\ n.kind \in Kind
    BY <1>1, Fields, EnterFields
  <2>2. QED
    BY <1>1, <1>2, <2>1 DEF EnterChain, Here, Link, LinkType
<1>4. Len(forward_parents') = 1 /\ forward_parents'[1] = Link(next)
      /\ forward_parents' # <<>> /\ forward_parents' \in Seq(LinkType)
  BY <1>3
<1>5. Nested' /\ Reached' /\ Joined' /\ Seamless' /\ OneRoot' /\ NodesAsMarked'
  <2>1. events' = events /\ \A m : Marked(m)' = Marked(m)
    BY <1>1, Carried
  <2>2. Nested' /\ Reached'
    BY <1>1, <2>1 DEF BridgeOK, Nested, Open, Reached, Reach
  <2>3. Joined'
    BY <1>1, <2>1 DEF BridgeOK, Joined, Cut, IsToken, Consumed
  <2>4. Seamless' /\ OneRoot'
    BY <1>1, <2>1 DEF BridgeOK, Seamless, OneRoot, Built, End
  <2>5. NodesAsMarked'
    BY <1>1, <2>1 DEF BridgeOK, NodesAsMarked
  <2>6. QED
    BY <2>2, <2>3, <2>4, <2>5
<1>6. events' = events
  BY <1>1, Carried
<1>7. Walked'
  <2>1. \A m \in nodes : m.begin = next /\ m.at <= next => m.at = next
    BY <1>1, Finished
  <2>2. QED
    BY <1>1, <1>2, <1>3, <1>4, <1>6, <2>1 DEF Walked
<1>8. Spent'
  <2>1. \A m \in nodes : InChain(m)' <=> m.at = next
    BY <1>3, <1>4 DEF InChain
  <2>2. \A m \in nodes : ~InChain(m)
    BY <1>1 DEF InChain
  <2>3. \A m \in nodes : m.at = next => m.at = m.begin
    BY <1>2 DEF MarksOK, Single
  <2>4. QED
    BY <1>1, <2>1, <2>2, <2>3 DEF BridgeOK, Spent
<1>9. MarksOK'
  BY <1>1, MarksCarried
<1>10. TypeOK'
  BY <1>1, <1>3, <1>4 DEF TypeOK
<1>11. QED
  BY <1>1, <1>5, <1>6, <1>7, <1>8, <1>9, <1>10 DEF BridgeOK

\* The next link is an Enter event that is in no chain yet.
LEMMA FollowChainKeeps ==
    ASSUME Inv, FollowChain
    PROVE  Inv'
<1> USE DEF Inv
<1> DEFINE K == Len(forward_parents)
<1>1. next \in 1 .. Len(events) /\ next' = next /\ next # 0 /\ next \in Nat /\ fp # 0
      /\ UNCHANGED <<parser, nodes, next, parents, children, token_idx, made>>
  BY Fields DEF FollowChain, AtEvent
<1>2. /\ forward_parents # <<>> /\ K \in Nat /\ K >= 1
      /\ forward_parents \in Seq(LinkType)
      /\ events[next].event = "enter" /\ next \notin spent
  BY <1>1 DEF BridgeOK, Walked, TypeOK
<1>3. PICK m \in nodes : forward_parents[K].marker = m.at /\ m.begin = next
  BY <1>1, <1>2 DEF BridgeOK, Walked
<1>4. /\ fp = events[m.at].forward
      /\ \A n \in nodes : n.begin = next /\ n.at <= m.at => InChain(n)
      /\ \A i, j \in 1 .. K :
            i < j => forward_parents[i].marker < forward_parents[j].marker
  BY <1>1, <1>2, <1>3 DEF BridgeOK, Walked, InChain
<1>5. FollowedBy(m.at, next, fp)
  BY <1>3, <1>4 DEF MarksOK, Chained
<1>6. PICK o \in nodes : o.at = fp /\ o.begin = next
  BY <1>1, <1>5 DEF FollowedBy
<1>7. /\ m.at < fp /\ fp \in Nat
      /\ \A n \in nodes : n.begin = next => n.at <= m.at \/ n.at >= fp
  BY <1>1, <1>5, <1>6, Fields DEF FollowedBy
<1>8. /\ o.at \in 1 .. Len(events) /\ events[fp].event = "enter"
      /\ events[fp].kind = o.kind /\ next <= m.at
  BY <1>1, <1>3, <1>6, Finished
<1>9. \A i \in 1 .. K : forward_parents[i].marker <= m.at
  <2>1. ASSUME NEW i \in 1 .. K PROVE forward_parents[i].marker <= m.at
    <3>1. CASE i = K
      BY <1>3, <3>1, Fields
    <3>2. CASE i < K
      <4>1. forward_parents[i] \in LinkType
        BY <1>2
      <4>2. forward_parents[i].marker < forward_parents[K].marker
        BY <1>2, <1>4, <3>2
      <4>3. QED
        BY <1>3, <4>1, <4>2, Fields DEF LinkType
    <3>3. QED
      BY <1>2, <3>1, <3>2
  <2>2. QED
    BY <2>1
<1>10. \A n \in nodes : InChain(n) => n.at <= m.at
  BY <1>9 DEF InChain
<1>11. fp \notin spent
  <2>1. SUFFICES ASSUME fp \in spent PROVE FALSE
    OBVIOUS
  <2>2. PICK n \in nodes : n.at = fp /\ (n.begin < next \/ InChain(n))
    BY <1>1, <1>7, <2>1 DEF BridgeOK, Spent
  <2>3. n = o
    BY <1>6, <2>2 DEF MarksOK, Single
  <2>4. QED
    BY <1>1, <1>6, <1>7, <1>10, <2>2, <2>3, Fields
<1>12. /\ forward_parents' = Append(forward_parents, Link(fp))
       /\ fp' = events[fp].forward /\ spent' = spent \cup {fp}
       /\ panicked' = panicked
       /\ Link(fp).marker = fp /\ Link(fp).kind = o.kind /\ Link(fp) \in LinkType
       /\ fp' \in Nat
  <2>1. events[fp].forward \in Nat /\ o.kind \in Kind
    BY <1>6, <1>8, Fields, EnterFields
  <2>2. QED
    BY <1>7, <1>8, <1>11, <2>1 DEF FollowChain, Link, LinkType
<1>13. /\ Len(forward_parents') = K + 1 /\ forward_parents' \in Seq(LinkType)
       /\ \A i \in 1 .. K : forward_parents'[i] = forward_parents[i]
       /\ forward_parents'[K + 1] = Link(fp) /\ forward_parents' # <<>>
  BY <1>2, <1>12
<1>14. events' = events
  BY <1>1, Carried
<1>15. Nested' /\ Reached' /\ Joined' /\ Seamless' /\ OneRoot' /\ NodesAsMarked'
  <2>1. \A n : Marked(n)' = Marked(n)
    BY <1>1, Carried
  <2>2. Nested' /\ Reached'
    BY <1>1, <1>14 DEF BridgeOK, Nested, Open, Reached, Reach
  <2>3. Joined'
    BY <1>1, <1>14 DEF BridgeOK, Joined, Cut, IsToken, Consumed
  <2>4. Seamless' /\ OneRoot'
    BY <1>1, <1>14 DEF BridgeOK, Seamless, OneRoot, Built, End
  <2>5. NodesAsMarked'
    BY <1>1, <2>1 DEF BridgeOK, NodesAsMarked
  <2>6. QED
    BY <2>2, <2>3, <2>4, <2>5
<1>16. \A n \in nodes : InChain(n)' <=> InChain(n) \/ n = o
  <2>1. \A n \in nodes : n.at = fp <=> n = o
    BY <1>6 DEF MarksOK, Single
  <2>2. QED
    BY <1>2, <1>12, <1>13, <2>1 DEF InChain
<1>17. Walked'
  <2>1. next \notin spent'
    BY <1>1, <1>2, <1>7, <1>8, <1>12, Fields
  <2>2. ASSUME NEW i \in 1 .. K + 1
        PROVE  \E n \in nodes : /\ forward_parents'[i].marker = n.at
                                /\ forward_parents'[i].kind = n.kind /\ n.begin = next
    <3>1. CASE i = K + 1
      BY <1>6, <1>12, <1>13, <3>1
    <3>2. CASE i \in 1 .. K
      BY <1>1, <1>2, <1>13, <3>2 DEF BridgeOK, Walked
    <3>3. QED
      BY <1>2, <3>1, <3>2
  <2>3. ASSUME NEW i \in 1 .. K + 1, NEW j \in 1 .. K + 1, i < j
        PROVE  forward_parents'[i].marker < forward_parents'[j].marker
    <3>1. i \in 1 .. K
      BY <1>2, <2>3
    <3>2. CASE j = K + 1
      <4>1. forward_parents[i] \in LinkType
        BY <1>2, <3>1
      <4>2. forward_parents[i].marker \in Nat
        BY <4>1 DEF LinkType
      <4>3. QED
        BY <1>7, <1>9, <1>12, <1>13, <3>1, <3>2, <4>2, Fields
    <3>3. CASE j \in 1 .. K
      BY <1>4, <1>13, <2>3, <3>1, <3>3
    <3>4. QED
      BY <1>2, <3>2, <3>3
  <2>4. ASSUME NEW n \in nodes, n.begin = next, n.at <= fp
        PROVE  InChain(n)'
    <3>1. n.at <= m.at \/ n.at = o.at
      BY <1>6, <1>7, <2>4, Fields
    <3>2. QED
      BY <1>4, <1>16, <2>4, <3>1 DEF MarksOK, Single
  <2>5. forward_parents'[K + 1].marker = fp
    BY <1>12, <1>13
  <2>6. QED
    BY <1>1, <1>2, <1>12, <1>13, <1>14, <2>1, <2>2, <2>3, <2>4, <2>5
       DEF Walked, InChain
<1>18. Spent'
  <2>1. o.at # o.begin
    BY <1>6, <1>7, <1>8, Fields
  <2>2. ASSUME NEW i \in Nat
        PROVE  i \in spent' <=>
                  \E n \in nodes : /\ n.at = i /\ n.at # n.begin
                                   /\ n.begin < next \/ InChain(n)'
    <3>1. i \in spent' <=> i \in spent \/ i = o.at
      BY <1>6, <1>12
    <3>2. i \in spent <=> \E n \in nodes : /\ n.at = i /\ n.at # n.begin
                                           /\ n.begin < next \/ InChain(n)
      BY <1>1 DEF BridgeOK, Spent
    <3>3. QED
      BY <1>16, <2>1, <3>1, <3>2
  <2>3. QED
    BY <1>1, <2>2 DEF Spent
<1>19. MarksOK'
  BY <1>1, MarksCarried
<1>20. TypeOK'
  BY <1>1, <1>7, <1>12, <1>13 DEF TypeOK
<1>21. QED
  BY <1>1, <1>14, <1>15, <1>17, <1>18, <1>19, <1>20 DEF BridgeOK

\* The links are to the nodes that begin here, the innermost first, and the step
\* starts them all.
OpensHere(links) ==
    /\ links \in Seq(LinkType) /\ links # <<>>
    /\ next \in 1 .. Len(events) /\ events[next].event = "enter"
    /\ \A i \in 1 .. Len(links) : \E n \in nodes :
          /\ links[i].marker = n.at /\ links[i].kind = n.kind
          /\ n.begin = next
    /\ \A i, j \in 1 .. Len(links) : i < j => links[i].marker < links[j].marker
    /\ \A n \in nodes : n.begin = next =>
          \E i \in 1 .. Len(links) : links[i].marker = n.at
    /\ \A i \in Nat : i \in spent <=>
          \E n \in nodes : n.at = i /\ n.at # n.begin /\ n.begin <= next
    /\ parents' = parents \o Opened(links)
    /\ next' = next + 1 /\ forward_parents' = <<>> /\ fp' = 0
    /\ UNCHANGED <<parser, nodes, children, token_idx, spent, made, panicked>>

\* The nodes that begin here are within those open, and each within the next.
LEMMA OpenKeeps ==
    ASSUME Inv, NEW links, OpensHere(links)
    PROVE  Inv'
<1> DEFINE T == Len(parents)
           K == Len(links)
           C == Len(children)
           opened == Opened(links)
<1>1. TypeOK /\ MarksOK /\ BridgeOK
  BY DEF Inv
<1>2. /\ links \in Seq(LinkType) /\ links # <<>>
      /\ next \in 1 .. Len(events) /\ events[next].event = "enter"
      /\ next' = next + 1 /\ forward_parents' = <<>> /\ fp' = 0
      /\ UNCHANGED <<parser, nodes, children, token_idx, spent, made, panicked>>
  BY DEF OpensHere
<1>3. \A i \in 1 .. K : \E n \in nodes :
         /\ links[i].marker = n.at /\ links[i].kind = n.kind
         /\ n.begin = next
  BY DEF OpensHere
<1>4. \A i, j \in 1 .. K : i < j => links[i].marker < links[j].marker
  BY DEF OpensHere
<1>5. \A n \in nodes : n.begin = next =>
         \E i \in 1 .. K : links[i].marker = n.at
  BY DEF OpensHere
<1>6. /\ next # 0 /\ next' # 0 /\ next \in Nat /\ events' = events
      /\ T \in Nat /\ K \in Nat /\ C \in Nat /\ K >= 1
  BY <1>1, <1>2, Fields, Carried DEF TypeOK
<1>7. /\ Nested /\ Reached /\ Joined /\ Seamless /\ OneRoot /\ NodesAsMarked
      /\ Single /\ Laminar /\ TokensInOrder
  BY <1>1, <1>6 DEF BridgeOK, MarksOK
<1>8. /\ opened \in Seq(Parent) /\ Len(opened) = K
      /\ \A i \in 1 .. K : /\ opened[i].marker = links[K + 1 - i].marker
                           /\ opened[i].kind = links[K + 1 - i].kind
                           /\ opened[i].first = C
  <2>1. \A i \in 1 .. K : links[K + 1 - i] \in LinkType
    BY <1>2, <1>6
  <2>2. opened = [i \in 1 .. K |-> [kind |-> links[K + 1 - i].kind,
                                    marker |-> links[K + 1 - i].marker, first |-> C]]
    BY DEF Opened
  <2> HIDE DEF opened
  <2>3. \A i \in 1 .. K : opened[i] \in Parent
    BY <1>6, <2>1, <2>2 DEF LinkType, Parent
  <2>4. opened \in Seq(Parent) /\ Len(opened) = K
    BY <1>6, <2>2, <2>3, IsASeq
  <2>5. QED
    BY <2>2, <2>4
<1> HIDE DEF opened
<1>9. /\ parents \in Seq(Parent)
      /\ parents' \in Seq(Parent)
      /\ Len(parents') = T + K
      /\ \A i \in 1 .. T : parents'[i] = parents[i]
      /\ \A i \in 1 .. K : parents'[T + i] = opened[i]
  <2>1. parents \in Seq(Parent)
    BY <1>1 DEF TypeOK
  <2>2. parents' = parents \o opened
    BY DEF OpensHere, opened
  <2>3. /\ parents \o opened \in Seq(Parent)
        /\ Len(parents \o opened) = T + K
        /\ \A i \in 1 .. T : (parents \o opened)[i] = parents[i]
        /\ \A i \in 1 .. K : (parents \o opened)[T + i] = opened[i]
    <3>1. opened \in Seq(Parent) /\ Len(opened) = K
      BY <1>8
    <3>2. /\ parents \o opened \in Seq(Parent)
          /\ Len(parents \o opened) = Len(parents) + Len(opened)
          /\ \A i \in 1 .. Len(parents) : (parents \o opened)[i] = parents[i]
          /\ \A i \in 1 .. Len(opened) :
                (parents \o opened)[Len(parents) + i] = opened[i]
      BY <2>1, <3>1
    <3>3. QED
      BY <3>1, <3>2, Zenon
  <2>4. QED
    BY <2>1, <2>2, <2>3
<1>10. \A n \in nodes : /\ n.begin \in Nat /\ n.exit \in Nat /\ n.at \in Nat
                       /\ n.begin <= n.at /\ n.at < n.exit /\ n.exit # next
  BY <1>1, <1>2, <1>6, Finished
<1>11. \A n \in nodes : Open(n)' <=> Open(n) \/ n.begin = next
  BY <1>2, <1>6, <1>10 DEF Open
<1>12. /\ \A i \in 1 .. T : \E n \in nodes :
             parents[i].marker = n.at /\ parents[i].kind = n.kind /\ Open(n)
       /\ \A n \in nodes : Open(n) => \E i \in 1 .. T : parents[i].marker = n.at
       /\ \A i, j \in 1 .. T : \A m, n \in nodes :
             i < j /\ parents[i].marker = m.at /\ parents[j].marker = n.at
               => n.exit < m.exit
  BY <1>7 DEF Nested
<1>13. Nested'
  <2>1. ASSUME NEW i \in 1 .. T + K
        PROVE  i \in 1 .. T \/ \E k \in 1 .. K : i = T + k
    <3>1. i \in 1 .. T \/ (i - T \in 1 .. K /\ i = T + (i - T))
      BY <1>6
    <3>2. QED
      BY <3>1
  <2>2. ASSUME NEW k \in 1 .. K
        PROVE  \E n \in nodes : /\ parents'[T + k].marker = n.at
                                /\ parents'[T + k].kind = n.kind /\ n.begin = next
    <3>1. K + 1 - k \in 1 .. K
      BY <1>6
    <3>2. QED
      BY <1>3, <1>8, <1>9, <3>1
  <2>3. ASSUME NEW i \in 1 .. T + K
        PROVE  \E n \in nodes : /\ parents'[i].marker = n.at
                                /\ parents'[i].kind = n.kind /\ Open(n)'
    <3>1. CASE i \in 1 .. T
      <4>1. PICK n \in nodes :
               parents[i].marker = n.at /\ parents[i].kind = n.kind /\ Open(n)
        BY <1>12, <3>1
      <4>2. QED
        BY <1>9, <1>11, <3>1, <4>1
    <3>2. CASE \E k \in 1 .. K : i = T + k
      BY <1>11, <2>2, <3>2
    <3>3. QED
      BY <2>1, <3>1, <3>2
  <2>4. ASSUME NEW n \in nodes, Open(n)'
        PROVE  \E i \in 1 .. T + K : parents'[i].marker = n.at
    <3>1. CASE Open(n)
      <4>1. PICK i \in 1 .. T : parents[i].marker = n.at
        BY <1>12, <3>1
      <4>2. i \in 1 .. T + K
        BY <1>6
      <4>3. QED
        BY <1>9, <4>1, <4>2
    <3>2. CASE n.begin = next
      <4>1. PICK i \in 1 .. K : links[i].marker = n.at
        BY <1>5, <3>2
      <4>2. K + 1 - i \in 1 .. K /\ K + 1 - (K + 1 - i) = i
        BY <1>6
      <4>3. opened[K + 1 - i].marker = n.at
        BY <1>8, <4>1, <4>2
      <4>4. T + (K + 1 - i) \in 1 .. T + K
        BY <1>6, <4>2
      <4>5. QED
        BY <1>9, <4>2, <4>3, <4>4
    <3>3. QED
      BY <1>11, <2>4, <3>1, <3>2
  <2>5. ASSUME NEW i \in 1 .. T + K, NEW j \in 1 .. T + K,
               NEW m \in nodes, NEW n \in nodes,
               i < j, parents'[i].marker = m.at, parents'[j].marker = n.at
        PROVE  n.exit < m.exit
    <3>1. CASE i \in 1 .. T /\ j \in 1 .. T
      BY <1>9, <1>12, <2>5, <3>1
    <3>2. CASE i \in 1 .. T /\ \E k \in 1 .. K : j = T + k
      <4>1. Open(m)
        <5>1. PICK o \in nodes : parents[i].marker = o.at /\ Open(o)
          BY <1>12, <3>2
        <5>2. o = m
          BY <1>7, <1>9, <2>5, <3>2, <5>1 DEF Single
        <5>3. QED
          BY <5>1, <5>2
      <4>2. n.begin = next
        BY <1>7, <2>2, <2>5, <3>2 DEF Single
      <4>3. m.exit # 0 /\ ~(m.exit < n.begin) /\ m.begin < n.begin
        BY <1>6, <1>10, <4>1, <4>2 DEF Open
      <4>4. QED
        BY <1>7, <4>3 DEF Laminar
    <3>3. CASE \E k, l \in 1 .. K : i = T + k /\ j = T + l
      <4>1. PICK k \in 1 .. K, l \in 1 .. K : i = T + k /\ j = T + l
        BY <3>3
      <4>2. K + 1 - l \in 1 .. K /\ K + 1 - k \in 1 .. K /\ K + 1 - l < K + 1 - k
        BY <1>6, <2>5, <4>1
      <4>3. n.at < m.at
        <5>1. links[K + 1 - l].marker < links[K + 1 - k].marker
          BY <1>4, <4>2
        <5>2. parents'[T + k].marker = m.at /\ parents'[T + l].marker = n.at
          BY <2>5, <4>1
        <5>3. QED
          BY <1>8, <1>9, <5>1, <5>2
      <4>4. m.begin = next /\ n.begin = next
        BY <1>7, <2>2, <2>5, <4>1 DEF Single
      <4>5. n.exit < m.at
        BY <1>7, <4>3, <4>4 DEF Laminar
      <4>6. QED
        BY <1>10, <4>5
    <3>4. ~\E k \in 1 .. K : i = T + k /\ j \in 1 .. T
      BY <1>6, <2>5
    <3>5. QED
      BY <2>1, <3>1, <3>2, <3>3, <3>4
  <2>6. QED
    BY <1>2, <1>9, <2>3, <2>4, <2>5 DEF Nested
<1>14. Cut(next, token_idx)
  BY <1>1, <1>2, <1>7, Fields DEF Joined
<1>15. \A n \in nodes : n.begin = next => n.from = token_idx
  <2>1. ASSUME NEW n \in nodes, n.begin = next PROVE n.from = token_idx
    <3>1. Cut(next, n.from)
      BY <1>1, <1>6, <2>1, Finished
    <3>2. QED
      BY <1>1, <1>7, <1>14, <3>1, CutUnique
  <2>2. QED
    BY <2>1
<1>16. \A k \in 1 .. K : /\ parents'[T + k].first = C
                         /\ \E n \in nodes : /\ parents'[T + k].marker = n.at
                                             /\ n.begin = next
  <2>1. ASSUME NEW k \in 1 .. K
        PROVE  \E n \in nodes : parents'[T + k].marker = n.at /\ n.begin = next
    <3>1. K + 1 - k \in 1 .. K
      BY <1>6
    <3>2. QED
      BY <1>3, <1>8, <1>9, <3>1
  <2>2. QED
    BY <1>8, <1>9, <2>1
<1>17. \A i \in 1 .. T + K : i \in 1 .. T \/ \E k \in 1 .. K : i = T + k
  <2>1. ASSUME NEW i \in 1 .. T + K
        PROVE  i \in 1 .. T \/ \E k \in 1 .. K : i = T + k
    <3>1. i \in 1 .. T \/ (i - T \in 1 .. K /\ i = T + (i - T))
      BY <1>6
    <3>2. QED
      BY <3>1
  <2>2. QED
    BY <2>1
<1>18. /\ \A i \in 1 .. T : parents[i].first \in 0 .. C
       /\ \A i, j \in 1 .. T : i < j => parents[i].first <= parents[j].first
       /\ \A i \in 1 .. T : \A n \in nodes :
             parents[i].marker = n.at => Reach(parents[i].first) = n.from
       /\ parents # <<>> => parents[1].first = 0
       /\ next = 1 => children = <<>>
  BY <1>7 DEF Reached
<1>19. Reached'
  <2>1. \A i \in 1 .. T + K : parents'[i].first \in 0 .. C
    <3>1. ASSUME NEW i \in 1 .. T + K PROVE parents'[i].first \in 0 .. C
      <4>1. CASE i \in 1 .. T
        BY <1>9, <1>18, <4>1
      <4>2. CASE \E k \in 1 .. K : i = T + k
        BY <1>6, <1>16, <4>2
      <4>3. QED
        BY <1>17, <4>1, <4>2
    <3>2. QED
      BY <3>1
  <2>2. ASSUME NEW i \in 1 .. T + K, NEW j \in 1 .. T + K, i < j
        PROVE  parents'[i].first <= parents'[j].first
    <3>1. CASE j \in 1 .. T
      <4>1. i \in 1 .. T
        BY <1>6, <2>2, <3>1
      <4>2. QED
        BY <1>9, <1>18, <2>2, <3>1, <4>1
    <3>2. CASE \E k \in 1 .. K : j = T + k
      BY <1>6, <1>16, <2>1, <3>2
    <3>3. QED
      BY <1>17, <3>1, <3>2
  <2>3. \A f : Reach(f)' = Reach(f)
    BY <1>2 DEF Reach
  <2>4. ASSUME NEW i \in 1 .. T + K, NEW n \in nodes, parents'[i].marker = n.at
        PROVE  Reach(parents[i].first)' = n.from
    <3>1. PICK f : f = parents'[i].first
      OBVIOUS
    <3>2. Reach(f) = n.from
      <4>1. CASE i \in 1 .. T
        BY <1>9, <1>18, <2>4, <3>1, <4>1
      <4>2. CASE \E k \in 1 .. K : i = T + k
        <5>1. f = C /\ n.begin = next
          BY <1>7, <1>16, <2>4, <3>1, <4>2 DEF Single
        <5>2. QED
          BY <1>15, <5>1 DEF Reach
      <4>3. QED
        BY <1>17, <4>1, <4>2
    <3>3. QED
      BY <2>3, <3>1, <3>2 DEF Reach
  <2>5. parents'[1].first = 0
    <3>1. CASE T = 0
      <4>1. next = 1
        <5>1. PICK r \in nodes : r.at = 1
          BY <1>1, <1>6, Finished
        <5>2. r.begin = 1 /\ r.exit = Len(events)
          BY <1>1, <1>6, <5>1, Finished
        <5>3. ~Open(r)
          BY <1>12, <3>1, <5>1
        <5>4. QED
          BY <1>2, <1>6, <5>2, <5>3 DEF Open
      <4>2. C = 0
        BY <1>1, <1>18, <4>1 DEF TypeOK
      <4>3. QED
        BY <1>6, <1>16, <3>1, <4>2
    <3>2. CASE T # 0
      <4>1. parents # <<>> /\ 1 \in 1 .. T
        BY <1>6, <3>2
      <4>2. QED
        BY <1>9, <1>18, <4>1
    <3>3. QED
      BY <3>1, <3>2
  <2>6. next' # 1
    BY <1>2, <1>6
  <2>7. QED
    BY <1>2, <1>9, <2>1, <2>2, <2>4, <2>5, <2>6 DEF Reached
<1>20. next # Len(events)
  BY <1>1, <1>2, <1>6, LastIsExit
<1>21. Joined'
  <2>1. Cut(next + 1, token_idx)
    BY <1>1, <1>2, <1>14, CutNext DEF IsToken
  <2>2. PICK i : i = next + 1
    OBVIOUS
  <2>3. PICK c : c = token_idx
    OBVIOUS
  <2>4. Cut(i, c)'
    BY <1>2, <2>1, <2>2, <2>3, Carried
  <2>5. Cut(next, token_idx)'
    BY <1>2, <2>2, <2>3, <2>4 DEF Cut
  <2>6. children # <<>> => children[Len(children)].to = token_idx
    BY <1>1, <1>2, <1>7, Fields DEF Joined
  <2>7. QED
    BY <1>2, <1>6, <2>5, <2>6 DEF Joined
<1>22. Walked'
  BY <1>2 DEF Walked
<1>23. Spent'
  <2>1. \A n \in nodes : n.begin <= next <=> n.begin < next + 1
    BY <1>6, <1>10
  <2>2. \A n \in nodes : ~InChain(n)'
    BY <1>2 DEF InChain
  <2>3. QED
    BY <1>2, <2>1, <2>2 DEF Spent, OpensHere
<1>24. NodesAsMarked'
  <2>1. {n \in nodes : n.exit \in 1 .. next + 1 - 1}
          = {n \in nodes : n.exit \in 1 .. next - 1}
    BY <1>6, <1>10
  <2>2. \A n : Marked(n)' = Marked(n)
    BY <1>2, Carried
  <2>3. made = {Marked(n) : n \in {n \in nodes : n.exit \in 1 .. next - 1}}
    BY <1>7 DEF NodesAsMarked
  <2>4. QED
    BY <1>2, <2>1, <2>2, <2>3 DEF NodesAsMarked
<1>25. Seamless' /\ OneRoot' /\ next' \in 1 .. Len(events') + 1
  BY <1>1, <1>2, <1>7, <1>6, <1>20, Fields DEF Seamless, OneRoot, Built
<1>26. MarksOK'
  BY <1>1, <1>2, <1>6, MarksCarried
<1>27. TypeOK'
  BY <1>1, <1>2, <1>6, <1>9 DEF TypeOK
<1>28. QED
  BY <1>6, <1>13, <1>19, <1>21, <1>22, <1>23, <1>24, <1>25, <1>26, <1>27
     DEF Inv, BridgeOK

\* A marker with no forward parent is the only one to begin there.
LEMMA EnterKeeps ==
    ASSUME Inv, Enter
    PROVE  Inv'
<1> USE DEF Inv
<1> DEFINE links == <<Link(next)>>
<1>1. /\ next \in 1 .. Len(events) /\ next # 0 /\ next \in Nat /\ AtEnter
      /\ events[next].event = "enter" /\ events[next].forward = 0
      /\ forward_parents = <<>> /\ fp = 0
  BY Fields DEF Enter, AtEnter, AtEvent, Here, BridgeOK, Walked
<1>2. PICK n \in nodes : n.at = next /\ n.begin = next /\ events[next].kind = n.kind
  BY <1>1, HeadHere
<1>3. Link(next).marker = next /\ Link(next).kind = n.kind /\ Link(next) \in LinkType
  BY <1>1, <1>2, Fields DEF Link, LinkType
<1>4. \A m \in nodes : m.begin = next => m = n
  <2>1. FollowedBy(next, next, 0)
    BY <1>1, <1>2 DEF MarksOK, Chained
  <2>2. \A m \in nodes : m.begin = next => m.at <= next
    BY <2>1 DEF FollowedBy
  <2>3. QED
    BY <1>1, <1>2, <2>2, Finished DEF MarksOK, Single
<1>5. \A i \in Nat : i \in spent <=>
         \E m \in nodes : m.at = i /\ m.at # m.begin /\ m.begin <= next
  <2>1. \A m \in nodes : m.at # m.begin => (m.begin <= next <=> m.begin < next)
    BY <1>1, <1>2, <1>4, Fields
  <2>2. \A m \in nodes : ~InChain(m)
    BY <1>1 DEF InChain
  <2>3. QED
    BY <1>1, <2>1, <2>2 DEF BridgeOK, Spent
<1>6. /\ links \in Seq(LinkType) /\ links # <<>> /\ Len(links) = 1
      /\ links[1] = Link(next)
  BY <1>3
<1>7. /\ parents' = parents \o Opened(links) /\ next' = next + 1
      /\ forward_parents' = <<>> /\ fp' = 0
      /\ UNCHANGED <<parser, nodes, children, token_idx, spent, made, panicked>>
  BY <1>1 DEF Enter
<1> HIDE DEF links
<1>8. \A i \in 1 .. Len(links) : \E m \in nodes :
         /\ links[i].marker = m.at /\ links[i].kind = m.kind /\ m.begin = next
  BY <1>2, <1>3, <1>6
<1>9. \A i, j \in 1 .. Len(links) : i < j => links[i].marker < links[j].marker
  BY <1>6
<1>10. \A m \in nodes : m.begin = next =>
          \E i \in 1 .. Len(links) : links[i].marker = m.at
  BY <1>2, <1>3, <1>4, <1>6
<1>11. QED
  <2>1. OpensHere(links)
    BY <1>1, <1>5, <1>6, <1>7, <1>8, <1>9, <1>10 DEF OpensHere
  <2>2. QED
    BY <2>1, OpenKeeps

\* A chain at its end holds all nodes that begin there.
LEMMA OpenChainKeeps ==
    ASSUME Inv, OpenChain
    PROVE  Inv'
<1> USE DEF Inv
<1> DEFINE K == Len(forward_parents)
<1>1. /\ next \in 1 .. Len(events) /\ next # 0 /\ next \in Nat
      /\ forward_parents # <<>> /\ fp = 0
      /\ forward_parents \in Seq(LinkType) /\ K \in Nat /\ K >= 1
  BY Fields DEF OpenChain, AtEvent, TypeOK
<1>2. /\ events[next].event = "enter"
      /\ \A i \in 1 .. K : \E n \in nodes :
            /\ forward_parents[i].marker = n.at /\ forward_parents[i].kind = n.kind
            /\ n.begin = next
      /\ \A i, j \in 1 .. K :
            i < j => forward_parents[i].marker < forward_parents[j].marker
  BY <1>1 DEF BridgeOK, Walked
<1>3. PICK m \in nodes : forward_parents[K].marker = m.at /\ m.begin = next
  BY <1>1, <1>2
<1>4. /\ 0 = events[m.at].forward
      /\ \A n \in nodes : n.begin = next /\ n.at <= m.at => InChain(n)
  BY <1>1, <1>3 DEF BridgeOK, Walked, InChain
<1>5. \A n \in nodes : n.begin = next => InChain(n)
  <2>1. FollowedBy(m.at, next, 0)
    BY <1>3, <1>4 DEF MarksOK, Chained
  <2>2. QED
    BY <1>4, <2>1 DEF FollowedBy
<1>6. \A n \in nodes : InChain(n) => n.begin = next
  BY <1>2 DEF InChain, MarksOK, Single
<1>7. \A i \in Nat : i \in spent <=>
         \E n \in nodes : n.at = i /\ n.at # n.begin /\ n.begin <= next
  <2>1. \A n \in nodes : n.begin < next \/ InChain(n) <=> n.begin <= next
    BY <1>1, <1>5, <1>6, Fields
  <2>2. QED
    BY <1>1, <2>1 DEF BridgeOK, Spent
<1>8. /\ parents' = parents \o Opened(forward_parents) /\ next' = next + 1
      /\ forward_parents' = <<>> /\ fp' = 0
      /\ UNCHANGED <<parser, nodes, children, token_idx, spent, made, panicked>>
  BY <1>1 DEF OpenChain
<1>9. QED
  <2>1. OpensHere(forward_parents)
    BY <1>1, <1>2, <1>5, <1>7, <1>8 DEF OpensHere, InChain
  <2>2. QED
    BY <2>1, OpenKeeps

\* What the children after the first f cover.
LEMMA ExtentOf ==
    ASSUME token_idx \in Nat, NEW s \in Seq(Child), NEW f \in 0 .. Len(s)
    PROVE  LET node == Extent(SubSeq(s, f + 1, Len(s)))
           IN  /\ node \in Child
               /\ node.from = IF f = Len(s) THEN token_idx ELSE s[f + 1].from
               /\ node.to = IF f = Len(s) THEN token_idx ELSE s[Len(s)].to
<1> DEFINE kids == SubSeq(s, f + 1, Len(s))
<1>1. Len(s) \in Nat /\ f \in Nat /\ \A i \in 1 .. Len(s) : s[i] \in Child
  OBVIOUS
<1>2. CASE f = Len(s)
  <2>1. kids = <<>>
    BY <1>1, <1>2
  <2>2. Extent(kids) = [from |-> token_idx, to |-> token_idx]
    BY <2>1 DEF Extent
  <2>3. QED
    BY <1>2, <2>2 DEF Child
<1>3. CASE f # Len(s)
  <2>1. Len(kids) = Len(s) - f /\ Len(kids) >= 1 /\ kids # <<>>
        /\ kids[1] = s[f + 1] /\ kids[Len(kids)] = s[Len(s)]
        /\ s[f + 1] \in Child /\ s[Len(s)] \in Child
    <3>1. f + 1 \in 1 .. Len(s) /\ Len(s) \in 1 .. Len(s)
      BY <1>1, <1>3
    <3>2. Len(kids) = Len(s) - f /\ \A i \in 1 .. Len(s) - f : kids[i] = s[f + i]
      BY <1>1, <3>1
    <3>3. 1 \in 1 .. Len(s) - f /\ Len(s) - f \in 1 .. Len(s) - f
          /\ f + (Len(s) - f) = Len(s)
      BY <1>1, <3>1
    <3> HIDE DEF kids
    <3>4. kids # <<>>
      BY <3>2, <3>3
    <3>5. QED
      BY <1>1, <3>1, <3>2, <3>3, <3>4
  <2>2. Extent(kids) = [from |-> s[f + 1].from, to |-> s[Len(s)].to]
    BY <2>1 DEF Extent
  <2>3. QED
    BY <1>3, <2>1, <2>2 DEF Child
<1>4. QED
  BY <1>2, <1>3

\* The innermost parent is the node whose Exit this is: it is built as marked.
LEMMA ExitKeeps ==
    ASSUME Inv, Exit
    PROVE  Inv'
<1> DEFINE T == Len(parents)
           C == Len(children)
           top == parents[T]
           under == SubSeq(parents, 1, T - 1)
           all == AllChildren
           node == Extent(SubSeq(all, top.first + 1, Len(all)))
           kept == SubSeq(all, 1, top.first)
           within == {under[i].marker : i \in DOMAIN under}
<1>1. /\ TypeOK /\ MarksOK /\ BridgeOK
      /\ next \in 1 .. Len(events) /\ events[next].event = "exit"
      /\ next' = next + 1 /\ next # 0 /\ next' # 0 /\ next \in Nat
      /\ UNCHANGED <<parser, nodes, token_idx, forward_parents, fp, spent>>
      /\ events' = events
  BY Fields, Carried DEF Exit, AtEvent, Here, Inv
<1>2. /\ Nested /\ Reached /\ Joined /\ Seamless /\ NodesAsMarked /\ Spent /\ Walked
      /\ Single /\ Laminar /\ TokensInOrder /\ Covered
  BY <1>1 DEF BridgeOK, MarksOK
<1>3. /\ T \in Nat /\ C \in Nat /\ parents \in Seq(Parent) /\ children \in Seq(Child)
      /\ token_idx \in Nat /\ T = Len(parents) /\ C = Len(children)
  BY <1>1 DEF TypeOK
<1>4. forward_parents = <<>>
  BY <1>1, NotWalking
<1> HIDE DEF T, C, under, all, node, kept, within
<1>5. PICK n \in nodes : n.exit = next
  BY <1>1, <1>2 DEF Covered
<1>6. \A m \in nodes : /\ m.at \in Nat /\ m.begin \in Nat /\ m.exit \in Nat
                       /\ m.begin <= m.at /\ m.at < m.exit /\ m.begin # next
                       /\ m.at >= 1 /\ m.begin >= 1
                       /\ m.exit = next => m = n
  BY <1>1, <1>2, <1>5, Finished DEF Single
<1>7. /\ \A i \in 1 .. T : \E m \in nodes :
            parents[i].marker = m.at /\ parents[i].kind = m.kind /\ Open(m)
      /\ \A m \in nodes : Open(m) => \E i \in 1 .. T : parents[i].marker = m.at
      /\ \A i, j \in 1 .. T : \A m, o \in nodes :
            i < j /\ parents[i].marker = m.at /\ parents[j].marker = o.at
               => o.exit < m.exit
  BY <1>2 DEF Nested, T
<1>8. Open(n)
  BY <1>1, <1>5, <1>6 DEF Open
<1>9. T >= 1 /\ top.marker = n.at /\ top.kind = n.kind
  <2>1. PICK i \in 1 .. T : parents[i].marker = n.at
    BY <1>7, <1>8
  <2>0. T \in 1 .. T
    BY <1>3, <2>1
  <2>2. PICK m \in nodes :
           parents[T].marker = m.at /\ parents[T].kind = m.kind /\ Open(m)
    BY <1>7, <2>0
  <2>3. CASE i < T
    <3>1. m.exit < next
      BY <1>5, <1>7, <2>0, <2>1, <2>2, <2>3
    <3>2. QED
      BY <1>1, <1>6, <2>2, <3>1 DEF Open
  <2>4. CASE i = T
    BY <1>2, <1>3, <2>1, <2>2, <2>4 DEF Single
  <2>5. QED
    BY <1>3, <2>1, <2>3, <2>4
<1>10. /\ under \in Seq(Parent) /\ Len(under) = T - 1 /\ DOMAIN under = 1 .. T - 1
       /\ \A i \in 1 .. T - 1 : under[i] = parents[i] /\ i \in 1 .. T
  <2>1. T - 1 \in 0 .. Len(parents) /\ 1 \in 1 .. Len(parents)
    BY <1>3, <1>9
  <2>2. /\ SubSeq(parents, 1, T - 1) \in Seq(Parent)
        /\ Len(SubSeq(parents, 1, T - 1)) = T - 1
        /\ \A i \in 1 .. T - 1 : SubSeq(parents, 1, T - 1)[i] = parents[i]
    BY <1>3, <2>1
  <2>3. DOMAIN under = 1 .. Len(under) /\ \A i \in 1 .. T - 1 : i \in 1 .. T
    BY <1>3, <1>9, <2>2 DEF under
  <2>4. QED
    BY <2>2, <2>3 DEF under
<1>11. \A i \in 1 .. T - 1 : \E m \in nodes :
          /\ parents[i].marker = m.at /\ parents[i].kind = m.kind
          /\ Open(m) /\ next < m.exit
  <2>1. ASSUME NEW i \in 1 .. T - 1
        PROVE  \E m \in nodes :
                  /\ parents[i].marker = m.at /\ parents[i].kind = m.kind
                  /\ Open(m) /\ next < m.exit
    <3>1. PICK m \in nodes :
             parents[i].marker = m.at /\ parents[i].kind = m.kind /\ Open(m)
      BY <1>7, <1>10
    <3>2. n.exit < m.exit
      <4>1. i \in 1 .. T /\ T \in 1 .. T /\ i < T
        BY <1>3, <1>9
      <4>2. QED
        BY <1>7, <1>9, <3>1, <4>1
    <3>3. QED
      BY <1>5, <3>1, <3>2
  <2>2. QED
    BY <2>1
<1>12. \A m \in nodes : Open(m) /\ m # n =>
          \E i \in 1 .. T - 1 : parents[i].marker = m.at
  <2>1. ASSUME NEW m \in nodes, Open(m), m # n
        PROVE  \E i \in 1 .. T - 1 : parents[i].marker = m.at
    <3>1. PICK i \in 1 .. T : parents[i].marker = m.at
      BY <1>7, <2>1
    <3>2. i # T
      BY <1>2, <1>9, <2>1, <3>1 DEF Single
    <3>3. QED
      BY <1>3, <3>1, <3>2
  <2>2. QED
    BY <2>1
<1>13. \A m \in nodes : Open(m)' <=> Open(m) /\ m # n
  BY <1>1, <1>5, <1>6 DEF Open
<1>14. /\ top.first \in 0 .. C
       /\ \A i \in 1 .. T - 1 :
             parents[i].first \in 0 .. C /\ parents[i].first <= top.first
       /\ Reach(top.first) = n.from
       /\ \A i \in 1 .. T - 1 : \A m \in nodes :
             parents[i].marker = m.at => Reach(parents[i].first) = m.from
       /\ parents[1].first = 0
  <2>1. T \in 1 .. T /\ parents # <<>> /\ \A i \in 1 .. T - 1 : i \in 1 .. T /\ i < T
    BY <1>3, <1>9
  <2>2. QED
    <3>1. /\ \A i \in 1 .. T : parents[i].first \in 0 .. C
          /\ \A i, j \in 1 .. T : i < j => parents[i].first <= parents[j].first
          /\ \A i \in 1 .. T : \A m \in nodes :
                parents[i].marker = m.at => Reach(parents[i].first) = m.from
          /\ parents # <<>> => parents[1].first = 0
      BY <1>2, <1>3 DEF Reached
    <3>2. QED
      BY <1>9, <2>1, <3>1
<1>15. /\ parents' = under
       /\ children' = Append(kept, node)
       /\ made' = made \cup {[marker |-> n.at, kind |-> n.kind, from |-> node.from,
                              to |-> node.to, within |-> within]}
       /\ panicked' = panicked
  <2>1. parents # <<>>
    BY <1>3, <1>9
  <2>2. /\ parents' = under
        /\ children' = Append(kept, node)
        /\ made' = made \cup {[marker |-> top.marker, kind |-> top.kind,
                               from |-> node.from, to |-> node.to, within |-> within]}
        /\ panicked' = panicked
    BY <2>1 DEF Exit, T, under, all, node, kept, within
  <2>3. QED
    BY <1>9, <2>2
<1>16. /\ Cut(next, token_idx)
       /\ children # <<>> => children[C].to = token_idx
  BY <1>1, <1>2, <1>3, Fields DEF Joined
<1>17. within = {m.at : m \in {m \in nodes : Encloses(m, n)}}
  <2>1. ASSUME NEW i \in 1 .. T - 1
        PROVE  \E m \in nodes : Encloses(m, n) /\ m.at = under[i].marker
    <3>1. PICK m \in nodes : parents[i].marker = m.at /\ Open(m) /\ next < m.exit
      BY <1>11
    <3>2. m.begin <= n.begin
      <4>1. SUFFICES ASSUME n.begin < m.begin PROVE FALSE
        BY <1>6
      <4>2. \/ n.exit = 0 \/ n.exit < m.begin \/ m.exit < n.exit
        BY <1>2, <4>1 DEF Laminar
      <4>3. QED
        BY <1>1, <1>5, <1>6, <3>1, <4>2 DEF Open
    <3>3. QED
      BY <1>5, <1>10, <3>1, <3>2 DEF Encloses
  <2>2. ASSUME NEW m \in nodes, Encloses(m, n)
        PROVE  \E i \in 1 .. T - 1 : under[i].marker = m.at
    <3>1. Open(m) /\ m # n
      BY <1>1, <1>5, <1>6, <2>2 DEF Open, Encloses
    <3>2. QED
      BY <1>10, <1>12, <3>1
  <2>3. within = {under[i].marker : i \in 1 .. T - 1}
    BY <1>10 DEF within
  <2>4. QED
    BY <2>1, <2>2, <2>3
<1>18. /\ node \in Child /\ node.from = n.from /\ node.to = n.to
       /\ kept \in Seq(Child) /\ Len(kept) = top.first
       /\ \A i \in 1 .. top.first : kept[i] = children[i]
       /\ IF n.at = 1 THEN T = 1 ELSE T # 1 /\ node.to = token_idx
  <2>1. CASE n.at = 1
    <3>1. n.exit = Len(events) /\ n.to = End
      BY <1>1, <2>1, Finished
    <3>2. T = 1
      <4>1. SUFFICES ASSUME T # 1 PROVE FALSE
        OBVIOUS
      <4>2. 1 \in 1 .. T - 1
        <5>1. T \in Nat /\ T >= 1
          BY <1>3, <1>9
        <5>2. QED
          BY <4>1, <5>1
      <4>3. PICK m \in nodes : next < m.exit
        BY <1>11, <4>2
      <4>4. QED
        BY <1>1, <1>5, <3>1, <4>3, Finished
    <3>3. top.first = 0
      BY <1>14, <3>2
    <3>4. all = Append(children, [from |-> token_idx, to |-> End])
      BY <1>3, <3>2 DEF all, AllChildren
    <3>5. End \in Nat /\ [from |-> token_idx, to |-> End] \in Child
      BY <1>1, <1>3, Fields DEF End, Child
    <3>6. /\ all \in Seq(Child) /\ Len(all) = C + 1
          /\ \A i \in 1 .. C : all[i] = children[i]
          /\ all[C + 1].from = token_idx /\ all[C + 1].to = End
      BY <1>3, <3>4, <3>5
    <3>7. node \in Child /\ node.from = all[1].from /\ node.to = End
      <4>1. 0 \in 0 .. Len(all) /\ 0 # Len(all)
        BY <1>3, <3>6
      <4>2. node = Extent(SubSeq(all, 0 + 1, Len(all)))
        BY <3>3 DEF node
      <4>3. QED
        BY <1>3, <3>6, <4>1, <4>2, ExtentOf
    <3>8. all[1].from = Reach(0)
      BY <1>3, <3>6 DEF Reach
    <3>9. kept = <<>>
      BY <3>3, <3>6 DEF kept
    <3>10. QED
      BY <1>14, <2>1, <3>1, <3>2, <3>3, <3>7, <3>8, <3>9
  <2>2. CASE n.at # 1
    <3>1. T # 1
      <4>1. PICK r \in nodes : r.at = 1
        BY <1>1, Finished
      <4>2. r.begin = 1 /\ r.exit = Len(events) /\ r # n
        BY <1>1, <2>2, <4>1, Finished
      <4>3. n.at > 1
        BY <1>6, <2>2
      <4>4. Open(r)
        BY <1>1, <1>5, <1>6, <4>2, <4>3, Fields DEF Open
      <4>5. PICK i \in 1 .. T - 1 : parents[i].marker = r.at
        BY <1>12, <4>2, <4>4
      <4>6. QED
        <5>1. T \in Nat
          BY <1>3
        <5>2. QED
          BY <4>5, <5>1
    <3>2. all = children
      BY <1>3, <3>1 DEF all, AllChildren
    <3>3. node = Extent(SubSeq(children, top.first + 1, Len(children)))
      BY <3>2 DEF node
    <3>4. /\ node \in Child
          /\ node.from = IF top.first = C THEN token_idx
                         ELSE children[top.first + 1].from
          /\ node.to = IF top.first = C THEN token_idx ELSE children[C].to
      <4>1. PICK f \in 0 .. C : f = top.first
        BY <1>14
      <4>2. QED
        BY <1>3, <3>3, <4>1, ExtentOf
    <3>5. node.from = n.from
      BY <1>3, <1>14, <3>4 DEF Reach
    <3>6. node.to = token_idx
      BY <1>3, <1>14, <1>16, <3>4
    <3>7. n.to = token_idx
      <4>1. Cut(next, n.to)
        BY <1>1, <1>5, <2>2, Finished
      <4>2. QED
        BY <1>1, <1>2, <1>16, <4>1, CutUnique
    <3>8. /\ kept \in Seq(Child) /\ Len(kept) = top.first
          /\ \A i \in 1 .. top.first : kept[i] = children[i]
      BY <1>3, <1>14, <3>2 DEF kept
    <3>9. QED
      BY <2>2, <3>1, <3>4, <3>5, <3>6, <3>7, <3>8
  <2>3. QED
    BY <2>1, <2>2
<1>19. /\ children' \in Seq(Child) /\ Len(children') = top.first + 1
       /\ \A i \in 1 .. top.first : children'[i] = children[i]
       /\ children'[top.first + 1] = node /\ top.first \in Nat
  BY <1>3, <1>14, <1>15, <1>18
<1>20. Nested'
  <2>1. ASSUME NEW i \in 1 .. T - 1
        PROVE  \E m \in nodes : /\ parents'[i].marker = m.at
                                /\ parents'[i].kind = m.kind /\ Open(m)'
    <3>1. PICK m \in nodes : /\ parents[i].marker = m.at /\ parents[i].kind = m.kind
                             /\ Open(m) /\ next < m.exit
      BY <1>11
    <3>2. m # n
      BY <1>1, <1>5, <3>1
    <3>3. QED
      BY <1>10, <1>13, <1>15, <3>1, <3>2
  <2>2. ASSUME NEW m \in nodes, Open(m)'
        PROVE  \E i \in 1 .. T - 1 : parents'[i].marker = m.at
    BY <1>10, <1>12, <1>13, <1>15, <2>2
  <2>3. ASSUME NEW i \in 1 .. T - 1, NEW j \in 1 .. T - 1,
               NEW m \in nodes, NEW o \in nodes, i < j,
               parents'[i].marker = m.at, parents'[j].marker = o.at
        PROVE  o.exit < m.exit
    BY <1>7, <1>10, <1>15, <2>3
  <2>4. QED
    BY <1>1, <1>10, <1>15, <2>1, <2>2, <2>3 DEF Nested
<1>21. Reached'
  <2>1. \A i \in 1 .. T - 1 :
           parents'[i] = parents[i] /\ parents[i].first \in 0 .. top.first
    BY <1>10, <1>14, <1>15
  <2>2. ASSUME NEW f \in 0 .. top.first PROVE Reach(f)' = Reach(f)
    <3>1. CASE f = top.first
      BY <1>14, <1>18, <1>19, <3>1 DEF Reach
    <3>2. CASE f < top.first
      <4>1. f + 1 \in 1 .. top.first /\ f # C /\ f # top.first + 1
        BY <1>14, <1>19, <3>2
      <4>2. Reach(f) = children[f + 1].from
        BY <1>3, <4>1 DEF Reach
      <4>3. Reach(f)' = children'[f + 1].from
        BY <1>19, <4>1 DEF Reach
      <4>4. QED
        BY <1>19, <4>1, <4>2, <4>3
    <3>3. QED
      BY <1>19, <3>1, <3>2
  <2>3. ASSUME NEW i \in 1 .. T - 1, NEW m \in nodes, parents'[i].marker = m.at
        PROVE  Reach(parents[i].first)' = m.from
    <3>1. PICK f \in 0 .. top.first : f = parents[i].first
      BY <2>1
    <3>2. Reach(f)' = m.from
      BY <1>14, <2>1, <2>2, <2>3, <3>1
    <3>3. QED
      BY <2>1, <3>1, <3>2 DEF Reach
  <2>4. \A i, j \in 1 .. T - 1 : i < j => parents[i].first <= parents[j].first
    BY <1>2, <1>3, <1>10 DEF Reached
  <2>5. parents' # <<>> => 1 \in 1 .. T - 1
    BY <1>3, <1>9, <1>10, <1>15
  <2>6. next' # 1
    BY <1>1
  <2>7. ASSUME NEW i \in 1 .. T - 1
        PROVE  parents'[i].first \in 0 .. Len(children')
    <3>1. parents'[i].first \in 0 .. top.first
      BY <2>1
    <3>2. QED
      BY <1>19, <3>1
  <2>8. Len(parents') = T - 1
    BY <1>10, <1>15
  <2>9. QED
    BY <1>1, <1>14, <2>1, <2>3, <2>4, <2>5, <2>6, <2>7, <2>8 DEF Reached
<1>22. IF n.at = 1 THEN next = Len(events) ELSE next < Len(events)
  BY <1>1, <1>5, Finished
<1>23. Joined'
  <2>1. CASE n.at = 1
    BY <1>1, <1>22, <2>1, Fields DEF Joined
  <2>2. CASE n.at # 1
    <3>1. Cut(next + 1, token_idx)
      BY <1>1, <1>16, CutNext DEF IsToken
    <3>2. PICK i : i = next + 1
      OBVIOUS
    <3>3. PICK c : c = token_idx
      OBVIOUS
    <3>4. Cut(i, c)'
      BY <1>1, <3>1, <3>2, <3>3, Carried
    <3>5. Cut(next, token_idx)'
      BY <1>1, <3>2, <3>3, <3>4 DEF Cut
    <3>6. children'[Len(children')].to = token_idx
      BY <1>18, <1>19, <2>2
    <3>7. QED
      BY <1>1, <3>5, <3>6 DEF Joined
  <2>3. QED
    BY <2>1, <2>2
<1>24. Seamless'
  <2>1. ASSUME NEW i \in 1 .. top.first
        PROVE  children'[i].to = children'[i + 1].from
    <3>1. CASE i < top.first
      <4>1. i \in 1 .. C - 1 /\ i + 1 \in 1 .. top.first
        BY <1>3, <1>14, <1>19, <3>1
      <4>2. QED
        BY <1>2, <1>3, <1>19, <4>1 DEF Seamless
    <3>2. CASE i = top.first
      <4>1. children'[i + 1].from = Reach(i)
        BY <1>14, <1>18, <1>19, <3>2
      <4>2. CASE i = C
        BY <1>3, <1>16, <1>19, <3>2, <4>1, <4>2 DEF Reach
      <4>3. CASE i # C
        <5>1. i \in 1 .. C - 1
          BY <1>3, <1>14, <3>2, <4>3
        <5>2. QED
          BY <1>2, <1>3, <1>19, <3>2, <4>1, <4>3, <5>1 DEF Seamless, Reach
      <4>4. QED
        BY <4>2, <4>3
    <3>3. QED
      BY <1>19, <3>1, <3>2
  <2>2. QED
    BY <1>19, <2>1 DEF Seamless
<1>25. OneRoot'
  <2>1. CASE n.at = 1
    <3>1. top.first = 0
      BY <1>14, <1>18, <2>1
    <3>2. n.from = 0 /\ n.to = End
      BY <1>1, <2>1, Finished
    <3>3. node = [from |-> 0, to |-> End]
      BY <1>18, <3>2 DEF Child
    <3>4. kept = <<>>
      BY <1>18, <3>1
    <3>5. children' = <<[from |-> 0, to |-> End]>>
      BY <1>15, <3>3, <3>4
    <3>6. QED
      BY <3>5 DEF OneRoot, End
  <2>2. CASE n.at # 1
    BY <1>1, <1>22, <2>2, Fields DEF OneRoot, Built
  <2>3. QED
    BY <2>1, <2>2
<1>26. Walked'
  BY <1>1, <1>2, <1>4 DEF Walked
<1>27. Spent'
  <2>1. \A m \in nodes : m.begin < next + 1 <=> m.begin < next
    BY <1>1, <1>6
  <2>2. \A m \in nodes : ~InChain(m) /\ ~InChain(m)'
    BY <1>1, <1>4 DEF InChain
  <2>3. QED
    BY <1>1, <1>2, <2>1, <2>2 DEF Spent
<1>28. NodesAsMarked'
  <2>1. {m \in nodes : m.exit \in 1 .. next + 1 - 1}
          = {m \in nodes : m.exit \in 1 .. next - 1} \cup {n}
    BY <1>1, <1>5, <1>6
  <2>2. \A m : Marked(m)' = Marked(m)
    BY <1>1, Carried
  <2>3. made = {Marked(m) : m \in {m \in nodes : m.exit \in 1 .. next - 1}}
    BY <1>2 DEF NodesAsMarked
  <2>4. made' = made \cup {Marked(n)}
    BY <1>15, <1>17, <1>18 DEF Marked
  <2>5. made' = {Marked(m) : m \in {m \in nodes : m.exit \in 1 .. next - 1} \cup {n}}
    BY <2>3, <2>4
  <2>6. QED
    BY <1>1, <2>1, <2>2, <2>5 DEF NodesAsMarked
<1>29. MarksOK'
  BY <1>1, MarksCarried
<1>30. TypeOK'
  BY <1>1, <1>10, <1>15, <1>19 DEF TypeOK
<1>31. next' \in 1 .. Len(events') + 1
  BY <1>1, Fields
<1>32. QED
  BY <1>1, <1>20, <1>21, <1>23, <1>24, <1>25, <1>26, <1>27, <1>28, <1>29, <1>30, <1>31
     DEF Inv, BridgeOK

-----------------------------------------------------------------------------
(* The theorems.                                                            *)

\* The root's marker alone is in order.
LEMMA InitOK ==
    ASSUME Init
    PROVE  Inv
<1> DEFINE e == [event |-> "enter", kind |-> "ERROR", forward |-> 0]
           r == NewNode(1, 1, 0)
<1>1. e \in Event /\ Len(Input) \in Nat /\ Input \in Seq(Token)
  BY MarkersConstants DEF Event, EnterEvent, Kind
<1>2. parser = [input |-> Input, pos |-> 1, events |-> <<e>>, depth |-> 0,
                result |-> 0, halted |-> "no"]
  <2>1. Append(<<>>, e) = <<e>>
    BY <1>1
  <2>2. QED
    BY <2>1 DEF Init, Start, Emit, New
<1>3. events = <<e>> /\ parser.pos = 1 /\ Consumed = 0 /\ parser \in ParserState
  BY <1>1, <1>2 DEF events, Consumed, ParserState
<1>4. Len(events) = 1 /\ events[1].event = "enter" /\ events[1].kind = "ERROR"
      /\ events[1].forward = 0
  BY <1>3
<1>5. /\ nodes = {r} /\ r \in Mark
      /\ r.at = 1 /\ r.begin = 1 /\ r.exit = 0 /\ r.kind = "ERROR"
      /\ r.from = 0 /\ r.to = 0
  BY DEF Init, NewNode, Mark, Kind
<1>6. next = 0 /\ Unbuilt /\ panicked = FALSE
  BY DEF Init, Unbuilt
<1> HIDE DEF e, r
<1>7. TypeOK
  BY <1>3, <1>5, <1>6 DEF TypeOK, Unbuilt
<1>8. Placed /\ Single /\ Covered /\ Headed /\ Laminar
  BY <1>4, <1>5 DEF Placed, Single, Covered, Headed, Laminar
<1>9. Chained /\ Rooted
  BY <1>4, <1>5, <1>6 DEF Chained, FollowedBy, Rooted
<1>10. TokensInOrder
  BY <1>3, <1>4 DEF TokensInOrder, IsToken
<1>11. Spanning
  BY <1>3, <1>4, <1>5 DEF Spanning, Cut, IsToken
<1>12. QED
  BY <1>6, <1>7, <1>8, <1>9, <1>10, <1>11 DEF Inv, MarksOK, BridgeOK

\* A call of the grammar, but for the last, leaves the bridge unstarted.
LEMMA ParseOn ==
    ASSUME Inv, next = 0, next' = 0, UNCHANGED bridge,
           parser' \in ParserState, nodes' \subseteq Mark, MarksOK'
    PROVE  Inv'
<1>1. TypeOK'
  BY DEF Inv, TypeOK, bridge
<1>2. BridgeOK'
  BY DEF Inv, BridgeOK, Unbuilt, bridge
<1>3. QED
  BY <1>1, <1>2 DEF Inv

\* When the root is complete the bridge starts, with nothing built.
LEMMA FinishStarts ==
    ASSUME Inv, NEW n \in nodes, NEW kind \in Kinds, Finish(n, kind)
    PROVE  Inv'
<1>1. TypeOK /\ MarksOK /\ next = 0 /\ next' = 1 /\ UNCHANGED bridge
  BY DEF Inv, Finish, Parsing
<1>2. Unbuilt' /\ panicked' = FALSE
  BY <1>1 DEF Inv, BridgeOK, Unbuilt, bridge, TypeOK
<1>3. parser' \in ParserState /\ nodes' \subseteq Mark /\ MarksOK'
  BY <1>1, FinishKeeps
<1>4. TypeOK'
  BY <1>1, <1>2, <1>3 DEF TypeOK, Unbuilt
<1>5. /\ Len(events') \in Nat /\ Consumed' \in Nat
      /\ \A m \in nodes' : m.begin \in Nat /\ m.begin >= 1 /\ m.at \in Nat
  <2>1. /\ \A m \in nodes' : m.begin \in 1 .. m.at /\ m.at \in 1 .. Len(events')
    BY <1>3 DEF MarksOK, Placed
  <2>2. Len(events') \in Nat /\ Consumed' \in Nat
    BY <1>3, <1>4 DEF ParserState, events, Consumed
  <2>3. QED
    BY <2>1, <2>2
<1>6. Len(events') > 1
  <2>1. PICK m \in nodes' : m.at = 1
    BY <1>3 DEF MarksOK, Rooted
  <2>2. m.exit = Len(events') /\ m.exit # 0
    BY <1>1, <1>3, <2>1 DEF MarksOK, Rooted
  <2>3. m.exit \in m.at + 1 .. Len(events')
    BY <1>3, <2>2 DEF MarksOK, Placed
  <2>4. QED
    BY <1>5, <2>1, <2>3
<1>7. Nested' /\ Walked' /\ Spent'
  BY <1>1, <1>2, <1>5 DEF Nested, Open, Walked, Spent, InChain, Unbuilt
<1>8. Reached' /\ Seamless' /\ OneRoot'
  BY <1>1, <1>2, <1>5, <1>6 DEF Reached, Seamless, OneRoot, Built, Unbuilt
<1>9. Joined'
  <2>1. \A j \in 1 .. Len(events') : IsToken(j)' => events'[j].at \in 1 .. Consumed'
    BY <1>3 DEF MarksOK, TokensInOrder
  <2>2. Cut(next, token_idx)'
    BY <1>1, <1>2, <1>5, <2>1 DEF Cut, Unbuilt
  <2>3. QED
    BY <1>2, <2>2 DEF Joined, Unbuilt
<1>10. NodesAsMarked'
  BY <1>1, <1>2 DEF NodesAsMarked, Unbuilt
<1>11. QED
  BY <1>1, <1>3, <1>4, <1>5, <1>6, <1>7, <1>8, <1>9, <1>10 DEF Inv, BridgeOK

\* Every step keeps the invariant.
LEMMA StepKeeps ==
    ASSUME Inv, [Next]_vars
    PROVE  Inv'
<1>1. TypeOK /\ MarksOK
  BY DEF Inv
<1>2. CASE Parse
  <2>1. next = 0 /\ UNCHANGED bridge
    BY <1>2 DEF Parse, Parsing, StartMarker, BumpToken, ReportError, AbandonMarker,
                PrecedeNode, CompleteMarker, Finish
  <2>2. CASE StartMarker
    BY <1>1, <2>1, <2>2, StartKeeps, ParseOn DEF StartMarker
  <2>3. CASE BumpToken
    BY <1>1, <2>1, <2>3, BumpKeeps, ParseOn DEF BumpToken
  <2>4. CASE ReportError
    BY <1>1, <2>1, <2>4, ErrorKeeps, ParseOn DEF ReportError
  <2>5. ASSUME NEW n \in nodes, AbandonMarker(n)
        PROVE  Inv'
    BY <1>1, <2>1, <2>5, AbandonKeeps, ParseOn DEF AbandonMarker
  <2>6. ASSUME NEW n \in nodes, PrecedeNode(n)
        PROVE  Inv'
    BY <1>1, <2>1, <2>6, PrecedeKeeps, ParseOn DEF PrecedeNode
  <2>7. ASSUME NEW n \in nodes, NEW kind \in Kinds, CompleteMarker(n, kind)
        PROVE  Inv'
    BY <1>1, <2>1, <2>7, CompleteKeeps, ParseOn DEF CompleteMarker
  <2>8. ASSUME NEW n \in nodes, NEW kind \in Kinds, Finish(n, kind)
        PROVE  Inv'
    BY <2>8, FinishStarts
  <2>9. QED
    BY <1>2, <2>2, <2>3, <2>4, <2>5, <2>6, <2>7, <2>8 DEF Parse
<1>3. CASE Build
  BY <1>3, EnterKeeps, EnterChainKeeps, FollowChainKeeps, OpenChainKeeps,
     AddTokenKeeps, ExitKeeps, PassKeeps DEF Build
<1>4. CASE UNCHANGED vars
  <2>1. UNCHANGED <<parser, nodes, next>> /\ UNCHANGED bridge
    BY <1>4 DEF vars, bridge
  <2>2. TypeOK'
    BY <1>1, <2>1 DEF TypeOK, bridge
  <2>3. CASE next = 0
    <3>1. Placed' /\ Single' /\ Covered' /\ Headed' /\ Laminar'
      BY <1>1, <2>1 DEF MarksOK, Placed, Single, Covered, Headed, Laminar, events
    <3>2. Chained' /\ Rooted'
      BY <1>1, <2>1 DEF MarksOK, Chained, FollowedBy, Rooted, End, events
    <3>3. TokensInOrder' /\ Spanning'
      BY <1>1, <2>1
         DEF MarksOK, TokensInOrder, IsToken, Spanning, Cut, Consumed, events
    <3>4. MarksOK'
      BY <3>1, <3>2, <3>3 DEF MarksOK
    <3>5. QED
      BY <2>1, <2>2, <2>3, <3>4, ParseOn DEF TypeOK
  <2>4. CASE next # 0
    <3>1. MarksOK'
      BY <1>1, <2>1, <2>4, MarksCarried
    <3>2. BridgeOK'
      <4>1. /\ events' = events /\ Consumed' = Consumed
            /\ \A m : Marked(m)' = Marked(m)
        BY <2>1, Carried
      <4>2. /\ next \in 1 .. Len(events) + 1 /\ Nested /\ Reached /\ Joined /\ Walked
            /\ Spent /\ NodesAsMarked /\ Seamless /\ OneRoot
        BY <2>4 DEF Inv, BridgeOK
      <4>3. Nested' /\ Reached' /\ Walked' /\ Spent'
        BY <2>1, <4>1, <4>2
           DEF Nested, Open, Reached, Reach, Walked, Spent, InChain, bridge
      <4>4. Joined' /\ Seamless' /\ OneRoot'
        BY <2>1, <4>1, <4>2
           DEF Joined, Cut, IsToken, Seamless, OneRoot, Built, End, bridge
      <4>5. NodesAsMarked'
        BY <2>1, <4>1, <4>2 DEF NodesAsMarked, bridge
      <4>6. QED
        BY <2>1, <2>4, <4>1, <4>2, <4>3, <4>4, <4>5 DEF BridgeOK
    <3>3. QED
      BY <2>2, <3>1, <3>2 DEF Inv
  <2>5. QED
    BY <2>3, <2>4
<1>5. QED
  BY <1>2, <1>3, <1>4 DEF Next

\* The invariant gives the property.
LEMMA InvImplies ==
    ASSUME Inv
    PROVE  TreeAsMarked
<1>1. TypeOK /\ MarksOK /\ BridgeOK
  BY DEF Inv
<1>2. NeverPanics
  BY <1>1 DEF NeverPanics, TypeOK, ParserState
<1>3. CASE next = 0
  <2>1. Unbuilt /\ Len(events) \in Nat
    BY <1>1, <1>3, Fields DEF BridgeOK
  <2>2. NodesAsMarked /\ InStep /\ Seamless /\ OneRoot
    BY <1>3, <2>1
       DEF Unbuilt, NodesAsMarked, InStep, AtEvent, Seamless, OneRoot, Built
  <2>3. QED
    BY <1>2, <2>2 DEF TreeAsMarked
<1>4. CASE next # 0
  <2>1. Joined /\ NodesAsMarked /\ Seamless /\ OneRoot
    BY <1>1, <1>4 DEF BridgeOK
  <2>2. ASSUME AtEvent, Here.event = "token"
        PROVE  Here.at = token_idx + 1
    <3>1. next \in 1 .. Len(events) /\ IsToken(next) /\ Here = events[next]
      BY <2>2 DEF AtEvent, Here, IsToken
    <3>2. Cut(next, token_idx)
      BY <1>1, <2>1, <3>1, Fields DEF Joined
    <3>3. QED
      BY <1>1, <3>1, <3>2, CutToken DEF MarksOK
  <2>3. QED
    BY <1>2, <2>1, <2>2 DEF TreeAsMarked, InStep
<1>5. QED
  BY <1>3, <1>4

\* Whatever the grammar, every reachable state satisfies the inductive invariant
\* of the marks and of the bridge.
THEOREM MarkersInvariant == Spec => []Inv
<1>1. Init => Inv
  BY InitOK
<1>2. Inv /\ [Next]_vars => Inv'
  BY StepKeeps
<1>3. QED
  BY <1>1, <1>2, PTL DEF Spec

\* The parser never halts and the bridge never panics, and every variable keeps
\* its type.
THEOREM MarkersTypeCorrect == Spec => []TypeOK
<1>1. Inv => TypeOK
  BY DEF Inv
<1>2. QED
  BY <1>1, MarkersInvariant, PTL

\* For every text, set of kinds and number of events: whatever the grammar, no
\* assertion of the parser's markers or of the bridge fails, and the bridge builds
\* exactly the nodes that were marked, each within those around it, with every
\* token and all trivia in one place in order.
THEOREM TreeIsAsMarked == Spec => []TreeAsMarked
<1>1. Inv => TreeAsMarked
  BY InvImplies
<1>2. QED
  BY <1>1, MarkersInvariant, PTL
=============================================================================
