--------------------------- MODULE IndexingProofs ---------------------------
(***************************************************************************)
(* Proofs about the recursion of index_file: it never enters a file that   *)
(* is already being indexed, and when it is over the graph is closed.      *)
(***************************************************************************)
EXTENDS Indexing, SequenceTheorems, FiniteSetTheorems, TLAPS

-----------------------------------------------------------------------------
(* The call stack as a sequence.                                            *)

\* What the stack is without its last call.
LEMMA PopCall ==
    ASSUME NEW s \in Seq(Frame), s # <<>>
    PROVE  /\ Front(s) \in Seq(Frame) /\ Len(Front(s)) = Len(s) - 1
           /\ Len(s) \in Nat \ {0}
           /\ \A i \in 1 .. Len(s) - 1 : Front(s)[i] = s[i]
           /\ Last(s) = s[Len(s)] /\ Last(s) \in Frame
  <1>1. Len(s) \in Nat \ {0}
    BY EmptySeq
  <1>2. Last(s) = s[Len(s)] /\ Last(s) \in Frame
    BY <1>1 DEF Last
  <1>3. \A i \in 1 .. Len(s) - 1 : i \in 1 .. Len(s) /\ s[i] \in Frame
    BY <1>1
  <1> DEFINE b == SubSeq(s, 1, Len(s) - 1)
  <1>4. /\ b \in Seq(Frame)
        /\ Len(b) = IF 1 <= Len(s) - 1 THEN Len(s) - 1 - 1 + 1 ELSE 0
        /\ \A i \in 1 .. Len(s) - 1 - 1 + 1 : b[i] = s[1 + i - 1]
    BY <1>1, <1>3, SubSeqProperties
  <1> HIDE DEF b
  <1>5. Len(b) = Len(s) - 1
    <2>1. \A n \in Nat \ {0} : (IF 1 <= n - 1 THEN n - 1 - 1 + 1 ELSE 0) = n - 1
      OBVIOUS
    <2>2. (IF 1 <= Len(s) - 1 THEN Len(s) - 1 - 1 + 1 ELSE 0) = Len(s) - 1
      BY <1>1, <2>1
    <2> QED
      BY <1>4, <2>2
  <1>6. ASSUME NEW i \in 1 .. Len(s) - 1
        PROVE  b[i] = s[i]
    <2>1. i \in 1 .. Len(s) - 1 - 1 + 1 /\ 1 + i - 1 = i
      BY <1>1
    <2> QED
      BY <1>4, <2>1
  <1> QED
    BY <1>1, <1>2, <1>4, <1>5, <1>6 DEF Front, b

\* The current call takes a step: the last frame is replaced.
LEMMA ReplaceLast ==
    ASSUME NEW s \in Seq(Frame), s # <<>>, NEW f \in Frame
    PROVE  LET r == Append(Front(s), f) IN
           /\ r \in Seq(Frame) /\ Len(r) = Len(s)
           /\ Len(s) \in Nat \ {0}
           /\ \A i \in 1 .. Len(s) : r[i] = IF i = Len(s) THEN f ELSE s[i]
  <1> DEFINE b == Front(s)
  <1>1. /\ Len(s) \in Nat \ {0}
        /\ b \in Seq(Frame) /\ Len(b) = Len(s) - 1
        /\ \A i \in 1 .. Len(s) - 1 : b[i] = s[i]
    BY PopCall
  <1> HIDE DEF b
  <1>2. /\ Append(b, f) \in Seq(Frame) /\ Len(Append(b, f)) = Len(b) + 1
        /\ \A i \in 1 .. Len(b) : Append(b, f)[i] = b[i]
        /\ Append(b, f)[Len(b) + 1] = f
    BY <1>1, AppendProperties
  <1>3. \A i \in 1 .. Len(s) : Append(b, f)[i] = IF i = Len(s) THEN f ELSE s[i]
    BY <1>1, <1>2
  <1> QED
    BY <1>1, <1>2, <1>3 DEF b

\* A nested call is pushed.
LEMMA PushCall ==
    ASSUME NEW s \in Seq(Frame), NEW f \in Frame
    PROVE  LET r == s \o <<f>> IN
           /\ r \in Seq(Frame) /\ Len(r) = Len(s) + 1
           /\ \A i \in 1 .. Len(s) : r[i] = s[i]
           /\ r[Len(s) + 1] = f
  <1>1. s \o <<f>> = Append(s, f)
    BY AppendIsConcat
  <1> QED
    BY <1>1, AppendProperties

-----------------------------------------------------------------------------
(* What the worker's steps do to the files and the stack.                   *)

\* Following a specifier leaves every call where it was; the current one may
\* gain the edge it found, and a call for a file not yet in the graph may be
\* pushed.  An edge to a file that is not in the graph is to an unwanted one.
LEMMA FollowEffect ==
    ASSUME TypeOK, stack # <<>>, NEW s \in top.todo, NEW keep \in BOOLEAN,
           Follow(s, keep)
    PROVE  LET n == Len(stack)
               t == Resolve[resolver][s]
           IN  /\ stack' \in Seq(Frame) /\ n \in Nat \ {0}
               /\ \A i \in 1 .. n : stack'[i].file = stack[i].file
               /\ \A i \in 1 .. n : stack'[i].found \subseteq
                                        stack[i].found \cup ({t} \ {None})
               /\ \/ /\ t \in File /\ Wanted(t) /\ files' = files \cup {t}
                     /\ Len(stack') = n + 1 /\ stack'[n + 1] = Call(t)
                  \/ /\ t \in File => ~Wanted(t)
                     /\ files' = files /\ Len(stack') = n
  <1> DEFINE n == Len(stack)
             t == Resolve[resolver][s]
             wanted == t # None /\ Wanted(t)
             rest == [top EXCEPT !.todo = @ \ {s},
                                 !.found = @ \cup EdgeTo(t),
                                 !.reading = keep /\ t # None /\ Wanted(t)]
             advanced == Append(Front(stack), rest)
  <1>1. stack \in Seq(Frame) /\ n \in Nat \ {0} /\ top = stack[n] /\ top \in Frame
    BY PopCall DEF TypeOK, top
  <1>2. s \in Specifier /\ t \in File \cup {None}
    BY <1>1, IndexingConstants DEF TypeOK, Frame
  <1>3. Wanted(t) \in BOOLEAN
    BY DEF Wanted
  <1>4. /\ rest \in Frame /\ rest.file = top.file
        /\ rest.found = top.found \cup ({t} \ {None})
    <2> HIDE DEF t
    <2> QED
      BY <1>1, <1>2, <1>3 DEF Frame, EdgeTo
  <1> HIDE DEF rest
  <1>5. /\ advanced \in Seq(Frame) /\ Len(advanced) = n
        /\ \A i \in 1 .. n : advanced[i] = IF i = n THEN rest ELSE stack[i]
    BY <1>1, <1>4, ReplaceLast
  <1> HIDE DEF advanced
  <1>6. /\ \A i \in 1 .. n : advanced[i].file = stack[i].file
        /\ \A i \in 1 .. n : advanced[i].found \subseteq
                                 stack[i].found \cup ({t} \ {None})
    BY <1>1, <1>4, <1>5
  <1>7. CASE wanted
    <2>1. t \in File /\ Call(t) \in Frame
      BY <1>2, <1>7, IndexingConstants DEF Call, Frame
    <2>2. files' = files \cup {t} /\ stack' = advanced \o <<Call(t)>>
      BY <1>7 DEF Follow, advanced, rest
    <2>3. /\ stack' \in Seq(Frame) /\ Len(stack') = n + 1
          /\ \A i \in 1 .. n : stack'[i] = advanced[i]
          /\ stack'[n + 1] = Call(t)
      BY <1>5, <2>1, <2>2, PushCall
    <2> QED
      BY <1>1, <1>6, <1>7, <2>1, <2>2, <2>3
  <1>8. CASE ~wanted
    <2>1. files' = files /\ stack' = advanced
      BY <1>8 DEF Follow, advanced, rest
    <2> QED
      BY <1>1, <1>5, <1>6, <1>8, <2>1, IndexingConstants
  <1> QED
    BY <1>7, <1>8

\* Starting the second loop changes no call's file or edges.
LEMMA StartPrependsEffect ==
    ASSUME TypeOK, StartPrepends
    PROVE  /\ stack' \in Seq(Frame) /\ Len(stack') = Len(stack)
           /\ Len(stack) \in Nat
           /\ \A i \in 1 .. Len(stack) : /\ stack'[i].file = stack[i].file
                                         /\ stack'[i].found = stack[i].found
  <1> DEFINE f == [top EXCEPT !.loop = "prepends",
                              !.todo = Prepends[prepend_imports]]
  <1>1. stack \in Seq(Frame) /\ stack # <<>> /\ top = stack[Len(stack)]
        /\ top \in Frame
    BY PopCall DEF TypeOK, StartPrepends, top
  <1>2. f \in Frame /\ f.file = top.file /\ f.found = top.found
    BY <1>1, IndexingConstants DEF TypeOK, Frame
  <1>3. stack' = Append(Front(stack), f)
    BY DEF StartPrepends
  <1> HIDE DEF f
  <1>4. /\ stack' \in Seq(Frame) /\ Len(stack') = Len(stack)
        /\ Len(stack) \in Nat \ {0}
        /\ \A i \in 1 .. Len(stack) :
              stack'[i] = IF i = Len(stack) THEN f ELSE stack[i]
    BY <1>1, <1>2, <1>3, ReplaceLast
  <1> QED
    BY <1>1, <1>2, <1>4

\* Returning stores the edges of the current call and leaves its callers'
\* files and edges alone.
LEMMA ReturnEffect ==
    ASSUME TypeOK, Return
    PROVE  LET n == Len(stack) IN
           /\ n \in Nat \ {0} /\ stack[n] \in Frame
           /\ edges' = [u \in DOMAIN edges \cup {stack[n].file} |->
                          IF u = stack[n].file THEN stack[n].found ELSE edges[u]]
           /\ stack' \in Seq(Frame) /\ Len(stack') = n - 1
           /\ \A i \in 1 .. n - 1 : /\ stack'[i].file = stack[i].file
                                    /\ stack'[i].found = stack[i].found
  <1> DEFINE n == Len(stack)
             callers == Front(stack)
             f == [Last(callers) EXCEPT !.reading = FALSE]
  <1>1. /\ stack \in Seq(Frame) /\ n \in Nat \ {0}
        /\ top = stack[n] /\ top \in Frame
        /\ callers \in Seq(Frame) /\ Len(callers) = n - 1
        /\ \A i \in 1 .. n - 1 : callers[i] = stack[i]
    BY PopCall DEF TypeOK, Return, top
  <1>2. edges' = [u \in DOMAIN edges \cup {stack[n].file} |->
                    IF u = stack[n].file THEN stack[n].found ELSE edges[u]]
    BY <1>1 DEF Return
  <1>3. stack' = IF callers = <<>> THEN <<>> ELSE Append(Front(callers), f)
    BY DEF Return
  <1> HIDE DEF callers
  <1>4. CASE callers = <<>>
    <2>1. stack' \in Seq(Frame) /\ Len(stack') = 0 /\ n - 1 = 0
      BY <1>1, <1>3, <1>4, EmptySeq
    <2> QED
      BY <1>1, <1>2, <2>1
  <1>5. CASE callers # <<>>
    <2>1. Last(callers) \in Frame /\ Last(callers) = callers[n - 1]
      BY <1>1, <1>5, PopCall
    <2>2. f \in Frame /\ f.file = callers[n - 1].file
          /\ f.found = callers[n - 1].found
      BY <2>1 DEF Frame
    <2> HIDE DEF f
    <2>3. /\ stack' \in Seq(Frame) /\ Len(stack') = n - 1
          /\ \A i \in 1 .. n - 1 :
                stack'[i] = IF i = n - 1 THEN f ELSE callers[i]
      BY <1>1, <1>3, <1>5, <2>2, ReplaceLast
    <2> QED
      BY <1>1, <1>2, <2>2, <2>3
  <1> QED
    BY <1>4, <1>5

-----------------------------------------------------------------------------
(* Types.                                                                   *)

\* Every state of a run has the right shape.
THEOREM IndexingTypeCorrect == Spec => []TypeOK
  <1>1. Init => TypeOK
    BY IndexingConstants DEF Init, TypeOK
  <1>2. TypeOK /\ [Next]_vars => TypeOK'
    <2> SUFFICES ASSUME TypeOK, [Next]_vars
                 PROVE  TypeOK'
      OBVIOUS
    <2>1. ASSUME NEW u \in File, IndexFile(u)
          PROVE  TypeOK'
      <3>1. Call(u) \in Frame
        BY IndexingConstants DEF Call, Frame
      <3>2. stack' \in Seq(Frame)
        BY <2>1, <3>1 DEF IndexFile
      <3> QED
        BY <2>1, <3>2, IndexingConstants DEF IndexFile, TypeOK, config
    <2>2. ASSUME NEW s \in top.todo, NEW keep \in BOOLEAN, stack # <<>>,
                 Follow(s, keep)
          PROVE  TypeOK'
      BY <2>2, FollowEffect DEF TypeOK, Follow, config
    <2>3. ASSUME StartPrepends
          PROVE  TypeOK'
      BY <2>3, StartPrependsEffect DEF TypeOK, StartPrepends, config
    <2>4. ASSUME Return
          PROVE  TypeOK'
      <3>1. /\ stack[Len(stack)] \in Frame /\ stack' \in Seq(Frame)
            /\ edges' = [u \in DOMAIN edges \cup {stack[Len(stack)].file} |->
                           IF u = stack[Len(stack)].file
                             THEN stack[Len(stack)].found ELSE edges[u]]
        BY <2>4, ReturnEffect
      <3>2. DOMAIN edges' \subseteq File /\ edges' \in [DOMAIN edges' -> SUBSET File]
        BY <3>1 DEF TypeOK, Frame
      <3> QED
        BY <2>4, <3>1, <3>2 DEF TypeOK, Return, config
    <2>5. ASSUME NEW c \in Setting, DidChangeConfiguration(c)
          PROVE  TypeOK'
      BY <2>5, IndexingConstants DEF TypeOK, DidChangeConfiguration, graph
    <2>6. ASSUME Handler
          PROVE  TypeOK'
      BY <2>6, IndexingConstants DEF TypeOK, Handler, WaitForReaders, SetResolver,
         SetPrependImports, SetAllowedRoots, graph
    <2>7. ASSUME UNCHANGED vars
          PROVE  TypeOK'
      BY <2>7 DEF TypeOK, vars, graph, config
    <2> QED
      BY <2>1, <2>2, <2>3, <2>4, <2>5, <2>6, <2>7
         DEF Next, Worker, FollowUse, FollowPrepend
  <1> QED
    BY <1>1, <1>2, PTL DEF Spec

-----------------------------------------------------------------------------
(* The recursion.                                                           *)

\* index_file never enters a file it is already in, whatever imports whatever:
\* a call is only made for a file without an entry, and every file on the
\* stack has one.  The depth of the recursion is bounded by the files.
THEOREM IndexingNeverReenters == Spec => []NoReentry
  <1>1. Init => NoReentry
    BY DEF Init, NoReentry
  <1>2. TypeOK /\ NoReentry /\ [Next]_vars => NoReentry'
    <2> SUFFICES ASSUME TypeOK, NoReentry, [Next]_vars
                 PROVE  NoReentry'
      OBVIOUS
    <2>1. /\ DOMAIN stack = 1 .. Len(stack) /\ Len(stack) \in Nat
          /\ stack' \in Seq(Frame) => DOMAIN stack' = 1 .. Len(stack')
      BY LenProperties DEF TypeOK
    <2>2. ASSUME NEW u \in File, IndexFile(u)
          PROVE  NoReentry'
      BY <2>2 DEF IndexFile, NoReentry, Call
    <2>3. ASSUME NEW s \in top.todo, NEW keep \in BOOLEAN, stack # <<>>,
                 Follow(s, keep)
          PROVE  NoReentry'
      <3> DEFINE n == Len(stack)
                 t == Resolve[resolver][s]
      <3>1. /\ n \in Nat \ {0} /\ DOMAIN stack' = 1 .. Len(stack')
            /\ \A i \in 1 .. n : stack'[i].file = stack[i].file
            /\ \/ /\ t \notin files /\ files' = files \cup {t}
                  /\ Len(stack') = n + 1 /\ stack'[n + 1].file = t
               \/ files' = files /\ Len(stack') = n
        <4>1. /\ stack' \in Seq(Frame) /\ n \in Nat \ {0}
              /\ \A i \in 1 .. n : stack'[i].file = stack[i].file
              /\ \/ /\ Wanted(t) /\ files' = files \cup {t}
                    /\ Len(stack') = n + 1 /\ stack'[n + 1] = Call(t)
                 \/ files' = files /\ Len(stack') = n
          BY <2>3, FollowEffect
        <4>2. Wanted(t) => t \notin files
          BY DEF Wanted
        <4>3. Call(t).file = t
          BY DEF Call
        <4> HIDE DEF t
        <4> QED
          BY <2>1, <4>1, <4>2, <4>3
      <3>4. n \in Nat \ {0} /\ DOMAIN stack = 1 .. n
        BY <2>1, <3>1
      <3> HIDE DEF t, n
      <3>2. CASE files' = files /\ Len(stack') = n
        BY <3>1, <3>2, <3>4 DEF NoReentry
      <3>3. CASE /\ t \notin files /\ files' = files \cup {t}
                 /\ Len(stack') = n + 1 /\ stack'[n + 1].file = t
        <4>1. \A i \in 1 .. n + 1 : i \in 1 .. n \/ i = n + 1
          BY <3>4
        <4>2. \A i \in 1 .. n : stack'[i].file \in files
          BY <3>1, <3>4 DEF NoReentry
        <4>3. \A i \in 1 .. n + 1 : stack'[i].file \in files'
          BY <3>3, <4>1, <4>2
        <4>4. \A i, j \in 1 .. n + 1 : i # j => stack'[i].file # stack'[j].file
          BY <3>1, <3>3, <3>4, <4>1, <4>2 DEF NoReentry
        <4> QED
          BY <3>1, <3>3, <4>3, <4>4 DEF NoReentry
      <3> QED
        BY <3>1, <3>2, <3>3
    <2>4. ASSUME StartPrepends
          PROVE  NoReentry'
      BY <2>1, <2>4, StartPrependsEffect DEF NoReentry, StartPrepends
    <2>5. ASSUME Return
          PROVE  NoReentry'
      <3>1. \A i \in 1 .. Len(stack) - 1 : i \in 1 .. Len(stack)
        BY <2>1
      <3>2. /\ DOMAIN stack' = 1 .. Len(stack) - 1
            /\ \A i \in 1 .. Len(stack) - 1 : stack'[i].file = stack[i].file
        BY <2>1, <2>5, ReturnEffect
      <3>3. files' = files
        BY <2>5 DEF Return
      <3> QED
        BY <2>1, <3>1, <3>2, <3>3 DEF NoReentry
    <2>6. ASSUME UNCHANGED graph
          PROVE  NoReentry'
      BY <2>6 DEF graph, NoReentry
    <2> QED
      BY <2>2, <2>3, <2>4, <2>5, <2>6
         DEF Next, Worker, FollowUse, FollowPrepend, Handler, WaitForReaders,
             SetResolver, SetPrependImports, SetAllowedRoots,
             DidChangeConfiguration, vars
  <1> QED
    BY <1>1, <1>2, IndexingTypeCorrect, PTL DEF Spec

-----------------------------------------------------------------------------
(* The graph.                                                               *)

\* An edge to t is in order: t has an entry or there was a reason to refuse it.
Settled(t) == t \in files \/ Refusable(t)

\* GraphClosed in the middle of the recursion.  A file without edges is still
\* on the stack, and the edges the calls have found so far are in order.  What
\* index_dependency refuses is Refusable because the roots always include
\* those of some setting and the graph only grows.
ClosedSoFar ==
    /\ IsFiniteSet(files)
    /\ \E c \in Setting : RootsOf[c] \subseteq allowed_roots
    /\ \A u \in files : u \in DOMAIN edges
                        \/ \E i \in 1 .. Len(stack) : stack[i].file = u
    /\ \A u \in DOMAIN edges : \A t \in edges[u] : Settled(t)
    /\ \A i \in 1 .. Len(stack) : \A t \in stack[i].found : Settled(t)

\* An edge in order stays in order while the graph grows.
LEMMA StaysSettled ==
    ASSUME NEW t, Settled(t), files \subseteq files', IsFiniteSet(files'),
           IndexingConstants
    PROVE  Settled(t)'
  <1>1. /\ Cardinality(files) <= Cardinality(files')
        /\ Cardinality(files) \in Nat /\ Cardinality(files') \in Nat
    BY FS_Subset, FS_CardinalityType
  <1> QED
    BY <1>1 DEF Settled, Refusable, IndexingConstants

\* What index_dependency does not want is in the graph or refusable.
LEMMA UnwantedIsSettled ==
    ASSUME NEW t \in File, ~Wanted(t), IsFiniteSet(files), IndexingConstants,
           \E c \in Setting : RootsOf[c] \subseteq allowed_roots
    PROVE  Settled(t)
  <1>1. Cardinality(files) \in Nat
    BY FS_CardinalityType
  <1> QED
    BY <1>1 DEF Wanted, Settled, Refusable, IndexingConstants

\* When index_file has returned, every file of the graph has its edges and
\* they lead to files of the graph, except to those it may refuse.
THEOREM IndexingClosesGraph == Spec => []GraphClosed
  <1>1. Init => ClosedSoFar
    <2> SUFFICES ASSUME Init
                 PROVE  ClosedSoFar
      OBVIOUS
    <2>1. IsFiniteSet(files) /\ Len(stack) = 0
      BY FS_EmptySet DEF Init
    <2>2. RootsOf[Initial] \subseteq allowed_roots /\ Initial \in Setting
      BY IndexingConstants DEF Init
    <2> QED
      BY <2>1, <2>2 DEF Init, ClosedSoFar
  <1>2. TypeOK /\ ClosedSoFar /\ [Next]_vars => ClosedSoFar'
    <2> SUFFICES ASSUME TypeOK, ClosedSoFar, [Next]_vars
                 PROVE  ClosedSoFar'
      OBVIOUS
    <2>1. Len(stack) \in Nat
      BY LenProperties DEF TypeOK
    <2>2. ASSUME NEW u \in File, IndexFile(u)
          PROVE  ClosedSoFar'
      <3>1. /\ files' = files \cup {u} /\ IsFiniteSet(files') /\ files \subseteq files'
            /\ stack = <<>> /\ Len(stack') = 1 /\ Len(stack) = 0
            /\ stack'[1].file = u /\ stack'[1].found = {}
            /\ edges' = edges /\ allowed_roots' = allowed_roots
        BY <2>2, FS_AddElement DEF IndexFile, ClosedSoFar, Call, config
      <3>2. \A v \in DOMAIN edges : \A t \in edges[v] : Settled(t)'
        BY <3>1, StaysSettled, IndexingConstants DEF ClosedSoFar
      <3> QED
        BY <3>1, <3>2 DEF ClosedSoFar
    <2>3. ASSUME NEW s \in top.todo, NEW keep \in BOOLEAN, stack # <<>>,
                 Follow(s, keep)
          PROVE  ClosedSoFar'
      <3> DEFINE n == Len(stack)
      <3>0. PICK t : t = Resolve[resolver][s]
        OBVIOUS
      <3>1. /\ n \in Nat \ {0}
            /\ \A i \in 1 .. n : stack'[i].file = stack[i].file
            /\ \A i \in 1 .. n : stack'[i].found \subseteq
                                     stack[i].found \cup ({t} \ {None})
            /\ \/ /\ t \in File /\ Wanted(t) /\ files' = files \cup {t}
                  /\ Len(stack') = n + 1 /\ stack'[n + 1] = Call(t)
               \/ /\ t \in File => ~Wanted(t)
                  /\ files' = files /\ Len(stack') = n
        BY <2>3, <3>0, FollowEffect
      <3>2. edges' = edges /\ allowed_roots' = allowed_roots
        BY <2>3 DEF Follow, config
      <3>3. t \in File \cup {None}
        <4>1. s \in Specifier
          BY <2>3, PopCall DEF TypeOK, Frame, top
        <4> QED
          BY <3>0, <4>1, IndexingConstants DEF TypeOK
      <3>4. Call(t).file = t /\ Call(t).found = {}
        BY DEF Call
      <3> HIDE DEF n
      <3>5. IsFiniteSet(files') /\ files \subseteq files'
        BY <3>1, FS_AddElement DEF ClosedSoFar
      <3>6. \A v : Settled(v) => Settled(v)'
        BY <3>5, StaysSettled, IndexingConstants
      <3>7. t # None => Settled(t)'
        <4>1. CASE t \in files'
          BY <4>1 DEF Settled
        <4>2. CASE t \in File /\ ~Wanted(t)
          BY <3>6, <4>2, UnwantedIsSettled, IndexingConstants DEF ClosedSoFar
        <4> QED
          BY <3>1, <3>3, <4>1, <4>2
      <3>8. \A u \in DOMAIN edges : \A v \in edges[u] : Settled(v)'
        BY <3>6 DEF ClosedSoFar
      <3>9. \A i \in 1 .. n : \A v \in stack'[i].found : Settled(v)'
        BY <3>1, <3>6, <3>7 DEF ClosedSoFar, n
      <3>10. \A u \in files : u \in DOMAIN edges
                              \/ \E i \in 1 .. n : stack'[i].file = u
        BY <3>1 DEF ClosedSoFar, n
      <3>11. CASE files' = files /\ Len(stack') = n
        BY <3>2, <3>5, <3>8, <3>9, <3>10, <3>11 DEF ClosedSoFar
      <3>12. CASE /\ files' = files \cup {t}
                  /\ Len(stack') = n + 1 /\ stack'[n + 1] = Call(t)
        <4>1. /\ 1 .. n + 1 = (1 .. n) \cup {n + 1}
          BY <3>1
        <4> QED
          BY <3>2, <3>4, <3>5, <3>8, <3>9, <3>10, <3>12, <4>1 DEF ClosedSoFar
      <3> QED
        BY <3>1, <3>11, <3>12
    <2>4. ASSUME StartPrepends
          PROVE  ClosedSoFar'
      <3>1. files' = files /\ edges' = edges /\ allowed_roots' = allowed_roots
        BY <2>4 DEF StartPrepends, config
      <3>2. \A v : Settled(v) => Settled(v)'
        BY <3>1 DEF Settled, Refusable
      <3> QED
        BY <2>4, <3>1, <3>2, StartPrependsEffect DEF ClosedSoFar
    <2>5. ASSUME Return
          PROVE  ClosedSoFar'
      <3>1. files' = files /\ allowed_roots' = allowed_roots
        BY <2>5 DEF Return, config
      <3>2. \A v : Settled(v) => Settled(v)'
        BY <3>1 DEF Settled, Refusable
      <3> DEFINE n == Len(stack)
      <3>3. /\ n \in Nat \ {0}
            /\ edges' = [u \in DOMAIN edges \cup {stack[n].file} |->
                           IF u = stack[n].file THEN stack[n].found ELSE edges[u]]
            /\ Len(stack') = n - 1
            /\ \A i \in 1 .. n - 1 : /\ stack'[i].file = stack[i].file
                                     /\ stack'[i].found = stack[i].found
        BY <2>5, ReturnEffect
      <3>4. 1 .. n = (1 .. n - 1) \cup {n}
        BY <3>3
      <3> HIDE DEF n
      <3>5. \A u \in files : u \in DOMAIN edges'
                             \/ \E i \in 1 .. n - 1 : stack'[i].file = u
        BY <3>3, <3>4 DEF ClosedSoFar, n
      <3>6. \A u \in DOMAIN edges' : \A v \in edges'[u] : Settled(v)'
        BY <3>2, <3>3, <3>4 DEF ClosedSoFar, n
      <3>7. \A i \in 1 .. n - 1 : \A v \in stack'[i].found : Settled(v)'
        BY <3>2, <3>3, <3>4 DEF ClosedSoFar, n
      <3> QED
        BY <3>1, <3>3, <3>5, <3>6, <3>7 DEF ClosedSoFar
    <2>6. ASSUME UNCHANGED graph, Handler \/ allowed_roots' = allowed_roots
          PROVE  ClosedSoFar'
      <3>1. \E c \in Setting : RootsOf[c] \subseteq allowed_roots'
        <4>1. CASE SetAllowedRoots
          BY <4>1 DEF SetAllowedRoots, TypeOK
        <4>2. CASE allowed_roots' = allowed_roots
          BY <4>2 DEF ClosedSoFar
        <4> QED
          BY <2>6, <4>1, <4>2 DEF Handler, WaitForReaders, SetResolver,
             SetPrependImports
      <3>2. files' = files /\ edges' = edges /\ stack' = stack
        BY <2>6 DEF graph
      <3>3. \A v : Settled(v) => Settled(v)'
        BY <3>2 DEF Settled, Refusable
      <3> QED
        BY <3>1, <3>2, <3>3 DEF ClosedSoFar
    <2>7. CASE Handler
      BY <2>6, <2>7 DEF Handler, WaitForReaders, SetResolver, SetPrependImports,
         SetAllowedRoots
    <2>8. CASE \E c \in Setting : DidChangeConfiguration(c)
      BY <2>6, <2>8 DEF DidChangeConfiguration
    <2>9. CASE UNCHANGED vars
      BY <2>6, <2>9 DEF vars, config
    <2> QED
      BY <2>2, <2>3, <2>4, <2>5, <2>7, <2>8, <2>9
         DEF Next, Worker, FollowUse, FollowPrepend
  <1>3. TypeOK /\ ClosedSoFar => GraphClosed
    <2>1. stack = <<>> => Len(stack) = 0
      BY DEF TypeOK
    <2> QED
      BY <2>1 DEF ClosedSoFar, GraphClosed, Settled
  <1> QED
    BY <1>1, <1>2, <1>3, IndexingTypeCorrect, PTL DEF Spec
-----------------------------------------------------------------------------
(* The end of the recursion.                                                *)

\* What the calls of index_file use the stack of the thread for.
DepthBounded == Len(stack) <= 1 \/ Len(stack) <= MaxDependencyFiles

\* Calls nest no deeper than max_dependency_files, whatever imports whatever:
\* index_dependency goes a call deeper only for a file that it adds to the
\* graph, below that limit, and those of all calls are in the graph and differ.
THEOREM IndexingDepthBounded == Spec => []DepthBounded
  <1> DEFINE Bounded == IsFiniteSet(files) /\ DepthBounded
  <1>1. Init => Bounded
    <2> SUFFICES ASSUME Init PROVE Bounded
      OBVIOUS
    <2>1. IsFiniteSet(files) /\ Len(stack) = 0
      BY FS_EmptySet DEF Init
    <2> QED
      BY <2>1 DEF DepthBounded
  <1>2. TypeOK /\ NoReentry' /\ TypeOK' /\ Bounded /\ [Next]_vars => Bounded'
    <2> SUFFICES ASSUME TypeOK, TypeOK', NoReentry', Bounded, [Next]_vars
                 PROVE  Bounded'
      OBVIOUS
    <2>1. /\ Len(stack) \in Nat /\ Len(stack') \in Nat
          /\ DOMAIN stack' = 1 .. Len(stack')
      BY LenProperties DEF TypeOK
    <2>2. ASSUME NEW u \in File, IndexFile(u)
          PROVE  Bounded'
      <3>1. files' = files \cup {u} /\ Len(stack') = 1
        BY <2>2 DEF IndexFile
      <3> QED
        BY <3>1, FS_AddElement DEF DepthBounded
    <2>3. ASSUME NEW s \in top.todo, NEW keep \in BOOLEAN, stack # <<>>,
                 Follow(s, keep)
          PROVE  Bounded'
      <3>1. PICK t : t = Resolve[resolver][s]
        OBVIOUS
      <3>2. \/ /\ Wanted(t) /\ files' = files \cup {t}
               /\ Len(stack') = Len(stack) + 1
            \/ files' = files /\ Len(stack') = Len(stack)
        BY <2>3, <3>1, FollowEffect
      <3>3. CASE files' = files /\ Len(stack') = Len(stack)
        BY <3>3 DEF DepthBounded
      <3>4. CASE Wanted(t) /\ files' = files \cup {t}
        <4>1. /\ IsFiniteSet(files') /\ Cardinality(files') \in Nat
              /\ Cardinality(files') <= MaxDependencyFiles
          <5>1. /\ t \notin files /\ Cardinality(files) < MaxDependencyFiles
                /\ Cardinality(files) \in Nat
            BY <3>4, FS_CardinalityType DEF Wanted
          <5>2. /\ IsFiniteSet(files')
                /\ Cardinality(files') = Cardinality(files) + 1
            BY <3>4, <5>1, FS_AddElement
          <5> QED
            BY <5>1, <5>2, IndexingConstants
        <4> DEFINE Calls == 1 .. Len(stack')
                   file == [i \in Calls |-> stack'[i].file]
        <4>2. file \in Injection(Calls, files')
          BY <2>1 DEF NoReentry, Injection, IsInjective
        <4>3. Cardinality(Calls) = Len(stack')
          <5>1. PICK k \in Nat : k = Len(stack')
            BY <2>1
          <5>2. Cardinality(1 .. k) = IF 1 > k THEN 0 ELSE k - 1 + 1
            BY FS_Interval
          <5> QED
            BY <5>1, <5>2
        <4>4. Cardinality(Calls) <= Cardinality(files')
          <5> HIDE DEF Calls, file
          <5> QED
            BY <4>1, <4>2, FS_Injection
        <4> HIDE DEF Calls, file
        <4>5. Len(stack') <= MaxDependencyFiles
          BY <2>1, <4>1, <4>3, <4>4, IndexingConstants
        <4> QED
          BY <4>1, <4>5 DEF DepthBounded
      <3> QED
        BY <3>2, <3>3, <3>4
    <2>4. ASSUME StartPrepends
          PROVE  Bounded'
      BY <2>4, StartPrependsEffect DEF DepthBounded, StartPrepends
    <2>5. ASSUME Return
          PROVE  Bounded'
      <3>1. files' = files /\ Len(stack') = Len(stack) - 1
        BY <2>5, ReturnEffect DEF Return
      <3> QED
        BY <2>1, <3>1, IndexingConstants DEF DepthBounded
    <2>6. ASSUME UNCHANGED graph
          PROVE  Bounded'
      BY <2>6 DEF graph, DepthBounded
    <2> QED
      BY <2>2, <2>3, <2>4, <2>5, <2>6
         DEF Next, Worker, FollowUse, FollowPrepend, Handler, WaitForReaders,
             SetResolver, SetPrependImports, SetAllowedRoots,
             DidChangeConfiguration, vars
  <1> QED
    BY <1>1, <1>2, IndexingTypeCorrect, IndexingNeverReenters, PTL DEF Spec

\* The call on top gets on with its work: from the file's own imports to the
\* prepended ones, or with one specifier less to follow.
GetsOn(before, after) ==
    \/ before.loop = "uses" /\ after.loop = "prepends"
    \/ /\ before.loop = after.loop
       /\ after.todo \subseteq before.todo /\ after.todo # before.todo

\* A file more, but no more than the limit; or a call less; or the call on top
\* gets on.  Each comes before those after it, so that none goes on for ever
\* when files have finitely many imports.
Advances ==
    \/ /\ files \subseteq files' /\ files # files'
       /\ Cardinality(files') <= MaxDependencyFiles
    \/ /\ files' = files
       /\ \/ Len(stack') = Len(stack) - 1
          \/ /\ Len(stack') = Len(stack)
             /\ GetsOn(stack[Len(stack)], stack'[Len(stack)])

\* Every step of index_file and index_dependency, also one taken while a
\* configuration change is half applied, is one towards the end of the call:
\* no import is followed twice, and none that leads back into the recursion is
\* entered.
THEOREM IndexingAdvances == Spec => [][Worker => Advances]_vars
  <1> DEFINE Finite == IsFiniteSet(files)
  <1>1. Init => Finite
    BY FS_EmptySet DEF Init
  <1>2. Finite /\ [Next]_vars => Finite'
    <2> SUFFICES ASSUME Finite, [Next]_vars PROVE Finite'
      OBVIOUS
    <2>1. ASSUME NEW u PROVE IsFiniteSet(files \cup {u})
      BY FS_AddElement
    <2>2. files' = files \/ \E u : files' = files \cup {u}
      BY DEF Next, Worker, FollowUse, FollowPrepend, Follow, StartPrepends,
             Return, IndexFile, Handler, WaitForReaders, SetResolver,
             SetPrependImports, SetAllowedRoots, DidChangeConfiguration,
             graph, vars
    <2> QED
      BY <2>1, <2>2
  <1>3. TypeOK /\ Finite /\ [Next]_vars => [Worker => Advances]_vars
    <2> SUFFICES ASSUME TypeOK, Finite, Worker PROVE Advances
      OBVIOUS
    <2> DEFINE n == Len(stack)
    <2>1. ASSUME NEW s \in top.todo, NEW keep \in BOOLEAN, stack # <<>>,
                 Follow(s, keep)
          PROVE  Advances
      <3>1. PICK t : t = Resolve[resolver][s]
        OBVIOUS
      <3>2. CASE t # None /\ Wanted(t)
        <4>1. /\ files' = files \cup {t} /\ t \notin files
              /\ Cardinality(files) < MaxDependencyFiles
              /\ Cardinality(files) \in Nat
          BY <2>1, <3>1, <3>2, FS_CardinalityType DEF Follow, Wanted
        <4>2. Cardinality(files') = Cardinality(files) + 1
          BY <4>1, FS_AddElement
        <4> QED
          BY <4>1, <4>2, IndexingConstants DEF Advances
      <3>3. CASE ~(t # None /\ Wanted(t))
        <4> DEFINE rest == [top EXCEPT !.todo = @ \ {s},
                                       !.found = @ \cup EdgeTo(t),
                                       !.reading = keep /\ t # None /\ Wanted(t)]
        <4>1. files' = files /\ stack' = Append(Front(stack), rest)
          BY <2>1, <3>1, <3>3 DEF Follow
        <4>2. /\ n \in Nat \ {0} /\ stack \in Seq(Frame)
              /\ top = stack[n] /\ top \in Frame
          BY <2>1, PopCall DEF TypeOK, top
        <4>3. t \in File \cup {None} /\ Wanted(t) \in BOOLEAN
          BY <3>1, <4>2, IndexingConstants DEF TypeOK, Frame, Wanted
        <4>4. /\ rest \in Frame /\ rest.loop = top.loop
              /\ rest.todo = top.todo \ {s}
          BY <4>2, <4>3 DEF Frame, EdgeTo
        <4> HIDE DEF rest
        <4>5. Len(stack') = n /\ stack'[n] = rest
          BY <2>1, <4>1, <4>2, <4>4, ReplaceLast
        <4>6. GetsOn(stack[n], stack'[n])
          BY <2>1, <4>2, <4>4, <4>5 DEF GetsOn
        <4> QED
          BY <4>1, <4>5, <4>6 DEF Advances
      <3> QED
        BY <3>2, <3>3
    <2>2. ASSUME StartPrepends
          PROVE  Advances
      <3> DEFINE f == [top EXCEPT !.loop = "prepends",
                                  !.todo = Prepends[prepend_imports]]
      <3>1. /\ n \in Nat \ {0} /\ stack \in Seq(Frame) /\ stack # <<>>
            /\ top = stack[n] /\ top \in Frame
        BY <2>2, PopCall DEF TypeOK, StartPrepends, top
      <3>2. f \in Frame /\ f.loop = "prepends" /\ top.loop = "uses"
        BY <2>2, <3>1, IndexingConstants DEF TypeOK, Frame, StartPrepends
      <3>3. files' = files /\ stack' = Append(Front(stack), f)
        BY <2>2 DEF StartPrepends
      <3> HIDE DEF f
      <3>4. Len(stack') = n /\ stack'[n] = f
        BY <3>1, <3>2, <3>3, ReplaceLast
      <3>5. GetsOn(stack[n], stack'[n])
        BY <3>1, <3>2, <3>4 DEF GetsOn
      <3> QED
        BY <3>3, <3>4, <3>5 DEF Advances
    <2>3. ASSUME Return
          PROVE  Advances
      BY <2>3, ReturnEffect DEF Return, Advances
    <2> QED
      BY <2>1, <2>2, <2>3 DEF Worker, FollowUse, FollowPrepend
  <1> QED
    BY <1>1, <1>2, <1>3, IndexingTypeCorrect, PTL DEF Spec
=============================================================================
