--------------------------- MODULE PipelineProofs ---------------------------
(***************************************************************************)
(* Proofs about the document pipeline: that the sessions of a document are *)
(* kept apart, that the server at rest shows what the editor has, that     *)
(* changes made outside the editor reach the files that import them, and   *)
(* that the pipeline, seen from any one document, is a mailbox.            *)
(***************************************************************************)
EXTENDS PipelineMailbox, SequencesExt, SequenceTheorems, WellFoundedInduction,
        TLAPS

-----------------------------------------------------------------------------
(* Induction.                                                               *)

\* A nonempty set of numbers has a least one.
LEMMA LeastNumber ==
    ASSUME NEW S, S \subseteq Nat, S # {}
    PROVE  \E i \in S : \A j \in S : i <= j
  <1>1. PICK i \in S : \A j \in S : ~(<<j, i>> \in OpToRel(<, Nat))
    BY WFMin, NatLessThanWellFounded
  <1>2. \A j \in S : ~(j < i)
    BY <1>1 DEF OpToRel
  <1> QED
    BY <1>2

\* Induction from 1 to n, for a property given as the set of numbers that have it.
LEMMA Induction ==
    ASSUME NEW n \in Nat, NEW P, n >= 1 => 1 \in P,
           \A k \in 1 .. n - 1 : k \in P => k + 1 \in P
    PROVE  1 .. n \subseteq P
  <1> SUFFICES ASSUME (1 .. n) \ P # {} PROVE FALSE
    OBVIOUS
  <1>1. PICK i \in (1 .. n) \ P : \A j \in (1 .. n) \ P : i <= j
    <2> DEFINE S == (1 .. n) \ P
    <2>1. S \subseteq Nat /\ S # {}
      OBVIOUS
    <2> HIDE DEF S
    <2>2. \E i \in S : \A j \in S : i <= j
      BY <2>1, LeastNumber
    <2> QED
      BY <2>2 DEF S
  <1>2. i # 1
    BY <1>1
  <1>3. i - 1 \in 1 .. n - 1 /\ i - 1 \in P
    BY <1>1, <1>2
  <1> QED
    BY <1>1, <1>3

-----------------------------------------------------------------------------
(* FlattenSeq.                                                              *)

\* f is the recursive function FlattenSeq takes its value from, on the first n.
Flat(ss, n, f) == f = [i \in 1 .. n |-> IF i = 1 THEN ss[i] ELSE f[i - 1] \o ss[i]]

\* The equation of that function, as the recurrence it stands for.
LEMMA FlatMeans ==
    ASSUME NEW ss, NEW n \in Nat, NEW f
    PROVE  Flat(ss, n, f) <=> /\ f = [i \in 1 .. n |-> f[i]]
                              /\ n >= 1 => f[1] = ss[1]
                              /\ \A i \in 2 .. n : f[i] = f[i - 1] \o ss[i]
  <1> DEFINE Body(i) == IF i = 1 THEN ss[i] ELSE f[i - 1] \o ss[i]
  <1>1. Body(1) = ss[1]
    OBVIOUS
  <1>2. ASSUME NEW i \in 2 .. n PROVE Body(i) = f[i - 1] \o ss[i]
    <2>1. i # 1
      OBVIOUS
    <2> QED
      BY <2>1, Zenon
  <1>3. \A i \in 1 .. n : i = 1 \/ i \in 2 .. n
    OBVIOUS
  <1>4. (n >= 1 => 1 \in 1 .. n) /\ (\A i \in 2 .. n : i \in 1 .. n) /\ \A i \in 1 .. n : n >= 1
    OBVIOUS
  <1>5. Flat(ss, n, f) <=> f = [i \in 1 .. n |-> Body(i)]
    BY DEF Flat
  <1> HIDE DEF Body
  <1>6. f = [i \in 1 .. n |-> Body(i)] <=>
           f = [i \in 1 .. n |-> f[i]] /\ \A i \in 1 .. n : f[i] = Body(i)
    BY Zenon
  <1>7. (\A i \in 1 .. n : f[i] = Body(i)) <=>
           /\ n >= 1 => f[1] = ss[1]
           /\ \A i \in 2 .. n : f[i] = f[i - 1] \o ss[i]
    BY <1>1, <1>2, <1>3, <1>4, Zenon
  <1> QED
    BY <1>5, <1>6, <1>7

LEMMA FlatFirst ==
    ASSUME NEW ss, NEW n \in Nat, NEW f, Flat(ss, n, f), n >= 1
    PROVE  f[1] = ss[1]
  BY FlatMeans, Zenon

LEMMA FlatNext ==
    ASSUME NEW ss, NEW n \in Nat, NEW f, Flat(ss, n, f), NEW i \in 2 .. n
    PROVE  f[i] = f[i - 1] \o ss[i]
  BY FlatMeans, Zenon

Associates(a, b, c) == (a \o b) \o c = a \o (b \o c)

LEMMA Reassociated ==
    ASSUME NEW S, NEW a \in Seq(S), NEW b \in Seq(S), NEW c \in Seq(S)
    PROVE  Associates(a, b, c)
  BY ConcatAssociative DEF Associates

\* There is such a function, and its values are sequences: by induction.
LEMMA FlatExists ==
    ASSUME NEW S, NEW ss \in Seq(Seq(S)), NEW n \in 1 .. Len(ss)
    PROVE  \E f \in [1 .. n -> Seq(S)] : Flat(ss, n, f)
  <1>0. Len(ss) \in Nat /\ \A k \in 1 .. Len(ss) : k \in Nat /\ k >= 1 /\ ss[k] \in Seq(S)
    OBVIOUS
  <1> DEFINE P == {k \in 1 .. Len(ss) : \E f \in [1 .. k -> Seq(S)] : Flat(ss, k, f)}
  <1>1. 1 \in P
    <2> DEFINE f == [i \in 1 .. 1 |-> ss[1]]
    <2>1. 1 \in 1 .. Len(ss)
      BY <1>0
    <2>2. f \in [1 .. 1 -> Seq(S)] /\ f = [i \in 1 .. 1 |-> f[i]] /\ f[1] = ss[1]
      BY <1>0, <2>1
    <2> HIDE DEF f
    <2>3. 1 \in Nat /\ \A i \in 2 .. 1 : FALSE
      OBVIOUS
    <2>4. Flat(ss, 1, f)
      BY <2>2, <2>3, FlatMeans, Zenon
    <2> QED
      BY <2>1, <2>2, <2>4
  <1>2. ASSUME NEW k \in 1 .. Len(ss) - 1, k \in P PROVE k + 1 \in P
    <2>1. PICK f \in [1 .. k -> Seq(S)] : Flat(ss, k, f)
      BY <1>2
    <2>2. k \in Nat /\ k >= 1 /\ k + 1 \in 1 .. Len(ss) /\ k + 1 \in Nat
      BY <1>0
    <2>3. /\ f[1] = ss[1]
          /\ \A i \in 2 .. k : f[i] = f[i - 1] \o ss[i]
      <3>1. f[1] = ss[1]
        BY <2>1, <2>2, FlatFirst
      <3>2. \A i \in 2 .. k : f[i] = f[i - 1] \o ss[i]
        BY <2>1, <2>2, FlatNext
      <3> QED
        BY <3>1, <3>2
    <2> DEFINE last == f[k] \o ss[k + 1]
               g == [i \in 1 .. k + 1 |-> IF i = k + 1 THEN last ELSE f[i]]
    <2>4. last \in Seq(S)
      <3>1. ss[k + 1] \in Seq(S) /\ f[k] \in Seq(S)
        BY <1>0, <2>2
      <3> QED
        BY <3>1
    <2> HIDE DEF last
    <2>a. g \in [1 .. k + 1 -> Seq(S)] /\ g = [i \in 1 .. k + 1 |-> g[i]]
      BY <2>2, <2>4
    <2>5. g[k + 1] = last /\ \A i \in 1 .. k : g[i] = f[i]
      BY <2>2
    <2> HIDE DEF g
    <2>6. g[1] = ss[1]
      BY <2>2, <2>3, <2>5
    <2>7. ASSUME NEW i \in 2 .. k + 1 PROVE g[i] = g[i - 1] \o ss[i]
      <3>1. CASE i = k + 1
        <4>1. g[i - 1] = f[k] /\ i - 1 = k
          BY <2>2, <2>5, <3>1
        <4>2. g[i] = f[k] \o ss[k + 1]
          BY <2>5, <3>1 DEF last
        <4> QED
          BY <3>1, <4>1, <4>2
      <3>2. CASE i \in 2 .. k
        <4>1. g[i - 1] = f[i - 1] /\ g[i] = f[i]
          BY <2>2, <2>5, <3>2
        <4> QED
          BY <2>3, <3>2, <4>1
      <3>3. i = k + 1 \/ i \in 2 .. k
        BY <2>2
      <3> QED
        BY <3>1, <3>2, <3>3, Zenon
    <2>8. Flat(ss, k + 1, g)
      BY <2>2, <2>a, <2>6, <2>7, FlatMeans, Zenon
    <2> QED
      BY <2>2, <2>a, <2>8
  <1> HIDE DEF P
  <1>3. 1 .. Len(ss) \subseteq P
    BY <1>0, <1>1, <1>2, Induction
  <1> QED
    BY <1>3 DEF P

LEMMA FlatTyped ==
    ASSUME NEW S, NEW ss \in Seq(Seq(S)), NEW f, Flat(ss, Len(ss), f)
    PROVE  f \in [1 .. Len(ss) -> Seq(S)]
  <1>0. Len(ss) \in Nat
    OBVIOUS
  <1>1. /\ f = [i \in 1 .. Len(ss) |-> f[i]]
        /\ Len(ss) >= 1 => f[1] = ss[1]
        /\ \A i \in 2 .. Len(ss) : f[i] = f[i - 1] \o ss[i]
    BY <1>0, FlatMeans
  <1> DEFINE P == {i \in 1 .. Len(ss) : f[i] \in Seq(S)}
  <1>2. Len(ss) >= 1 => 1 \in P
    <2>1. Len(ss) >= 1 => 1 \in 1 .. Len(ss) /\ ss[1] \in Seq(S)
      BY <1>0
    <2> QED
      BY <1>1, <2>1
  <1>3. ASSUME NEW k \in 1 .. Len(ss) - 1, k \in P PROVE k + 1 \in P
    <2>1. k + 1 \in 1 .. Len(ss) /\ k + 1 \in 2 .. Len(ss) /\ (k + 1) - 1 = k
      BY <1>0
    <2>2. f[k] \in Seq(S) /\ ss[k + 1] \in Seq(S)
      BY <1>3, <2>1
    <2>3. f[k] \o ss[k + 1] \in Seq(S)
      BY <2>2
    <2>4. f[k + 1] = f[k] \o ss[k + 1]
      BY <1>1, <2>1
    <2>5. f[k + 1] \in Seq(S)
      BY <2>3, <2>4, Zenon
    <2> QED
      BY <2>1, <2>5
  <1> HIDE DEF P
  <1>4. 1 .. Len(ss) \subseteq P
    BY <1>0, <1>2, <1>3, Induction
  <1> QED
    BY <1>1, <1>4 DEF P

\* So FlattenSeq is the last value of a function that obeys the recurrence.
LEMMA FlattenIs ==
    ASSUME NEW S, NEW ss \in Seq(Seq(S)), ss # <<>>
    PROVE  \E f \in [1 .. Len(ss) -> Seq(S)] :
              Flat(ss, Len(ss), f) /\ FlattenSeq(ss) = f[Len(ss)]
  <1>1. Len(ss) \in 1 .. Len(ss) /\ Len(ss) # 0
    BY EmptySeq
  <1>2. PICK f \in [1 .. Len(ss) -> Seq(S)] : Flat(ss, Len(ss), f)
    BY <1>1, FlatExists
  <1> DEFINE F == CHOOSE g : Flat(ss, Len(ss), g)
  <1>3. Flat(ss, Len(ss), F)
    BY <1>2
  <1>4. FlattenSeq(ss) = F[Len(ss)]
    BY <1>1 DEF FlattenSeq, Flat
  <1> HIDE DEF F
  <1>5. F \in [1 .. Len(ss) -> Seq(S)]
    BY <1>3, FlatTyped
  <1> QED
    BY <1>3, <1>4, <1>5

\* Two such functions agree as far as what they flatten does.
Agree(s, t, n) == \A i \in 1 .. n : s[i] = t[i]

LEMMA FlatAgree ==
    ASSUME NEW ss, NEW tt, NEW n \in Nat, NEW m \in Nat, n <= m, Agree(ss, tt, n),
           NEW f, NEW g, Flat(ss, n, f), Flat(tt, m, g)
    PROVE  Agree(f, g, n)
  <1> USE DEF Agree
  <1> DEFINE P == {i \in 1 .. n : f[i] = g[i]}
  <1>1. n >= 1 => 1 \in P
    <2> SUFFICES ASSUME n >= 1 PROVE 1 \in P
      OBVIOUS
    <2>1. m >= 1 /\ 1 \in 1 .. n
      OBVIOUS
    <2>2. f[1] = ss[1]
      BY FlatFirst
    <2>3. g[1] = tt[1]
      BY <2>1, FlatFirst
    <2> QED
      BY <2>1, <2>2, <2>3
  <1>2. ASSUME NEW k \in 1 .. n - 1, k \in P PROVE k + 1 \in P
    <2>1. PICK i \in 2 .. n : i = k + 1
      OBVIOUS
    <2>2. i \in 1 .. n /\ i \in 2 .. m /\ i - 1 = k
      BY <2>1
    <2>3. f[i] = f[i - 1] \o ss[i]
      BY FlatNext
    <2>4. g[i] = g[i - 1] \o tt[i]
      BY <2>2, FlatNext
    <2>5. f[k] = g[k] /\ ss[i] = tt[i]
      BY <1>2, <2>2
    <2>6. f[i] = g[i]
      BY <2>2, <2>3, <2>4, <2>5, Zenon
    <2> QED
      BY <2>1, <2>2, <2>6
  <1> HIDE DEF P
  <1>3. 1 .. n \subseteq P
    BY <1>1, <1>2, Induction
  <1> QED
    BY <1>3 DEF P

LEMMA FlattenEmpty == FlattenSeq(<<>>) = <<>>
  BY DEF FlattenSeq

LEMMA FlattenTyped ==
    ASSUME NEW S, NEW ss \in Seq(Seq(S))
    PROVE  FlattenSeq(ss) \in Seq(S)
  <1>1. CASE ss = <<>>
    <2>1. <<>> \in Seq(S)
      OBVIOUS
    <2> QED
      BY <1>1, <2>1, FlattenEmpty, Zenon
  <1>2. CASE ss # <<>>
    <2>1. Len(ss) \in 1 .. Len(ss)
      BY <1>2, EmptySeq
    <2>2. PICK f \in [1 .. Len(ss) -> Seq(S)] : FlattenSeq(ss) = f[Len(ss)]
      BY <1>2, FlattenIs, Zenon
    <2>3. f[Len(ss)] \in Seq(S)
      BY <2>1
    <2> QED
      BY <2>2, <2>3, Zenon
  <1> QED
    BY <1>1, <1>2

\* What is appended is flattened last ...
LEMMA FlattenAppend ==
    ASSUME NEW S, NEW ss \in Seq(Seq(S)), NEW s \in Seq(S)
    PROVE  FlattenSeq(Append(ss, s)) = FlattenSeq(ss) \o s
  <1> DEFINE tt == Append(ss, s)
             n == Len(ss)
             m == Len(tt)
  <1>1. /\ tt \in Seq(Seq(S)) /\ tt # <<>> /\ n \in Nat /\ m \in Nat /\ m = n + 1
        /\ \A i \in 1 .. n : ss[i] = tt[i]
        /\ tt[m] = s
    BY AppendProperties
  <1>2. n = 0 <=> ss = <<>>
    BY EmptySeq
  <1> HIDE DEF tt, n, m
  <1>3. PICK g \in [1 .. m -> Seq(S)] : Flat(tt, m, g) /\ FlattenSeq(tt) = g[m]
    BY <1>1, FlattenIs DEF m
  <1>4. CASE ss = <<>>
    <2>1. m = 1 /\ m \in Nat /\ m >= 1
      BY <1>1, <1>2, <1>4
    <2>2. g[1] = tt[1]
      BY <1>3, <2>1, FlatFirst
    <2>3. FlattenSeq(tt) = s
      BY <1>1, <1>3, <2>1, <2>2
    <2>4. <<>> \o s = s
      OBVIOUS
    <2> QED
      BY <1>4, <2>3, <2>4, FlattenEmpty DEF tt
  <1>5. CASE ss # <<>>
    <2>1. PICK f \in [1 .. n -> Seq(S)] : Flat(ss, n, f) /\ FlattenSeq(ss) = f[n]
      BY <1>5, FlattenIs DEF n
    <2>2. n \in 1 .. n /\ m \in 2 .. m /\ m - 1 = n /\ n <= m
      BY <1>1, <1>2, <1>5
    <2>3. Agree(f, g, n)
      <3>1. n \in Nat /\ m \in Nat /\ n <= m /\ Agree(ss, tt, n)
        BY <1>1, <2>2 DEF Agree
      <3> QED
        BY <1>3, <2>1, <3>1, FlatAgree
    <2>4. g[m] = g[m - 1] \o tt[m]
      BY <1>1, <1>3, <2>2, FlatNext
    <2> QED
      BY <1>1, <1>3, <2>1, <2>2, <2>3, <2>4, Zenon DEF tt, Agree
  <1> QED
    BY <1>4, <1>5

\* ... and the head first.
LEMMA FlattenTail ==
    ASSUME NEW S, NEW ss \in Seq(Seq(S)), ss # <<>>
    PROVE  FlattenSeq(ss) = Head(ss) \o FlattenSeq(Tail(ss))
  <1> DEFINE tt == Tail(ss)
             n == Len(ss)
             m == Len(tt)
  <1>1. /\ tt \in Seq(Seq(S)) /\ m \in Nat /\ n \in Nat /\ n >= 1 /\ n = m + 1
        /\ \A i \in 1 .. m : tt[i] = ss[i + 1]
        /\ Head(ss) = ss[1] /\ \A i \in 1 .. n : ss[i] \in Seq(S)
    BY HeadTailProperties, EmptySeq
  <1>a. m = 0 <=> tt = <<>>
    BY <1>1, EmptySeq
  <1> HIDE DEF tt, n, m
  <1>2. PICK f \in [1 .. n -> Seq(S)] : Flat(ss, n, f) /\ FlattenSeq(ss) = f[n]
    BY FlattenIs DEF n
  <1>3. f[1] = ss[1]
    BY <1>1, <1>2, FlatFirst
  <1>4. CASE tt = <<>>
    <2>1. n = 1
      BY <1>1, <1>a, <1>4
    <2>2. ss[1] \in Seq(S) /\ FlattenSeq(ss) = ss[1]
      BY <1>1, <1>2, <1>3, <2>1
    <2>3. ss[1] \o <<>> = ss[1]
      BY <2>2, ConcatEmptySeq
    <2> QED
      BY <1>1, <1>4, <2>2, <2>3, FlattenEmpty DEF tt
  <1>5. CASE tt # <<>>
    <2>1. PICK g \in [1 .. m -> Seq(S)] : Flat(tt, m, g) /\ FlattenSeq(tt) = g[m]
      BY <1>1, <1>5, FlattenIs DEF m
    <2>2. m \in 1 .. m /\ m \in Nat /\ m >= 1 /\ 1 \in 1 .. m
      BY <1>1, <1>5, <1>a
    <2> DEFINE P == {i \in 1 .. m : f[i + 1] = ss[1] \o g[i]}
    <2>4. 1 \in P
      <3>1. 2 \in 2 .. n /\ 1 + 1 = 2 /\ 2 - 1 = 1
        BY <1>1, <2>2
      <3>2. g[1] = tt[1]
        BY <2>1, <2>2, FlatFirst
      <3>3. f[2] = f[2 - 1] \o ss[2]
        BY <1>1, <1>2, <3>1, FlatNext
      <3>4. tt[1] = ss[2]
        BY <1>1, <2>2, <3>1
      <3>5. f[1 + 1] = ss[1] \o g[1]
        BY <1>3, <3>1, <3>2, <3>3, <3>4, Zenon
      <3> QED
        BY <2>2, <3>5
    <2>5. ASSUME NEW k \in 1 .. m - 1, k \in P PROVE k + 1 \in P
      <3>1. PICK i \in 2 .. m, j \in 2 .. n : i = k + 1 /\ j = i + 1
        BY <1>1
      <3>2. /\ k \in 1 .. m /\ i \in 1 .. m /\ i - 1 = k /\ j - 1 = i
            /\ j \in 1 .. n /\ 1 \in 1 .. n
        BY <1>1, <3>1
      <3>3. f[j] = f[j - 1] \o ss[j]
        BY <1>1, <1>2, FlatNext
      <3>4. g[i] = g[i - 1] \o tt[i]
        BY <1>1, <2>1, FlatNext
      <3>5. tt[i] = ss[j]
        BY <1>1, <3>1, <3>2
      <3>6. f[i] = ss[1] \o g[k]
        BY <2>5, <3>1
      <3>7. ss[1] \in Seq(S) /\ g[k] \in Seq(S) /\ ss[j] \in Seq(S)
        BY <1>1, <3>2
      <3>8. (ss[1] \o g[k]) \o ss[j] = ss[1] \o (g[k] \o ss[j])
        <4>1. Associates(ss[1], g[k], ss[j])
          BY <3>7, Reassociated
        <4> QED
          BY <4>1, Zenon DEF Associates
      <3>9. f[j] = ss[1] \o g[i]
        BY <3>2, <3>3, <3>4, <3>5, <3>6, <3>8, Zenon
      <3> QED
        BY <3>1, <3>2, <3>9
    <2> HIDE DEF P
    <2>6. 1 .. m \subseteq P
      BY <2>2, <2>4, <2>5, Induction
    <2>7. f[m + 1] = ss[1] \o g[m]
      BY <2>2, <2>6 DEF P
    <2> QED
      BY <1>1, <1>2, <2>1, <2>7, Zenon DEF tt
  <1> QED
    BY <1>4, <1>5

-----------------------------------------------------------------------------
(* The channel.                                                             *)

LEMMA Received ==
    ASSUME tasks \in Seq(Task), tasks # <<>>, tasks' = Tail(tasks)
    PROVE  /\ tasks' \in Seq(Task)
           /\ DOMAIN tasks = 1 .. Len(tasks) /\ Len(tasks) \in Nat /\ Len(tasks) >= 1
           /\ DOMAIN tasks' = 1 .. Len(tasks) - 1
           /\ Head(tasks) = tasks[1]
           /\ \A i \in DOMAIN tasks' : tasks'[i] = tasks[i + 1]
  OBVIOUS

LEMMA Sent ==
    ASSUME tasks \in Seq(Task), NEW task \in Task, tasks' = Append(tasks, task)
    PROVE  /\ tasks' \in Seq(Task)
           /\ DOMAIN tasks = 1 .. Len(tasks) /\ Len(tasks) \in Nat
           /\ DOMAIN tasks' = 1 .. Len(tasks) + 1
           /\ \A i \in DOMAIN tasks : tasks'[i] = tasks[i]
           /\ tasks'[Len(tasks) + 1] = task
  OBVIOUS

LEMMA TaskFields ==
    ASSUME NEW task \in Task
    PROVE  /\ task.kind = "parse" => task.uri \in Uri /\ task.edit \in Edit
           /\ task.kind # "check" => task.uri \in Uri
  BY DEF Task

-----------------------------------------------------------------------------
(* The module graph.                                                        *)

\* Only files that the graph does not have are indexed as dependencies.
LEMMA DependenciesAreNew ==
    ASSUME NEW u \in Uri, NEW v \in Dependencies(u)
    PROVE  v \in Uri /\ files[v] = None
  <1> DEFINE Needs(w) == {t \in Resolved(w) : t # u /\ files[t] = None
                                                /\ disk[t] \notin Unparsable}
             Closed(S) == \A w \in S \cup {u} : Needs(w) \subseteq S
             new == {t \in Uri : files[t] = None}
  <1>1. Dependencies(u) = {t \in Uri : \A S \in SUBSET Uri : Closed(S) => t \in S}
    BY DEF Dependencies
  <1>2. Closed(new)
    <2>1. ASSUME NEW w \in Uri PROVE Resolved(w) \subseteq Uri
      BY PipelineConstants DEF Resolved
    <2> QED
      BY <2>1
  <1>3. new \in SUBSET Uri
    OBVIOUS
  <1> HIDE DEF Closed, new
  <1>4. v \in new
    BY <1>1, <1>2, <1>3
  <1> QED
    BY <1>4 DEF new

LEMMA Indexed ==
    ASSUME NEW u \in Uri, NEW x \in Text, IndexFile(u, x),
           files \in [Uri -> Text \cup {None}], edges \in [Uri -> SUBSET Uri],
           disk \in [Uri -> Text \cup {None}]
    PROVE  /\ files' \in [Uri -> Text \cup {None}]
           /\ edges' \in [Uri -> SUBSET Uri]
           /\ files'[u] = x
           /\ \A v \in Uri : v # u /\ files[v] # None => files'[v] = files[v]
  <1>1. \A v \in Uri : v \in Dependencies(u) => files[v] = None
    BY DependenciesAreNew
  <1>2. \A v \in Uri : Resolved(v) \in SUBSET Uri
    BY PipelineConstants DEF Resolved
  <1> QED
    BY <1>1, <1>2 DEF IndexFile

LEMMA Checked ==
    ASSUME NEW u \in Uri, NEW version \in Nat \cup {None}, NEW x \in Text,
           files \in [Uri -> Text \cup {None}]
    PROVE  /\ Check(u, version, x) \in Diagnostics
           /\ Check(u, version, x) # None
           /\ Check(u, version, x).version = version
           /\ Check(u, version, x).text = x
  <1>1. Check(u, version, x) \in Diagnostics
    BY DEF Check, Diagnostics
  <1> QED
    BY <1>1, NoneIsNoDiagnostics DEF Check

-----------------------------------------------------------------------------
(* Shapes.                                                                  *)

Flushing == job.step \in {"index", "store", "publish"}

\* What the worker is in the middle of: only a flush holds drained edits, and
\* during a flush none waits; an edit that waits has armed the timer.
JobOK ==
    /\ Flushing => job.uri \in Uri /\ job.edit \in Edit
    /\ job.step = "clear" => job.uri \in Uri
    /\ job.step # "drain" /\ ~Flushing => \A u \in Uri : batch[u] = None
    /\ job.step = "drain" \/ Flushing => \A u \in Uri : pending[u] = None
    /\ \A u \in Uri : pending[u] # None => has_pending

ShapeOK == TypeOK /\ JobOK

LEMMA ShapeInit == Init => ShapeOK
  <1> SUFFICES ASSUME Init PROVE ShapeOK
    OBVIOUS
  <1>1. Idle \in [step : Step, uri : Uri \cup {None}, edit : Edit \cup {None},
                  is_current : BOOLEAN, rest : SUBSET Uri, parsed : SUBSET (Uri \X Text)]
    BY DEF Idle, Step
  <1>2. tasks \in Seq(Task) /\ events \in 0 .. MaxEvents /\ OnDisk \in Text
    BY PipelineConstants DEF Init
  <1>3. \A u \in Uri : {} \in SUBSET Uri
    OBVIOUS
  <1>4. TypeOK
    BY <1>1, <1>2, <1>3 DEF Init, TypeOK
  <1>5. JobOK
    BY DEF Init, JobOK, Flushing, Idle
  <1> QED
    BY <1>4, <1>5 DEF ShapeOK

LEMMA EditIsNot == None \notin Edit /\ None \notin Text /\ None \notin Nat
  BY PipelineConstants DEF Edit

LEMMA UserShape ==
    ASSUME ShapeOK, User
    PROVE  ShapeOK'
  <1> USE PipelineConstants DEF ShapeOK, env, graph, worker, Happens
  <1>0. UNCHANGED <<graph, worker, shown>> => JobOK'
    BY DEF JobOK, Flushing
  <1>1. ASSUME NEW u \in EditorFiles, NEW v \in OpenVersion, NEW x \in Text,
               DidOpen(u, v, x)
        PROVE  ShapeOK'
    <2>1. [version |-> v, text |-> x] \in Edit /\ u \in Uri
      BY DEF Edit
    <2>2. [kind |-> "parse", uri |-> u, edit |-> [version |-> v, text |-> x]] \in Task
      BY <2>1 DEF Task
    <2>3. tasks' \in Seq(Task)
      <3>1. \/ tasks' = tasks
            \/ tasks' = Append(tasks, [kind |-> "parse", uri |-> u, edit |-> [version |-> v, text |-> x]])
        BY <1>1 DEF DidOpen, SendTask
      <3> QED
        BY <2>2, <3>1, Sent DEF TypeOK
    <2>4. /\ editor' \in [Uri -> Edit \cup {None}]
          /\ source_texts' \in [Uri -> Text \cup {None}]
          /\ documents' \in [Uri -> Edit \cup {None}]
      BY <1>1, <2>1 DEF DidOpen, TypeOK
    <2> QED
      BY <1>0, <1>1, <2>3, <2>4 DEF DidOpen, TypeOK
  <1>2. ASSUME NEW u \in EditorFiles, NEW x \in Text, DidChange(u, x)
        PROVE  ShapeOK'
    <2>1. [version |-> editor[u].version + 1, text |-> x] \in Edit /\ u \in Uri
      BY <1>2 DEF DidChange, TypeOK, Edit
    <2>2. [kind |-> "parse", uri |-> u,
           edit |-> [version |-> editor[u].version + 1, text |-> x]] \in Task
      BY <2>1 DEF Task
    <2>3. tasks' \in Seq(Task)
      <3>1. \/ tasks' = tasks
            \/ tasks' = Append(tasks, [kind |-> "parse", uri |-> u, edit |-> [version |-> editor[u].version + 1, text |-> x]])
        BY <1>2 DEF DidChange, SendTask
      <3> QED
        BY <2>2, <3>1, Sent DEF TypeOK
    <2>4. /\ editor' \in [Uri -> Edit \cup {None}]
          /\ source_texts' \in [Uri -> Text \cup {None}]
      BY <1>2, <2>1 DEF DidChange, TypeOK
    <2> QED
      BY <1>0, <1>2, <2>3, <2>4 DEF DidChange, TypeOK
  <1>3. ASSUME NEW u \in EditorFiles, DidClose(u) PROVE ShapeOK'
    <2>1. [kind |-> "close", uri |-> u, edit |-> None] \in Task
      BY DEF Task
    <2> QED
      BY <1>0, <1>3, <2>1 DEF DidClose, SendTask, TypeOK
  <1>4. ASSUME NEW u \in EditorFiles, Save(u) PROVE ShapeOK'
    <2>1. editor[u].text \in Text
      BY <1>4 DEF Save, TypeOK, Edit
    <2> QED
      BY <1>0, <1>4, <2>1 DEF Save, TypeOK
  <1>5. ASSUME NEW u \in DiskFiles, NEW x \in Text, DiskWrite(u, x) PROVE ShapeOK'
    BY <1>0, <1>5 DEF DiskWrite, TypeOK
  <1>6. ASSUME NEW u \in DiskFiles, DiskDelete(u) PROVE ShapeOK'
    BY <1>0, <1>6 DEF DiskDelete, TypeOK
  <1>7. CASE CheckWorkspaceCommand
    <2>1. [kind |-> "check", uri |-> None, edit |-> None] \in Task
      BY DEF Task
    <2> QED
      BY <1>0, <1>7, <2>1 DEF CheckWorkspaceCommand, SendTask, TypeOK
  <1> QED
    BY <1>1, <1>2, <1>3, <1>4, <1>5, <1>6, <1>7 DEF User

LEMMA WatcherShape ==
    ASSUME ShapeOK, NEW u \in Uri, DidChangeWatchedFiles(u)
    PROVE  ShapeOK'
  <1> USE DEF ShapeOK, graph, worker
  <1>1. UNCHANGED <<graph, worker, shown>> => JobOK'
    BY DEF JobOK, Flushing
  <1>2. \A kind \in {"change", "delete"} :
           [kind |-> kind, uri |-> u, edit |-> None] \in Task
    BY DEF Task
  <1>3. tasks' \in Seq(Task)
    <2>1. CASE source_texts[u] # None
      BY <2>1 DEF DidChangeWatchedFiles, TypeOK
    <2>2. CASE source_texts[u] = None
      <3>1. PICK kind \in {"change", "delete"} :
               tasks' = Append(tasks, [kind |-> kind, uri |-> u, edit |-> None])
        BY <2>2 DEF DidChangeWatchedFiles, SendTask
      <3> QED
        BY <1>2, <3>1 DEF TypeOK
    <2> QED
      BY <2>1, <2>2
  <1> QED
    BY <1>1, <1>3 DEF DidChangeWatchedFiles, TypeOK

LEMMA ReceivedTask ==
    ASSUME ShapeOK, NEW kind, Receive(kind)
    PROVE  /\ tasks' \in Seq(Task)
           /\ Head(tasks) \in Task /\ Head(tasks).kind = kind
           /\ kind = "parse" => Head(tasks).uri \in Uri /\ Head(tasks).edit \in Edit
           /\ kind # "check" => Head(tasks).uri \in Uri
           /\ job = Idle /\ job.step = "idle"
           /\ \A u \in Uri : batch[u] = None
  <1>1. tasks \in Seq(Task) /\ tasks # <<>> /\ tasks' = Tail(tasks)
    BY DEF Receive, ShapeOK, TypeOK
  <1>2. Head(tasks) \in Task /\ tasks' \in Seq(Task)
    BY <1>1
  <1>3. job = Idle /\ job.step = "idle"
    BY DEF Receive, Idle
  <1> QED
    BY <1>2, <1>3, TaskFields DEF Receive, ShapeOK, JobOK, Flushing

Job == [step : Step, uri : Uri \cup {None}, edit : Edit \cup {None},
        is_current : BOOLEAN, rest : SUBSET Uri, parsed : SUBSET (Uri \X Text)]

LEMMA IdleFields ==
    /\ Idle \in Job
    /\ Idle.step = "idle" /\ Idle.uri = None /\ Idle.edit = None /\ Idle.parsed = {}
    /\ \A step \in Step : [Idle EXCEPT !.step = step] \in Job
    /\ \A step \in Step, u \in Uri : [Idle EXCEPT !.step = step, !.uri = u] \in Job
    /\ \A step \in Step, us \in SUBSET Uri :
          [Idle EXCEPT !.step = step, !.rest = us] \in Job
  BY DEF Idle, Job, Step

LEMMA ReceiveShape ==
    ASSUME ShapeOK,
           \/ ReceiveParse \/ ReceiveClose \/ ReceiveExternalChange
           \/ ReceiveExternalDelete \/ ReceiveCheckWorkspace
    PROVE  ShapeOK'
  <1> DEFINE task == Head(tasks)
  <1> USE EditIsNot DEF env, graph
  <1>0. TypeOK /\ JobOK
    BY DEF ShapeOK
  <1>1. CASE ReceiveParse
    <2>1. /\ tasks' \in Seq(Task) /\ task.uri \in Uri /\ task.edit \in Edit
          /\ job' = job /\ job.step = "idle" /\ batch' = batch
          /\ pending' = [pending EXCEPT ![task.uri] = task.edit] /\ has_pending' = TRUE
      BY <1>1, ReceivedTask DEF ReceiveParse, Coalesced
    <2>2. TypeOK'
      BY <1>0, <1>1, <2>1 DEF ReceiveParse, TypeOK
    <2>3. JobOK'
      BY <1>0, <2>1 DEF JobOK, Flushing
    <2> QED
      BY <2>2, <2>3 DEF ShapeOK
  <1>2. CASE ReceiveClose
    <2>1. /\ tasks' \in Seq(Task) /\ task.uri \in Uri /\ job.step = "idle"
          /\ batch' = batch /\ has_pending' = has_pending
          /\ pending' = [pending EXCEPT ![task.uri] = None]
          /\ documents' = [documents EXCEPT ![task.uri] = None]
          /\ job' = [Idle EXCEPT !.step = "clear", !.uri = task.uri]
      BY <1>2, ReceivedTask DEF ReceiveClose, Removed
    <2>2. job' \in Job /\ job'.step = "clear" /\ job'.uri = task.uri
      BY <2>1, IdleFields DEF Idle, Step
    <2>3. TypeOK'
      BY <1>0, <1>2, <2>1, <2>2 DEF ReceiveClose, TypeOK, Job
    <2>4. JobOK'
      BY <1>0, <2>1, <2>2 DEF JobOK, Flushing, TypeOK
    <2> QED
      BY <2>3, <2>4 DEF ShapeOK
  <1>3. ASSUME NEW u \in Uri, Refresh(u), edges' \in [Uri -> SUBSET Uri], job = Idle
        PROVE  job' \in Job /\ job'.step = "refresh"
    <2>1. {v \in Uri : u \in edges'[v]} \in SUBSET Uri
      OBVIOUS
    <2> QED
      BY <1>3, <2>1, IdleFields DEF Refresh, Idle, Step
  <1>4. CASE ReceiveExternalChange
    <2>1. /\ tasks' \in Seq(Task) /\ task.uri \in Uri /\ job = Idle /\ job.step = "idle"
          /\ UNCHANGED <<pending, has_pending, batch>>
      BY <1>4, ReceivedTask DEF ReceiveExternalChange
    <2>2. /\ files' \in [Uri -> Text \cup {None}] /\ edges' \in [Uri -> SUBSET Uri]
          /\ job' \in Job /\ job'.step \in {"idle", "refresh"}
      <3>1. CASE graph' = graph /\ job' = job
        BY <1>0, <2>1, <3>1, IdleFields DEF TypeOK
      <3>2. CASE /\ disk[task.uri] # None /\ IndexFile(task.uri, disk[task.uri])
                 /\ Refresh(task.uri)
        <4>1. disk[task.uri] \in Text
          BY <1>0, <2>1, <3>2 DEF TypeOK
        <4>2. files' \in [Uri -> Text \cup {None}] /\ edges' \in [Uri -> SUBSET Uri]
          BY <1>0, <2>1, <3>2, <4>1, Indexed DEF TypeOK
        <4> QED
          BY <1>3, <2>1, <3>2, <4>2
      <3> QED
        BY <1>4, <3>1, <3>2 DEF ReceiveExternalChange
    <2>3. TypeOK'
      BY <1>0, <1>4, <2>1, <2>2 DEF ReceiveExternalChange, TypeOK, Job
    <2>4. JobOK'
      BY <1>0, <2>1, <2>2 DEF JobOK, Flushing
    <2> QED
      BY <2>3, <2>4 DEF ShapeOK
  <1>5. CASE ReceiveExternalDelete
    <2>1. /\ tasks' \in Seq(Task) /\ task.uri \in Uri /\ job = Idle /\ job.step = "idle"
          /\ UNCHANGED <<pending, has_pending, batch>>
      BY <1>5, ReceivedTask DEF ReceiveExternalDelete
    <2>2. files' \in [Uri -> Text \cup {None}] /\ edges' \in [Uri -> SUBSET Uri]
      BY <1>0, <1>5, <2>1 DEF ReceiveExternalDelete, TypeOK
    <2>3. job' \in Job /\ job'.step = "refresh"
      BY <1>3, <1>5, <2>1, <2>2 DEF ReceiveExternalDelete
    <2>4. TypeOK'
      BY <1>0, <1>5, <2>1, <2>2, <2>3 DEF ReceiveExternalDelete, TypeOK, Job
    <2>5. JobOK'
      BY <1>0, <2>1, <2>3 DEF JobOK, Flushing
    <2> QED
      BY <2>4, <2>5 DEF ShapeOK
  <1>6. CASE ReceiveCheckWorkspace
    <2>1. /\ tasks' \in Seq(Task) /\ job.step = "idle"
          /\ UNCHANGED <<pending, has_pending, batch>>
      BY <1>6, ReceivedTask DEF ReceiveCheckWorkspace
    <2>2. job' \in Job /\ job'.step \in {"idle", "check_index"}
      <3>1. {u \in Uri : disk[u] # None} \in SUBSET Uri
        OBVIOUS
      <3> QED
        BY <1>6, <3>1, IdleFields DEF ReceiveCheckWorkspace, Idle, Step
    <2>3. TypeOK'
      BY <1>0, <1>6, <2>1, <2>2 DEF ReceiveCheckWorkspace, TypeOK, Job
    <2>4. JobOK'
      BY <1>0, <2>1, <2>2 DEF JobOK, Flushing
    <2> QED
      BY <2>3, <2>4 DEF ShapeOK
  <1> QED
    BY <1>1, <1>2, <1>4, <1>5, <1>6

LEMMA FlushShape ==
    ASSUME ShapeOK,
           \/ TimerFires \/ (\E u \in Uri : FlushParse(u))
           \/ FlushIndex \/ FlushStore \/ FlushPublish \/ FlushDone
    PROVE  ShapeOK'
  <1> USE EditIsNot DEF env, graph
  <1>0. TypeOK /\ JobOK /\ job \in Job
    BY DEF ShapeOK, TypeOK, Job
  <1>a. [Idle EXCEPT !.step = "drain"] \in Job /\ [Idle EXCEPT !.step = "drain"].step = "drain"
    BY IdleFields DEF Idle, Step
  <1>1. CASE TimerFires
    <2>1. TypeOK'
      BY <1>0, <1>1, <1>a DEF TimerFires, TypeOK, Job
    <2>2. JobOK'
      BY <1>0, <1>1, <1>a DEF TimerFires, JobOK, Flushing
    <2> QED
      BY <2>1, <2>2 DEF ShapeOK
  <1>2. ASSUME NEW u \in Uri, FlushParse(u) PROVE ShapeOK'
    <2>1. batch[u] \in Edit /\ job.step = "drain"
      BY <1>0, <1>2 DEF FlushParse, TypeOK
    <2>2. \/ job' = job
          \/ /\ job' \in Job /\ job'.step = "index" /\ job'.uri = u
             /\ job'.edit = batch[u]
      <3>1. (documents[u] = None \/ documents[u].version <= batch[u].version) \in BOOLEAN
        OBVIOUS
      <3> QED
        BY <1>2, <2>1, <3>1 DEF FlushParse, Idle, Job, Step
    <2>3. TypeOK'
      BY <1>0, <1>2, <2>1, <2>2 DEF FlushParse, TypeOK, Job
    <2>4. JobOK'
      BY <1>0, <1>2, <2>1, <2>2 DEF FlushParse, JobOK, Flushing
    <2> QED
      BY <2>3, <2>4 DEF ShapeOK
  <1>3. CASE FlushIndex
    <2>1. job.uri \in Uri /\ job.edit \in Edit /\ job.edit.text \in Text /\ job.step = "index"
      BY <1>0, <1>3 DEF FlushIndex, JobOK, Flushing, Edit
    <2>2. files' \in [Uri -> Text \cup {None}] /\ edges' \in [Uri -> SUBSET Uri]
      BY <1>0, <1>3, <2>1, Indexed DEF FlushIndex, TypeOK
    <2>3. job' \in Job /\ job'.step = "store" /\ job'.uri = job.uri /\ job'.edit = job.edit
      BY <1>0, <1>3 DEF FlushIndex, Job, Step
    <2>4. TypeOK'
      BY <1>0, <1>3, <2>2, <2>3 DEF FlushIndex, TypeOK, Job
    <2>5. JobOK'
      BY <1>0, <1>3, <2>1, <2>3 DEF FlushIndex, JobOK, Flushing
    <2> QED
      BY <2>4, <2>5 DEF ShapeOK
  <1>4. CASE FlushStore
    <2>1. job.uri \in Uri /\ job.edit \in Edit /\ job.step = "store"
      BY <1>0, <1>4 DEF FlushStore, JobOK, Flushing
    <2>2. \/ /\ job' \in Job /\ job'.step = "publish"
             /\ job'.uri = job.uri /\ job'.edit = job.edit
          \/ job' \in Job /\ job'.step = "drain"
      BY <1>0, <1>4, <1>a DEF FlushStore, Job, Step
    <2>3. documents' \in [Uri -> Edit \cup {None}]
      BY <1>0, <1>4, <2>1 DEF FlushStore, TypeOK
    <2>4. TypeOK'
      BY <1>0, <1>4, <2>2, <2>3 DEF FlushStore, TypeOK, Job
    <2>5. JobOK'
      BY <1>0, <1>4, <2>1, <2>2 DEF FlushStore, JobOK, Flushing
    <2> QED
      BY <2>4, <2>5 DEF ShapeOK
  <1>5. CASE FlushPublish
    <2>1. /\ job.uri \in Uri /\ job.edit.version \in Nat /\ job.edit.text \in Text
          /\ job.step = "publish"
      BY <1>0, <1>5 DEF FlushPublish, JobOK, Flushing, Edit
    <2>2. shown' \in [Uri -> Diagnostics \cup {None}]
      BY <1>0, <1>5, <2>1, Checked DEF FlushPublish, TypeOK
    <2>3. TypeOK'
      BY <1>0, <1>5, <1>a, <2>2 DEF FlushPublish, TypeOK, Job
    <2>4. JobOK'
      BY <1>0, <1>5, <1>a, <2>1 DEF FlushPublish, JobOK, Flushing
    <2> QED
      BY <2>3, <2>4 DEF ShapeOK
  <1>6. CASE FlushDone
    <2>1. TypeOK'
      BY <1>0, <1>6, IdleFields DEF FlushDone, TypeOK, Job
    <2>2. JobOK'
      BY <1>0, <1>6, IdleFields DEF FlushDone, JobOK, Flushing
    <2> QED
      BY <2>1, <2>2 DEF ShapeOK
  <1> QED
    BY <1>1, <1>2, <1>3, <1>4, <1>5, <1>6

LEMMA CheckShape ==
    ASSUME ShapeOK,
           \/ ClearDiagnostics \/ (\E u \in Uri : RefreshOne(u)) \/ RefreshNone
           \/ (\E u \in Uri : CheckIndex(u))
           \/ (\E u \in Uri, x \in Text : CheckDisk(u, x)) \/ CheckOpenFiles
    PROVE  ShapeOK'
  <1> USE EditIsNot DEF env, graph
  <1>0. TypeOK /\ JobOK /\ job \in Job
    BY DEF ShapeOK, TypeOK, Job
  <1>1. ASSUME UNCHANGED <<pending, has_pending, batch>>, job' \in Job,
               job.step \in {"clear", "refresh", "check_index"},
               job'.step \in {"idle", "refresh", "check_index"}
        PROVE  JobOK'
    BY <1>0, <1>1 DEF JobOK, Flushing
  <1>2. CASE ClearDiagnostics
    <2>1. job.uri \in Uri
      BY <1>0, <1>2 DEF ClearDiagnostics, JobOK
    <2>2. TypeOK'
      BY <1>0, <1>2, <2>1, IdleFields DEF ClearDiagnostics, TypeOK, Job
    <2>3. JobOK'
      BY <1>1, <1>2, IdleFields DEF ClearDiagnostics
    <2> QED
      BY <2>2, <2>3 DEF ShapeOK
  <1>3. ASSUME NEW u \in Uri, RefreshOne(u) PROVE ShapeOK'
    <2>1. shown' \in [Uri -> Diagnostics \cup {None}]
      <3>1. CASE documents[u] = None
        BY <1>0, <1>3, <3>1 DEF RefreshOne, TypeOK
      <3>2. CASE documents[u] # None
        <4>1. documents[u].version \in Nat /\ documents[u].text \in Text
          BY <1>0, <3>2 DEF TypeOK, Edit
        <4>2. CheckDocument(u) \in Diagnostics
          BY <1>0, <4>1, Checked DEF CheckDocument, TypeOK
        <4> QED
          BY <1>0, <1>3, <3>2, <4>2 DEF RefreshOne, TypeOK
      <3> QED
        BY <3>1, <3>2
    <2>2. job' \in Job /\ job'.step \in {"idle", "refresh"}
      <3>1. job.rest \ {u} \in SUBSET Uri
        BY <1>0 DEF Job
      <3> QED
        BY <1>0, <1>3, <3>1, IdleFields DEF RefreshOne, Job
    <2>3. TypeOK'
      BY <1>0, <1>3, <2>1, <2>2 DEF RefreshOne, TypeOK, Job
    <2>4. JobOK'
      BY <1>1, <1>3, <2>2 DEF RefreshOne
    <2> QED
      BY <2>3, <2>4 DEF ShapeOK
  <1>4. CASE RefreshNone
    <2>1. TypeOK'
      BY <1>0, <1>4, IdleFields DEF RefreshNone, TypeOK, Job
    <2>2. JobOK'
      BY <1>1, <1>4, IdleFields DEF RefreshNone
    <2> QED
      BY <2>1, <2>2 DEF ShapeOK
  <1>5. ASSUME NEW u \in Uri, CheckIndex(u) PROVE ShapeOK'
    <2>1. /\ files' \in [Uri -> Text \cup {None}] /\ edges' \in [Uri -> SUBSET Uri]
          /\ job' \in Job /\ job'.step = "check_index"
      <3>1. job.rest \ {u} \in SUBSET Uri /\ job.step = "check_index"
        BY <1>0, <1>5 DEF CheckIndex, Job
      <3>2. CASE UNCHANGED graph /\ job' = [job EXCEPT !.rest = @ \ {u}]
        BY <1>0, <3>1, <3>2 DEF TypeOK, Job
      <3>3. CASE /\ disk[u] # None
                 /\ IndexFile(u, disk[u])
                 /\ job' = [job EXCEPT !.rest = @ \ {u},
                                       !.parsed = @ \cup {<<u, disk[u]>>}]
        <4>1. disk[u] \in Text
          BY <1>0, <3>3 DEF TypeOK
        <4>2. job.parsed \cup {<<u, disk[u]>>} \in SUBSET (Uri \X Text)
          BY <1>0, <4>1 DEF Job
        <4>3. job' \in Job /\ job'.step = "check_index"
          BY <1>0, <3>1, <3>3, <4>2 DEF Job
        <4> QED
          BY <1>0, <3>3, <4>1, <4>3, Indexed DEF TypeOK
      <3> QED
        BY <1>5, <3>2, <3>3 DEF CheckIndex
    <2>2. TypeOK'
      BY <1>0, <1>5, <2>1 DEF CheckIndex, TypeOK, Job
    <2>3. JobOK'
      BY <1>1, <1>5, <2>1 DEF CheckIndex
    <2> QED
      BY <2>2, <2>3 DEF ShapeOK
  <1>6. ASSUME NEW u \in Uri, NEW x \in Text, CheckDisk(u, x) PROVE ShapeOK'
    <2>1. shown' \in [Uri -> Diagnostics \cup {None}]
      BY <1>0, <1>6, Checked DEF CheckDisk, TypeOK
    <2>2. job' \in Job /\ job'.step = "check_index"
      <3>1. job.parsed \ {<<u, x>>} \in SUBSET (Uri \X Text)
        BY <1>0 DEF Job
      <3> QED
        BY <1>0, <1>6, <3>1 DEF CheckDisk, Job
    <2>3. TypeOK'
      BY <1>0, <1>6, <2>1, <2>2 DEF CheckDisk, TypeOK, Job
    <2>4. JobOK'
      BY <1>1, <1>6, <2>2 DEF CheckDisk
    <2> QED
      BY <2>3, <2>4 DEF ShapeOK
  <1>7. CASE CheckOpenFiles
    <2>1. job' \in Job /\ job'.step = "refresh"
      <3>1. Uri \in SUBSET Uri
        OBVIOUS
      <3> QED
        BY <1>7, <3>1, IdleFields DEF CheckOpenFiles, Idle, Step
    <2>2. TypeOK'
      BY <1>0, <1>7, <2>1 DEF CheckOpenFiles, TypeOK, Job
    <2>3. JobOK'
      BY <1>1, <1>7, <2>1 DEF CheckOpenFiles
    <2> QED
      BY <2>2, <2>3 DEF ShapeOK
  <1> QED
    BY <1>2, <1>3, <1>4, <1>5, <1>6, <1>7

\* Every map, queue and step keeps its shape, and the worker holds drained
\* edits only while it flushes.
THEOREM PipelineTypeCorrect == Spec => []ShapeOK
  <1>1. ShapeOK /\ [Next]_vars => ShapeOK'
    <2>1. CASE UNCHANGED vars /\ ShapeOK
      BY <2>1 DEF vars, env, graph, worker, ShapeOK, TypeOK, JobOK, Flushing
    <2>2. CASE Worker /\ ShapeOK
      BY <2>2, ReceiveShape, FlushShape, CheckShape DEF Worker
    <2> QED
      BY <2>1, <2>2, UserShape, WatcherShape DEF Next, Watcher
  <1> QED
    BY <1>1, ShapeInit, PTL DEF Spec

-----------------------------------------------------------------------------
(* Sessions.                                                                *)

\* An edit, or what was published for one, belongs to the session of a buffer:
\* it is not ahead of it, and at its version has its text.
Within(e, buffer) ==
    /\ buffer # None
    /\ e.version <= buffer.version
    /\ e.version = buffer.version => e.text = buffer.text

ClosesOf(u, i) == tasks[i].kind = "close" /\ tasks[i].uri = u
SendsOf(u, i) == tasks[i].kind = "parse" /\ tasks[i].uri = u

\* Queued edits with no close behind them belong to the present session.
QueueFits(u) ==
    \A i \in DOMAIN tasks :
        SendsOf(u, i) /\ (\A j \in DOMAIN tasks : j > i => ~ClosesOf(u, j))
            => Within(tasks[i].edit, editor[u])

\* And so does everything the server holds.
HeldFits(u) ==
    /\ documents[u] # None => Within(documents[u], editor[u])
    /\ pending[u] # None => Within(pending[u], editor[u])
    /\ batch[u] # None => Within(batch[u], editor[u])
    /\ Flushing /\ job.uri = u => Within(job.edit, editor[u])
    /\ /\ shown[u] # None /\ shown[u].version # None
       /\ ~(job.step = "clear" /\ job.uri = u)
       => Within(shown[u], editor[u])

Session(u) == QueueFits(u) /\ (~CloseQueued(u) => HeldFits(u))

LEMMA QueueSame ==
    ASSUME NEW u \in Uri, Session(u), tasks' = tasks, editor' = editor,
           HeldFits(u) => HeldFits(u)'
    PROVE  Session(u)'
  BY DEF Session, QueueFits, CloseQueued, SendsOf, ClosesOf

LEMMA QueueSent ==
    ASSUME NEW u \in Uri, QueueFits(u), tasks \in Seq(Task), NEW task \in Task,
           tasks' = Append(tasks, task),
           \A e \in Edit : Within(e, editor[u]) => Within(e, editor'[u]),
           task.kind = "parse" /\ task.uri = u => Within(task.edit, editor'[u])
    PROVE  /\ QueueFits(u)'
           /\ CloseQueued(u)' <=> CloseQueued(u) \/ (task.kind = "close" /\ task.uri = u)
  <1>1. /\ DOMAIN tasks = 1 .. Len(tasks) /\ Len(tasks) \in Nat
        /\ DOMAIN tasks' = 1 .. Len(tasks) + 1
        /\ \A i \in DOMAIN tasks : tasks'[i] = tasks[i]
        /\ tasks'[Len(tasks) + 1] = task
    BY Sent
  <1>2. CloseQueued(u)' <=> CloseQueued(u) \/ (task.kind = "close" /\ task.uri = u)
    BY <1>1 DEF CloseQueued
  <1>3. ASSUME NEW i \in DOMAIN tasks', SendsOf(u, i)',
               \A j \in DOMAIN tasks' : j > i => ~ClosesOf(u, j)'
        PROVE  Within(tasks'[i].edit, editor'[u])
    <2>1. CASE i = Len(tasks) + 1
      BY <1>1, <1>3, <2>1 DEF SendsOf
    <2>2. CASE i \in DOMAIN tasks
      <3>1. SendsOf(u, i) /\ tasks'[i].edit = tasks[i].edit
        BY <1>1, <1>3, <2>2 DEF SendsOf
      <3>2. \A j \in DOMAIN tasks : j > i => ~ClosesOf(u, j)
        BY <1>1, <1>3 DEF ClosesOf
      <3>3. tasks[i] \in Task
        BY <2>2
      <3>4. tasks[i].edit \in Edit
        BY <3>1, <3>3, TaskFields DEF SendsOf
      <3> QED
        BY <2>2, <3>1, <3>2, <3>4 DEF QueueFits
    <2> QED
      BY <1>1, <2>1, <2>2
  <1> QED
    BY <1>2, <1>3 DEF QueueFits

LEMMA QueueReceived ==
    ASSUME NEW u \in Uri, QueueFits(u), tasks \in Seq(Task), tasks # <<>>,
           tasks' = Tail(tasks), editor' = editor
    PROVE  /\ QueueFits(u)'
           /\ CloseQueued(u) <=> CloseQueued(u)' \/ (/\ Head(tasks).kind = "close"
                                                     /\ Head(tasks).uri = u)
           /\ /\ Head(tasks).kind = "parse" /\ Head(tasks).uri = u
              /\ ~CloseQueued(u)
              => Within(Head(tasks).edit, editor[u])
  <1>1. /\ DOMAIN tasks = 1 .. Len(tasks) /\ Len(tasks) \in Nat /\ Len(tasks) >= 1
        /\ DOMAIN tasks' = 1 .. Len(tasks) - 1
        /\ Head(tasks) = tasks[1]
        /\ \A i \in DOMAIN tasks' : tasks'[i] = tasks[i + 1]
    BY Received
  <1>2. \A j \in DOMAIN tasks : j = 1 \/ (j - 1 \in DOMAIN tasks' /\ tasks'[j - 1] = tasks[j])
    BY <1>1
  <1>3. ASSUME NEW i \in DOMAIN tasks', SendsOf(u, i)',
               \A j \in DOMAIN tasks' : j > i => ~ClosesOf(u, j)'
        PROVE  Within(tasks'[i].edit, editor'[u])
    <2>1. i + 1 \in DOMAIN tasks /\ tasks'[i] = tasks[i + 1] /\ SendsOf(u, i + 1)
      BY <1>1, <1>3 DEF SendsOf
    <2>2. ASSUME NEW j \in DOMAIN tasks, j > i + 1 PROVE ~ClosesOf(u, j)
      <3>1. j - 1 \in DOMAIN tasks' /\ j - 1 > i /\ tasks'[j - 1] = tasks[j]
        BY <1>1, <2>2
      <3> QED
        BY <1>3, <3>1 DEF ClosesOf
    <2> QED
      BY <2>1, <2>2 DEF QueueFits
  <1>4. CloseQueued(u) <=> CloseQueued(u)' \/ (/\ Head(tasks).kind = "close"
                                               /\ Head(tasks).uri = u)
    <2>1. CloseQueued(u)' => CloseQueued(u)
      <3>1. \A i \in DOMAIN tasks' : i + 1 \in DOMAIN tasks
        BY <1>1
      <3> QED
        BY <1>1, <3>1 DEF CloseQueued
    <2>2. 1 \in DOMAIN tasks
      BY <1>1
    <2> QED
      BY <1>1, <1>2, <2>1, <2>2 DEF CloseQueued
  <1>5. /\ Head(tasks).kind = "parse" /\ Head(tasks).uri = u
        /\ ~CloseQueued(u)
        => Within(Head(tasks).edit, editor[u])
    BY <1>1 DEF QueueFits, CloseQueued, SendsOf, ClosesOf
  <1> QED
    BY <1>3, <1>4, <1>5 DEF QueueFits

LEMMA SessionUser ==
    ASSUME ShapeOK, NEW u \in Uri, Session(u),
           User \/ \E w \in Uri : DidChangeWatchedFiles(w)
    PROVE  Session(u)'
  <1> USE EditIsNot DEF ShapeOK, env, graph, worker
  <1>0. tasks \in Seq(Task) /\ QueueFits(u)
    BY DEF TypeOK, Session
  <1>1. ASSUME editor' = editor, UNCHANGED <<documents, worker, shown>>,
               \/ tasks' = tasks
               \/ \E task \in Task : /\ tasks' = Append(tasks, task)
                                     /\ task.kind \notin {"parse", "close"}
        PROVE  Session(u)'
    <2>1. HeldFits(u) => HeldFits(u)'
      BY <1>1 DEF HeldFits, Flushing
    <2>2. CASE tasks' = tasks
      BY <1>1, <2>1, <2>2, QueueSame
    <2>3. ASSUME NEW task \in Task, tasks' = Append(tasks, task),
                 task.kind \notin {"parse", "close"}
          PROVE  Session(u)'
      BY <1>0, <1>1, <2>1, <2>3, QueueSent DEF Session
    <2> QED
      BY <1>1, <2>2, <2>3
  <1>2. ASSUME NEW w \in EditorFiles, NEW version \in OpenVersion, NEW x \in Text,
               DidOpen(w, version, x)
        PROVE  Session(u)'
    <2> DEFINE edit == [version |-> version, text |-> x]
               task == [kind |-> "parse", uri |-> w, edit |-> edit]
    <2>1. edit \in Edit /\ w \in Uri /\ version \in Nat
      BY PipelineConstants DEF Edit
    <2>2. task \in Task
      BY <2>1 DEF Task
    <2>3. /\ editor'[u] = IF u = w THEN edit ELSE editor[u]
          /\ u = w => editor[u] = None
          /\ documents'[u] = documents[u] \/ (u = w /\ documents'[u] = edit)
          /\ UNCHANGED <<worker, shown>>
      BY <1>2, <2>1 DEF DidOpen, TypeOK
    <2>4. Within(edit, edit)
      BY <2>1 DEF Within
    <2>5. HeldFits(u) => HeldFits(u)'
      BY <2>3, <2>4 DEF HeldFits, Flushing, Within
    <2>6. \A e \in Edit : Within(e, editor[u]) => Within(e, editor'[u])
      BY <2>3 DEF Within
    <2>7. CASE tasks' = tasks
      BY <1>0, <2>3, <2>5, <2>7 DEF Session, QueueFits, CloseQueued, SendsOf, ClosesOf, Within
    <2>8. CASE tasks' = Append(tasks, task)
      <3>1. task.uri = u => Within(task.edit, editor'[u])
        BY <2>3, <2>4
      <3>2. QueueFits(u)' /\ (CloseQueued(u)' <=> CloseQueued(u))
        BY <1>0, <2>2, <2>6, <2>8, <3>1, QueueSent
      <3> QED
        BY <2>5, <3>2 DEF Session
    <2> QED
      BY <1>2, <2>7, <2>8 DEF DidOpen, SendTask
  <1>3. ASSUME NEW w \in EditorFiles, NEW x \in Text, DidChange(w, x)
        PROVE  Session(u)'
    <2> DEFINE edit == [version |-> editor[w].version + 1, text |-> x]
               task == [kind |-> "parse", uri |-> w, edit |-> edit]
    <2>1. /\ w \in Uri /\ editor[w] \in Edit /\ editor[w].version \in Nat
          /\ edit \in Edit
      BY <1>3, PipelineConstants DEF DidChange, TypeOK, Edit
    <2>2. task \in Task
      BY <2>1 DEF Task
    <2>3. /\ editor'[u] = IF u = w THEN edit ELSE editor[u]
          /\ UNCHANGED <<documents, worker, shown>>
      BY <1>3, <2>1 DEF DidChange, TypeOK
    <2>4. Within(edit, edit)
      BY <2>1 DEF Within
    <2>5. ASSUME NEW e, e.version \in Nat, Within(e, editor[u])
          PROVE  Within(e, editor'[u])
      <3>1. CASE u = w
        <4>1. e.version <= editor[w].version
          BY <2>5, <3>1 DEF Within
        <4>2. e.version <= edit.version /\ e.version # edit.version
          BY <2>1, <2>5, <4>1
        <4> QED
          BY <2>1, <2>3, <3>1, <4>2 DEF Within
      <3> QED
        BY <2>3, <2>5, <3>1
    <2>6. \A e \in Edit : e.version \in Nat
      BY DEF Edit
    <2>7. HeldFits(u) => HeldFits(u)'
      <3>1. documents[u] # None => documents[u].version \in Nat
        BY <2>6 DEF TypeOK
      <3>2. pending[u] # None => pending[u].version \in Nat
        BY <2>6 DEF TypeOK
      <3>3. batch[u] # None => batch[u].version \in Nat
        BY <2>6 DEF TypeOK
      <3>4. Flushing => job.edit.version \in Nat
        BY <2>6 DEF JobOK
      <3>5. shown[u] # None /\ shown[u].version # None => shown[u].version \in Nat
        BY DEF TypeOK, Diagnostics
      <3> QED
        BY <2>3, <2>5, <3>1, <3>2, <3>3, <3>4, <3>5 DEF HeldFits, Flushing
    <2>8. \A e \in Edit : Within(e, editor[u]) => Within(e, editor'[u])
      BY <2>5, <2>6
    <2>9. CASE tasks' = tasks
      <3>1. \A i \in DOMAIN tasks : SendsOf(u, i) => tasks[i].edit \in Edit
        BY <1>0, TaskFields DEF SendsOf
      <3> QED
        BY <1>0, <2>7, <2>8, <2>9, <3>1
           DEF Session, QueueFits, CloseQueued, SendsOf, ClosesOf
    <2>10. CASE tasks' = Append(tasks, task)
      <3>1. task.uri = u => Within(task.edit, editor'[u])
        BY <2>3, <2>4
      <3>2. QueueFits(u)' /\ (CloseQueued(u)' <=> CloseQueued(u))
        BY <1>0, <2>2, <2>8, <2>10, <3>1, QueueSent
      <3> QED
        BY <2>7, <3>2 DEF Session
    <2> QED
      BY <1>3, <2>9, <2>10 DEF DidChange, SendTask
  <1>4. ASSUME NEW w \in EditorFiles, DidClose(w) PROVE Session(u)'
    <2> DEFINE task == [kind |-> "close", uri |-> w, edit |-> None]
    <2>1. w \in Uri /\ task \in Task
      BY PipelineConstants DEF Task
    <2>2. /\ tasks' = Append(tasks, task)
          /\ editor'[u] = IF u = w THEN None ELSE editor[u]
          /\ UNCHANGED <<documents, worker, shown>>
      BY <1>4, <2>1 DEF DidClose, SendTask, TypeOK
    <2>3. CASE u = w
      <3>1. PICK n \in DOMAIN tasks' :
               tasks'[n] = task /\ \A i \in DOMAIN tasks' : i = n \/ n > i
        BY <1>0, <2>1, <2>2, Sent
      <3>2. ClosesOf(u, n)'
        BY <2>3, <3>1 DEF ClosesOf
      <3>3. CloseQueued(u)'
        BY <3>2 DEF CloseQueued, ClosesOf
      <3>4. ASSUME NEW i \in DOMAIN tasks', SendsOf(u, i)'
            PROVE  n > i
        BY <3>1, <3>4 DEF SendsOf
      <3> QED
        BY <3>2, <3>3, <3>4 DEF Session, QueueFits
    <2>4. CASE u # w
      <3>1. QueueFits(u)' /\ (CloseQueued(u)' <=> CloseQueued(u))
        BY <1>0, <2>1, <2>2, <2>4, QueueSent
      <3>2. HeldFits(u) => HeldFits(u)'
        BY <2>2, <2>4 DEF HeldFits, Flushing
      <3> QED
        BY <3>1, <3>2 DEF Session
    <2> QED
      BY <2>3, <2>4
  <1>5. ASSUME NEW w \in EditorFiles, Save(w) PROVE Session(u)'
    BY <1>1, <1>5 DEF Save
  <1>6. ASSUME NEW w \in DiskFiles, NEW x \in Text, DiskWrite(w, x) PROVE Session(u)'
    BY <1>1, <1>6 DEF DiskWrite
  <1>7. ASSUME NEW w \in DiskFiles, DiskDelete(w) PROVE Session(u)'
    BY <1>1, <1>7 DEF DiskDelete
  <1>8. CASE CheckWorkspaceCommand
    <2>1. [kind |-> "check", uri |-> None, edit |-> None] \in Task
      BY DEF Task
    <2> QED
      BY <1>1, <1>8, <2>1 DEF CheckWorkspaceCommand, SendTask
  <1>9. ASSUME NEW w \in Uri, DidChangeWatchedFiles(w) PROVE Session(u)'
    <2>1. \A kind \in {"change", "delete"} :
             [kind |-> kind, uri |-> w, edit |-> None] \in Task
      BY DEF Task
    <2>2. \/ tasks' = tasks
          \/ \E kind \in {"change", "delete"} :
                tasks' = Append(tasks, [kind |-> kind, uri |-> w, edit |-> None])
      BY <1>9 DEF DidChangeWatchedFiles, SendTask
    <2>3. UNCHANGED <<documents, worker, shown>> /\ editor' = editor
      BY <1>9 DEF DidChangeWatchedFiles
    <2> QED
      BY <1>1, <2>1, <2>2, <2>3
  <1> QED
    BY <1>2, <1>3, <1>4, <1>5, <1>6, <1>7, <1>8, <1>9 DEF User

LEMMA SessionReceive ==
    ASSUME ShapeOK, NEW u \in Uri, Session(u),
           \/ ReceiveParse \/ ReceiveClose \/ ReceiveExternalChange
           \/ ReceiveExternalDelete \/ ReceiveCheckWorkspace
    PROVE  Session(u)'
  <1> DEFINE task == Head(tasks)
  <1> USE EditIsNot DEF env
  <1>0. TypeOK /\ JobOK /\ tasks \in Seq(Task) /\ QueueFits(u)
    BY DEF ShapeOK, TypeOK, Session
  <1>1. /\ tasks # <<>> /\ tasks' = Tail(tasks) /\ editor' = editor /\ job = Idle
        /\ shown' = shown
    BY DEF ReceiveParse, ReceiveClose, ReceiveExternalChange, ReceiveExternalDelete,
           ReceiveCheckWorkspace, Receive
  <1>2. /\ QueueFits(u)'
        /\ CloseQueued(u) <=> CloseQueued(u)' \/ (task.kind = "close" /\ task.uri = u)
        /\ task.kind = "parse" /\ task.uri = u /\ ~CloseQueued(u)
              => Within(task.edit, editor[u])
    BY <1>0, <1>1, QueueReceived
  <1>3. CASE ReceiveParse
    <2>1. /\ task.uri \in Uri /\ task.kind = "parse"
          /\ pending' = [pending EXCEPT ![task.uri] = task.edit]
          /\ UNCHANGED <<documents, batch, job, shown>>
      BY <1>3, ReceivedTask DEF ReceiveParse, Coalesced
    <2>2. pending'[u] = IF task.uri = u THEN task.edit ELSE pending[u]
      BY <1>0, <2>1 DEF TypeOK
    <2>3. ~CloseQueued(u) /\ HeldFits(u) => HeldFits(u)'
      BY <1>1, <1>2, <2>1, <2>2 DEF HeldFits, Flushing
    <2> QED
      BY <1>2, <2>1, <2>3 DEF Session
  <1>4. CASE ReceiveClose
    <2>1. /\ task.uri \in Uri /\ task.kind = "close" /\ batch'[u] = None
          /\ pending' = [pending EXCEPT ![task.uri] = None]
          /\ documents' = [documents EXCEPT ![task.uri] = None]
          /\ job' = [Idle EXCEPT !.step = "clear", !.uri = task.uri]
          /\ shown' = shown
      BY <1>4, ReceivedTask DEF ReceiveClose, Removed
    <2>2. job'.step = "clear" /\ job'.uri = task.uri
      BY <2>1 DEF Idle
    <2>3. CASE task.uri = u
      <3>1. pending'[u] = None /\ documents'[u] = None
        BY <1>0, <2>1, <2>3 DEF TypeOK
      <3>2. HeldFits(u)'
        BY <2>1, <2>2, <2>3, <3>1 DEF HeldFits, Flushing
      <3> QED
        BY <1>2, <3>2 DEF Session
    <2>4. CASE task.uri # u
      <3>1. pending'[u] = pending[u] /\ documents'[u] = documents[u]
        BY <1>0, <2>1, <2>4 DEF TypeOK
      <3>2. HeldFits(u) => HeldFits(u)'
        BY <1>1, <2>1, <2>2, <2>4, <3>1, IdleFields DEF HeldFits, Flushing
      <3> QED
        BY <1>2, <2>4, <3>2 DEF Session
    <2> QED
      BY <2>3, <2>4
  <1>5. ASSUME UNCHANGED <<documents, pending, batch>>, task.kind # "close",
               job'.step \in {"idle", "refresh", "check_index"}
        PROVE  Session(u)'
    <2>1. HeldFits(u) => HeldFits(u)'
      BY <1>1, <1>5, IdleFields DEF HeldFits, Flushing
    <2> QED
      BY <1>2, <1>5, <2>1 DEF Session
  <1>6. \A w : Refresh(w) => job'.step = "refresh"
    BY DEF Refresh, Idle
  <1>7. CASE ReceiveExternalChange
    <2>1. job'.step \in {"idle", "refresh"} /\ task.kind # "close"
      BY <1>1, <1>6, <1>7, IdleFields DEF ReceiveExternalChange, Receive
    <2> QED
      BY <1>5, <1>7, <2>1 DEF ReceiveExternalChange
  <1>8. CASE ReceiveExternalDelete
    <2>1. job'.step = "refresh" /\ task.kind # "close"
      BY <1>6, <1>8 DEF ReceiveExternalDelete, Receive
    <2> QED
      BY <1>5, <1>8, <2>1 DEF ReceiveExternalDelete
  <1>9. CASE ReceiveCheckWorkspace
    <2>1. job'.step \in {"idle", "check_index"} /\ task.kind # "close"
      BY <1>9 DEF ReceiveCheckWorkspace, Receive, Idle
    <2> QED
      BY <1>5, <1>9, <2>1 DEF ReceiveCheckWorkspace
  <1> QED
    BY <1>3, <1>4, <1>7, <1>8, <1>9

LEMMA SessionFlush ==
    ASSUME ShapeOK, NEW u \in Uri, Session(u),
           \/ TimerFires \/ (\E w \in Uri : FlushParse(w))
           \/ FlushIndex \/ FlushStore \/ FlushPublish \/ FlushDone
    PROVE  Session(u)'
  <1> USE EditIsNot DEF env
  <1>0. TypeOK /\ JobOK
    BY DEF ShapeOK
  <1>a. [Idle EXCEPT !.step = "drain"].step = "drain"
    BY DEF Idle
  <1>1. CASE TimerFires
    <2>1. batch'[u] = pending[u] /\ pending'[u] = None /\ job'.step = "drain"
          /\ job.step = "idle" /\ UNCHANGED <<tasks, editor, documents, shown>>
      BY <1>1, <1>a, IdleFields DEF TimerFires
    <2>2. HeldFits(u) => HeldFits(u)'
      BY <2>1 DEF HeldFits, Flushing
    <2> QED
      BY <2>1, <2>2, QueueSame
  <1>2. ASSUME NEW w \in Uri, FlushParse(w) PROVE Session(u)'
    <2>1. /\ batch[w] # None /\ job.step = "drain"
          /\ batch'[u] = (IF u = w THEN None ELSE batch[u])
          /\ UNCHANGED <<tasks, editor, documents, shown, pending>>
      BY <1>0, <1>2 DEF FlushParse, TypeOK
    <2>2. \/ job' = job
          \/ job'.step = "index" /\ job'.uri = w /\ job'.edit = batch[w]
      BY <1>2 DEF FlushParse, Idle
    <2>3. HeldFits(u) => HeldFits(u)'
      BY <2>1, <2>2 DEF HeldFits, Flushing
    <2> QED
      BY <2>1, <2>3, QueueSame
  <1>3. CASE FlushIndex
    <2>1. /\ job.step = "index" /\ job'.step = "store"
          /\ job'.uri = job.uri /\ job'.edit = job.edit
          /\ UNCHANGED <<tasks, editor, documents, shown, pending, batch>>
      BY <1>0, <1>3 DEF FlushIndex, TypeOK
    <2>2. HeldFits(u) => HeldFits(u)'
      BY <2>1 DEF HeldFits, Flushing
    <2> QED
      BY <2>1, <2>2, QueueSame
  <1>4. CASE FlushStore
    <2>1. /\ job.step = "store"
          /\ documents'[u] = (IF u = job.uri THEN job.edit ELSE documents[u])
          /\ UNCHANGED <<tasks, editor, shown, pending, batch>>
      BY <1>0, <1>4 DEF FlushStore, TypeOK
    <2>2. \/ job'.step = "publish" /\ job'.uri = job.uri /\ job'.edit = job.edit
          \/ job'.step = "drain"
      BY <1>0, <1>4, <1>a DEF FlushStore, TypeOK
    <2>3. HeldFits(u) => HeldFits(u)'
      BY <2>1, <2>2 DEF HeldFits, Flushing
    <2> QED
      BY <2>1, <2>3, QueueSame
  <1>5. CASE FlushPublish
    <2>1. /\ job.step = "publish" /\ job'.step = "drain"
          /\ job.uri \in Uri /\ job.edit.version \in Nat /\ job.edit.text \in Text
          /\ UNCHANGED <<tasks, editor, documents, pending, batch>>
      BY <1>0, <1>5, <1>a DEF FlushPublish, JobOK, Flushing, Edit
    <2>2. \/ u # job.uri /\ shown'[u] = shown[u]
          \/ /\ u = job.uri
             /\ shown'[u].version = job.edit.version /\ shown'[u].text = job.edit.text
      BY <1>0, <1>5, <2>1, Checked DEF FlushPublish, TypeOK
    <2>3. HeldFits(u) => HeldFits(u)'
      BY <2>1, <2>2 DEF HeldFits, Flushing, Within
    <2> QED
      BY <2>1, <2>3, QueueSame
  <1>6. CASE FlushDone
    <2>1. /\ job.step = "drain" /\ job'.step = "idle"
          /\ UNCHANGED <<tasks, editor, documents, shown, pending, batch>>
      BY <1>6, IdleFields DEF FlushDone
    <2>2. HeldFits(u) => HeldFits(u)'
      BY <2>1 DEF HeldFits, Flushing
    <2> QED
      BY <2>1, <2>2, QueueSame
  <1> QED
    BY <1>1, <1>2, <1>3, <1>4, <1>5, <1>6

LEMMA SessionCheck ==
    ASSUME ShapeOK, NEW u \in Uri, Session(u),
           \/ ClearDiagnostics \/ (\E w \in Uri : RefreshOne(w)) \/ RefreshNone
           \/ (\E w \in Uri : CheckIndex(w))
           \/ (\E w \in Uri, x \in Text : CheckDisk(w, x)) \/ CheckOpenFiles
    PROVE  Session(u)'
  <1> USE EditIsNot DEF env
  <1>0. TypeOK /\ JobOK
    BY DEF ShapeOK
  <1>1. ASSUME UNCHANGED <<tasks, editor, documents, pending, batch>>, ~Flushing, ~Flushing',
               job'.step # "clear",
               \/ shown'[u] = shown[u] /\ job.step # "clear"
               \/ shown'[u] = shown[u] /\ job.uri # u
               \/ shown'[u] = None
               \/ shown'[u].version = None
               \/ /\ documents[u] # None
                  /\ shown'[u].version = documents[u].version
                  /\ shown'[u].text = documents[u].text
        PROVE  Session(u)'
    <2>1. HeldFits(u) => HeldFits(u)'
      BY <1>1 DEF HeldFits, Within
    <2> QED
      BY <1>1, <2>1, QueueSame
  <1>2. CASE ClearDiagnostics
    <2>1. job.step = "clear" /\ job.uri \in Uri /\ job'.step = "idle"
      BY <1>0, <1>2, IdleFields DEF ClearDiagnostics, JobOK
    <2>2. shown'[u] = (IF u = job.uri THEN None ELSE shown[u])
      BY <1>0, <1>2, <2>1 DEF ClearDiagnostics, TypeOK
    <2> QED
      BY <1>1, <1>2, <2>1, <2>2 DEF ClearDiagnostics, Flushing
  <1>3. ASSUME NEW w \in Uri, RefreshOne(w) PROVE Session(u)'
    <2>1. job.step = "refresh" /\ job'.step \in {"idle", "refresh"}
      BY <1>0, <1>3, IdleFields DEF RefreshOne, TypeOK
    <2>2. \/ shown'[u] = shown[u]
          \/ /\ documents[u] # None
             /\ shown'[u].version = documents[u].version
             /\ shown'[u].text = documents[u].text
      <3>1. CASE documents[w] = None
        BY <1>3, <3>1 DEF RefreshOne
      <3>2. CASE documents[w] # None
        <4>1. documents[w].version \in Nat /\ documents[w].text \in Text
          BY <1>0, <3>2 DEF TypeOK, Edit
        <4>2. /\ CheckDocument(w).version = documents[w].version
              /\ CheckDocument(w).text = documents[w].text
          BY <1>0, <4>1, Checked DEF CheckDocument, TypeOK
        <4>3. shown'[u] = (IF u = w THEN CheckDocument(w) ELSE shown[u])
          BY <1>0, <1>3, <3>2 DEF RefreshOne, TypeOK
        <4> QED
          BY <3>2, <4>2, <4>3
      <3> QED
        BY <3>1, <3>2
    <2> QED
      BY <1>1, <1>3, <2>1, <2>2 DEF RefreshOne, Flushing
  <1>4. CASE RefreshNone
    BY <1>1, <1>4, IdleFields DEF RefreshNone, Flushing
  <1>5. ASSUME NEW w \in Uri, CheckIndex(w) PROVE Session(u)'
    <2>1. job.step = "check_index" /\ job'.step = "check_index"
      BY <1>0, <1>5 DEF CheckIndex, TypeOK
    <2> QED
      BY <1>1, <1>5, <2>1 DEF CheckIndex, Flushing
  <1>6. ASSUME NEW w \in Uri, NEW x \in Text, CheckDisk(w, x) PROVE Session(u)'
    <2>1. job.step = "check_index" /\ job'.step = "check_index"
      BY <1>0, <1>6 DEF CheckDisk, TypeOK
    <2>2. shown'[u] = shown[u] \/ shown'[u].version = None
      BY <1>0, <1>6, Checked DEF CheckDisk, TypeOK
    <2> QED
      BY <1>1, <1>6, <2>1, <2>2 DEF CheckDisk, Flushing
  <1>7. CASE CheckOpenFiles
    <2>1. job.step = "check_index" /\ job'.step = "refresh"
      BY <1>7 DEF CheckOpenFiles, Idle
    <2> QED
      BY <1>1, <1>7, <2>1 DEF CheckOpenFiles, Flushing
  <1> QED
    BY <1>2, <1>3, <1>4, <1>5, <1>6, <1>7

SessionsOK == \A u \in Uri : Session(u)

LEMMA SessionInit == Init => SessionsOK
  BY DEF Init, SessionsOK, Session, QueueFits, HeldFits, Flushing, Idle

LEMMA SessionStep == ShapeOK /\ SessionsOK /\ [Next]_vars => SessionsOK'
  <1> SUFFICES ASSUME ShapeOK, NEW u \in Uri, Session(u), [Next]_vars
               PROVE  Session(u)'
    BY DEF SessionsOK
  <1>1. CASE UNCHANGED vars
    BY <1>1 DEF vars, env, worker, Session, QueueFits, HeldFits, Flushing, CloseQueued,
                SendsOf, ClosesOf
  <1>2. CASE Worker
    BY <1>2, SessionReceive, SessionFlush, SessionCheck DEF Worker
  <1> QED
    BY <1>1, <1>2, SessionUser DEF Next, Watcher

LEMMA SessionMeansApart == SessionsOK => SessionsKeptApart
  BY DEF SessionsOK, Session, HeldFits, Within, SessionsKeptApart

\* Sessions never mix, whatever the versions documents are opened with: what is
\* analysed or published belongs to the session in the editor, unless a close
\* is still on its way.
THEOREM SessionsStayApart == Spec => []SessionsKeptApart
  <1>1. ShapeOK /\ SessionsOK /\ [Next]_vars => SessionsOK'
    BY SessionStep
  <1> QED
    BY <1>1, PipelineTypeCorrect, SessionInit, SessionMeansApart, PTL DEF Spec

-----------------------------------------------------------------------------
(* At rest the server shows what the editor has.                            *)

Concerns(u, i) == tasks[i].kind # "check" /\ tasks[i].uri = u
NoTask(u) == \A i \in DOMAIN tasks : ~Concerns(u, i)

\* The buffer's text is the last thing queued about its file.
QueuedLast(u) ==
    \E i \in DOMAIN tasks :
        /\ SendsOf(u, i) /\ tasks[i].edit = editor[u]
        /\ \A j \in DOMAIN tasks : j > i => ~Concerns(u, j)

\* The worker holds it: it waits, or is drained, or is being flushed and will
\* be published.
Held(u) ==
    \/ pending[u] = editor[u]
    \/ pending[u] = None /\ batch[u] = editor[u]
    \/ /\ pending[u] = None /\ batch[u] = None
       /\ Flushing /\ job.uri = u /\ job.edit = editor[u] /\ job.is_current
       /\ job.step \in {"store", "publish"} => files[u] = editor[u].text
       /\ job.step = "publish" => documents[u] = editor[u]

\* It has been dealt with, and nothing else is about to happen to its file:
\* in particular a workspace check has not read it from the disk.
Settled(u) ==
    /\ pending[u] = None /\ batch[u] = None
    /\ ~((Flushing \/ job.step = "clear") /\ job.uri = u)
    /\ ~(job.step = "check_index" /\ \E x \in Text : <<u, x>> \in job.parsed)
    /\ documents[u] = editor[u] /\ files[u] = editor[u].text
    /\ shown[u] # None
    /\ shown[u].version = editor[u].version /\ shown[u].text = editor[u].text

Latest(u) ==
    Accepted(u) => /\ source_texts[u] # None
                   /\ QueuedLast(u) \/ (NoTask(u) /\ (Held(u) \/ Settled(u)))

\* The text is on its way still.
UnderWay(u) == QueuedLast(u) \/ Held(u)

LEMMA LatestSent ==
    ASSUME tasks \in Seq(Task), NEW task \in Task, tasks' = Append(tasks, task),
           NEW u \in Uri
    PROVE  /\ ~(task.kind # "check" /\ task.uri = u) /\ editor'[u] = editor[u] =>
                 (QueuedLast(u) => QueuedLast(u)') /\ (NoTask(u) => NoTask(u)')
           /\ task.kind = "parse" /\ task.uri = u /\ task.edit = editor'[u] =>
                 QueuedLast(u)'
  <1>1. /\ DOMAIN tasks = 1 .. Len(tasks) /\ Len(tasks) \in Nat
        /\ DOMAIN tasks' = 1 .. Len(tasks) + 1
        /\ \A i \in DOMAIN tasks : tasks'[i] = tasks[i]
        /\ tasks'[Len(tasks) + 1] = task
    BY Sent
  <1>2. ASSUME ~(task.kind # "check" /\ task.uri = u), editor'[u] = editor[u],
               QueuedLast(u)
        PROVE  QueuedLast(u)'
    <2>1. PICK i \in DOMAIN tasks :
             /\ SendsOf(u, i) /\ tasks[i].edit = editor[u]
             /\ \A j \in DOMAIN tasks : j > i => ~Concerns(u, j)
      BY <1>2 DEF QueuedLast
    <2>2. i \in DOMAIN tasks' /\ SendsOf(u, i)' /\ tasks'[i].edit = editor'[u]
      BY <1>1, <1>2, <2>1 DEF SendsOf
    <2>3. ASSUME NEW j \in DOMAIN tasks', j > i PROVE ~Concerns(u, j)'
      BY <1>1, <1>2, <2>1, <2>3 DEF Concerns
    <2> QED
      BY <2>2, <2>3 DEF QueuedLast
  <1>3. ASSUME ~(task.kind # "check" /\ task.uri = u), NoTask(u)
        PROVE  NoTask(u)'
    BY <1>1, <1>3 DEF NoTask, Concerns
  <1>4. ASSUME task.kind = "parse", task.uri = u, task.edit = editor'[u]
        PROVE  QueuedLast(u)'
    <2>1. PICK n \in DOMAIN tasks' :
             tasks'[n] = task /\ \A i \in DOMAIN tasks' : ~(i > n)
      BY <1>1
    <2> QED
      BY <1>4, <2>1 DEF QueuedLast, SendsOf
  <1> QED
    BY <1>2, <1>3, <1>4

LEMMA LatestReceived ==
    ASSUME tasks \in Seq(Task), tasks # <<>>, tasks' = Tail(tasks),
           editor' = editor, NEW u \in Uri
    PROVE  /\ NoTask(u) => /\ NoTask(u)'
                           /\ ~(Head(tasks).kind # "check" /\ Head(tasks).uri = u)
           /\ QueuedLast(u) => \/ QueuedLast(u)'
                               \/ /\ NoTask(u)' /\ Head(tasks).kind = "parse"
                                  /\ Head(tasks).uri = u
                                  /\ Head(tasks).edit = editor[u]
  <1>1. /\ DOMAIN tasks = 1 .. Len(tasks) /\ Len(tasks) \in Nat /\ Len(tasks) >= 1
        /\ DOMAIN tasks' = 1 .. Len(tasks) - 1
        /\ Head(tasks) = tasks[1]
        /\ \A i \in DOMAIN tasks' : tasks'[i] = tasks[i + 1]
    BY Received
  <1>2. 1 \in DOMAIN tasks /\ \A i \in DOMAIN tasks' : i + 1 \in DOMAIN tasks /\ i + 1 > 1
    BY <1>1
  <1>3. ASSUME NoTask(u) PROVE NoTask(u)' /\ ~(Head(tasks).kind # "check" /\ Head(tasks).uri = u)
    BY <1>1, <1>2, <1>3 DEF NoTask, Concerns
  <1>4. ASSUME QueuedLast(u)
        PROVE  \/ QueuedLast(u)'
               \/ /\ NoTask(u)' /\ Head(tasks).kind = "parse" /\ Head(tasks).uri = u
                  /\ Head(tasks).edit = editor[u]
    <2>1. PICK i \in DOMAIN tasks :
             /\ SendsOf(u, i) /\ tasks[i].edit = editor[u]
             /\ \A j \in DOMAIN tasks : j > i => ~Concerns(u, j)
      BY <1>4 DEF QueuedLast
    <2>2. CASE i = 1
      <3>1. NoTask(u)'
        BY <1>1, <1>2, <2>1, <2>2 DEF NoTask, Concerns
      <3> QED
        BY <1>1, <2>1, <2>2, <3>1 DEF SendsOf
    <2>3. CASE i # 1
      <3>1. PICK k \in DOMAIN tasks' : k + 1 = i
        <4>1. i - 1 \in DOMAIN tasks' /\ (i - 1) + 1 = i
          BY <1>1, <2>3
        <4> QED
          BY <4>1
      <3>2. SendsOf(u, k)' /\ tasks'[k].edit = editor'[u]
        BY <1>1, <2>1, <3>1 DEF SendsOf
      <3>3. ASSUME NEW j \in DOMAIN tasks', j > k PROVE ~Concerns(u, j)'
        <4>1. j + 1 \in DOMAIN tasks /\ j + 1 > i /\ tasks'[j] = tasks[j + 1]
          BY <1>1, <3>1, <3>3
        <4> QED
          BY <2>1, <4>1 DEF Concerns
      <3> QED
        BY <3>2, <3>3 DEF QueuedLast
    <2> QED
      BY <2>2, <2>3
  <1> QED
    BY <1>3, <1>4

LEMMA LatestUser ==
    ASSUME ShapeOK, NEW u \in Uri, Latest(u),
           User \/ \E w \in Uri : DidChangeWatchedFiles(w)
    PROVE  Latest(u)'
  <1> USE EditIsNot DEF env, graph, worker
  <1>0. TypeOK /\ tasks \in Seq(Task)
    BY DEF ShapeOK, TypeOK
  <1>1. ASSUME editor'[u] = editor[u], UNCHANGED <<graph, worker, shown>>,
               documents'[u] = documents[u], source_texts'[u] = source_texts[u],
               Accepted(u) =>
                  \/ tasks' = tasks
                  \/ \E task \in Task : /\ tasks' = Append(tasks, task)
                                        /\ ~(task.kind # "check" /\ task.uri = u)
        PROVE  Latest(u)'
    <2>1. SUFFICES ASSUME Accepted(u) PROVE Latest(u)'
      BY <1>1 DEF Latest, Accepted
    <2>2. (QueuedLast(u) => QueuedLast(u)') /\ (NoTask(u) => NoTask(u)')
      <3>1. CASE tasks' = tasks
        BY <1>1, <3>1 DEF QueuedLast, NoTask, SendsOf, Concerns
      <3>2. ASSUME NEW task \in Task, tasks' = Append(tasks, task),
                   ~(task.kind # "check" /\ task.uri = u)
            PROVE  (QueuedLast(u) => QueuedLast(u)') /\ (NoTask(u) => NoTask(u)')
        BY <1>0, <1>1, <3>2, LatestSent
      <3> QED
        BY <1>1, <2>1, <3>1, <3>2
    <2>3. (Held(u) => Held(u)') /\ (Settled(u) => Settled(u)')
      BY <1>1 DEF Held, Settled, Flushing
    <2> QED
      BY <1>1, <2>1, <2>2, <2>3 DEF Latest
  <1>2. ASSUME NEW edit \in Edit, editor'[u] = edit, edit.text \in Oversize
        PROVE  Latest(u)'
    BY <1>2 DEF Latest, Accepted
  <1>3. ASSUME NEW edit \in Edit, editor'[u] = edit, source_texts'[u] = edit.text,
               tasks' = Append(tasks, [kind |-> "parse", uri |-> u, edit |-> edit])
        PROVE  Latest(u)'
    <2> DEFINE task == [kind |-> "parse", uri |-> u, edit |-> edit]
    <2>1. task \in Task /\ task.kind = "parse" /\ task.uri = u /\ task.edit = edit
      BY DEF Task
    <2> HIDE DEF task
    <2>2. QueuedLast(u)'
      BY <1>0, <1>3, <2>1, LatestSent DEF task
    <2>3. edit.text # None
      BY DEF Edit
    <2> QED
      BY <1>3, <2>2, <2>3 DEF Latest
  <1>4. ASSUME NEW w \in Uri, NEW kind \in {"parse", "close", "change", "delete"},
               NEW edit \in Edit \cup {None}, w # u,
               kind = "parse" => edit \in Edit, kind # "parse" => edit = None,
               tasks' = Append(tasks, [kind |-> kind, uri |-> w, edit |-> edit])
        PROVE  \E task \in Task : /\ tasks' = Append(tasks, task)
                                  /\ ~(task.kind # "check" /\ task.uri = u)
    <2>1. [kind |-> kind, uri |-> w, edit |-> edit] \in Task
      BY <1>4 DEF Task
    <2> QED
      BY <1>4, <2>1
  <1>5. ASSUME NEW w \in EditorFiles, NEW version \in OpenVersion, NEW x \in Text,
               DidOpen(w, version, x)
        PROVE  Latest(u)'
    <2> DEFINE edit == [version |-> version, text |-> x]
    <2>1. edit \in Edit /\ edit.text = x /\ w \in Uri
      BY PipelineConstants DEF Edit
    <2> HIDE DEF edit
    <2>2. editor' = [editor EXCEPT ![w] = edit]
      BY <1>5 DEF DidOpen, edit
    <2>3. CASE x \in Oversize
      <3>1. UNCHANGED <<source_texts, documents, tasks, graph, worker, shown>>
        BY <1>5, <2>3 DEF DidOpen
      <3> QED
        BY <1>0, <1>1, <1>2, <2>1, <2>2, <2>3, <3>1 DEF TypeOK
    <2>4. CASE x \notin Oversize
      <3>1. /\ tasks' = Append(tasks, [kind |-> "parse", uri |-> w, edit |-> edit])
            /\ source_texts' = [source_texts EXCEPT ![w] = x]
            /\ documents' = documents \/ documents' = [documents EXCEPT ![w] = edit]
            /\ UNCHANGED <<graph, worker, shown>>
        BY <1>5, <2>4 DEF DidOpen, SendTask, edit
      <3>2. CASE u = w
        BY <1>0, <1>3, <2>1, <2>2, <3>1, <3>2 DEF TypeOK
      <3>3. CASE u # w
        <4>1. /\ editor'[u] = editor[u] /\ documents'[u] = documents[u]
              /\ source_texts'[u] = source_texts[u]
          BY <1>0, <2>1, <2>2, <3>1, <3>3 DEF TypeOK
        <4> QED
          BY <1>1, <1>4, <2>1, <3>1, <3>3, <4>1
      <3> QED
        BY <3>2, <3>3
    <2> QED
      BY <2>3, <2>4
  <1>6. ASSUME NEW w \in EditorFiles, NEW x \in Text, DidChange(w, x)
        PROVE  Latest(u)'
    <2> DEFINE edit == [version |-> editor[w].version + 1, text |-> x]
    <2>1. edit \in Edit /\ edit.text = x /\ w \in Uri
      BY <1>0, <1>6, PipelineConstants DEF DidChange, TypeOK, Edit
    <2>2. editor' = [editor EXCEPT ![w] = edit]
      BY <1>6 DEF DidChange
    <2>3. CASE x \in Oversize
      <3>1. UNCHANGED <<source_texts, documents, tasks, graph, worker, shown>>
        BY <1>6, <2>3 DEF DidChange
      <3> HIDE DEF edit
      <3> QED
        BY <1>0, <1>1, <1>2, <2>1, <2>2, <2>3, <3>1 DEF TypeOK
    <2>4. CASE x \notin Oversize
      <3>1. /\ tasks' = Append(tasks, [kind |-> "parse", uri |-> w, edit |-> edit])
            /\ source_texts' = [source_texts EXCEPT ![w] = x]
            /\ UNCHANGED <<documents, graph, worker, shown>>
        BY <1>6, <2>4 DEF DidChange, SendTask
      <3> HIDE DEF edit
      <3>2. CASE u = w
        BY <1>0, <1>3, <2>1, <2>2, <3>1, <3>2 DEF TypeOK
      <3>3. CASE u # w
        <4>1. /\ editor'[u] = editor[u] /\ documents'[u] = documents[u]
              /\ source_texts'[u] = source_texts[u]
          BY <1>0, <2>1, <2>2, <3>1, <3>3 DEF TypeOK
        <4> QED
          BY <1>1, <1>4, <2>1, <3>1, <3>3, <4>1
      <3> QED
        BY <3>2, <3>3
    <2> QED
      BY <2>3, <2>4
  <1>7. ASSUME NEW w \in EditorFiles, DidClose(w) PROVE Latest(u)'
    <2>1. /\ w \in Uri /\ editor' = [editor EXCEPT ![w] = None]
          /\ source_texts' = [source_texts EXCEPT ![w] = None]
          /\ tasks' = Append(tasks, [kind |-> "close", uri |-> w, edit |-> None])
          /\ UNCHANGED <<documents, graph, worker, shown>>
      BY <1>7, PipelineConstants DEF DidClose, SendTask
    <2>2. CASE u = w
      BY <1>0, <2>1, <2>2 DEF Latest, Accepted, TypeOK
    <2>3. CASE u # w
      <3>1. /\ editor'[u] = editor[u] /\ source_texts'[u] = source_texts[u]
        BY <1>0, <2>1, <2>3 DEF TypeOK
      <3>2. \E task \in Task : /\ tasks' = Append(tasks, task)
                               /\ ~(task.kind # "check" /\ task.uri = u)
        BY <1>4, <2>1, <2>3
      <3> QED
        BY <1>1, <2>1, <3>1, <3>2
    <2> QED
      BY <2>2, <2>3
  <1>8. ASSUME NEW w \in EditorFiles, Save(w) PROVE Latest(u)'
    BY <1>1, <1>8 DEF Save
  <1>9. ASSUME NEW w \in DiskFiles, NEW x \in Text, DiskWrite(w, x) PROVE Latest(u)'
    BY <1>1, <1>9 DEF DiskWrite
  <1>10. ASSUME NEW w \in DiskFiles, DiskDelete(w) PROVE Latest(u)'
    BY <1>1, <1>10 DEF DiskDelete
  <1>11. CASE CheckWorkspaceCommand
    <2>1. [kind |-> "check", uri |-> None, edit |-> None] \in Task
      BY DEF Task
    <2> QED
      BY <1>1, <1>11, <2>1 DEF CheckWorkspaceCommand, SendTask
  <1>12. ASSUME NEW w \in Uri, DidChangeWatchedFiles(w) PROVE Latest(u)'
    <2>1. /\ UNCHANGED <<editor, source_texts, documents, graph, worker, shown>>
          /\ source_texts[w] # None => tasks' = tasks
      BY <1>12 DEF DidChangeWatchedFiles
    <2>2. CASE u = w
      BY <1>1, <2>1, <2>2 DEF Latest
    <2>3. CASE u # w
      <3>1. \/ tasks' = tasks
            \/ tasks' = Append(tasks, [kind |-> "change", uri |-> w, edit |-> None])
            \/ tasks' = Append(tasks, [kind |-> "delete", uri |-> w, edit |-> None])
        BY <1>12 DEF DidChangeWatchedFiles, SendTask
      <3>2. \/ tasks' = tasks
            \/ \E task \in Task : /\ tasks' = Append(tasks, task)
                                  /\ ~(task.kind # "check" /\ task.uri = u)
        BY <1>4, <2>3, <3>1
      <3> QED
        BY <1>1, <2>1, <3>2
    <2> QED
      BY <2>2, <2>3
  <1> QED
    BY <1>5, <1>6, <1>7, <1>8, <1>9, <1>10, <1>11, <1>12 DEF User

LEMMA LatestReceive ==
    ASSUME ShapeOK, NEW u \in Uri, Latest(u),
           \/ ReceiveParse \/ ReceiveClose \/ ReceiveExternalChange
           \/ ReceiveExternalDelete \/ ReceiveCheckWorkspace
    PROVE  /\ Latest(u)'
           /\ Accepted(u) => (NoTask(u) /\ Settled(u)) \/ UnderWay(u)'
  <1> DEFINE task == Head(tasks)
             Goal == Latest(u)' /\ ((NoTask(u) /\ Settled(u)) \/ UnderWay(u)')
  <1> USE EditIsNot DEF env, graph
  <1>0. TypeOK /\ tasks \in Seq(Task)
    BY DEF ShapeOK, TypeOK
  <1>1. /\ tasks # <<>> /\ tasks' = Tail(tasks) /\ UNCHANGED <<editor, source_texts, shown>>
        /\ job = Idle /\ job.step = "idle" /\ batch' = batch /\ batch[u] = None
    BY ReceivedTask
       DEF ReceiveParse, ReceiveClose, ReceiveExternalChange, ReceiveExternalDelete,
           ReceiveCheckWorkspace, Receive
  <1>2. SUFFICES ASSUME Accepted(u), editor[u] # None, source_texts[u] # None
                 PROVE  Goal
    BY <1>1 DEF Latest, Accepted
  <1>3. /\ NoTask(u) => NoTask(u)' /\ ~(task.kind # "check" /\ task.uri = u)
        /\ QueuedLast(u) => \/ QueuedLast(u)'
                            \/ /\ NoTask(u)' /\ task.kind = "parse" /\ task.uri = u
                               /\ task.edit = editor[u]
    BY <1>0, <1>1, LatestReceived
  <1>4. ASSUME task.kind # "parse",
               ~(task.kind # "check" /\ task.uri = u) =>
                  (Held(u) => Held(u)') /\ (Settled(u) => Settled(u)')
        PROVE  Goal
    BY <1>1, <1>2, <1>3, <1>4 DEF Latest, UnderWay
  <1>5. ASSUME UNCHANGED <<documents, pending>>, task.kind \notin {"parse", "close"},
               job'.step \in {"idle", "refresh", "check_index"},
               job'.step = "check_index" => job'.parsed = {},
               ~(task.kind # "check" /\ task.uri = u) /\ files[u] # None =>
                  files'[u] = files[u]
        PROVE  Goal
    <2>1. editor[u].text # None
      BY <1>0, <1>2 DEF TypeOK, Edit
    <2>2. ASSUME ~(task.kind # "check" /\ task.uri = u)
          PROVE  (Held(u) => Held(u)') /\ (Settled(u) => Settled(u)')
      BY <1>1, <1>5, <2>1, <2>2 DEF Held, Settled, Flushing
    <2> QED
      BY <1>4, <1>5, <2>2
  <1>6. CASE ReceiveParse
    <2>1. /\ task.uri \in Uri /\ task.kind = "parse"
          /\ pending' = [pending EXCEPT ![task.uri] = task.edit]
          /\ UNCHANGED <<documents, batch, job, shown, files>>
      BY <1>6, ReceivedTask DEF ReceiveParse, Coalesced
    <2>2. pending'[u] = IF task.uri = u THEN task.edit ELSE pending[u]
      BY <1>0, <2>1 DEF TypeOK
    <2>3. task.uri # u => (Held(u) => Held(u)') /\ (Settled(u) => Settled(u)')
      BY <1>1, <2>1, <2>2 DEF Held, Settled, Flushing
    <2>4. task.uri = u /\ task.edit = editor[u] => Held(u)'
      BY <1>1, <2>2 DEF Held
    <2> QED
      BY <1>1, <1>2, <1>3, <2>1, <2>3, <2>4 DEF Latest, UnderWay
  <1>7. CASE ReceiveClose
    <2>1. /\ task.uri \in Uri /\ task.kind = "close"
          /\ pending' = [pending EXCEPT ![task.uri] = None]
          /\ documents' = [documents EXCEPT ![task.uri] = None]
          /\ job' = [Idle EXCEPT !.step = "clear", !.uri = task.uri]
          /\ files' = files
      BY <1>7, ReceivedTask DEF ReceiveClose, Removed
    <2>2. job'.step = "clear" /\ job'.uri = task.uri
      BY <2>1 DEF Idle
    <2>3. task.uri # u => pending'[u] = pending[u] /\ documents'[u] = documents[u]
      BY <1>0, <2>1 DEF TypeOK
    <2>4. task.uri # u => (Held(u) => Held(u)') /\ (Settled(u) => Settled(u)')
      BY <1>1, <2>1, <2>2, <2>3 DEF Held, Settled, Flushing
    <2> QED
      BY <1>4, <2>1, <2>4
  <1>8. \A w : Refresh(w) => job'.step = "refresh"
    BY DEF Refresh, Idle
  <1>9. CASE ReceiveExternalChange
    <2>1. /\ job'.step \in {"idle", "refresh"} /\ task.kind = "change"
          /\ task.uri \in Uri /\ UNCHANGED <<documents, pending>>
      BY <1>1, <1>8, <1>9, ReceivedTask DEF ReceiveExternalChange
    <2>2. task.uri # u /\ files[u] # None => files'[u] = files[u]
      <3>1. CASE files' = files
        BY <3>1
      <3>2. CASE disk[task.uri] # None /\ IndexFile(task.uri, disk[task.uri])
        <4>1. disk[task.uri] \in Text
          BY <1>0, <2>1, <3>2 DEF TypeOK
        <4> QED
          BY <1>0, <2>1, <3>2, <4>1, Indexed DEF TypeOK
      <3> QED
        BY <1>9, <3>1, <3>2 DEF ReceiveExternalChange
    <2> QED
      BY <1>5, <2>1, <2>2
  <1>10. CASE ReceiveExternalDelete
    <2>1. /\ job'.step = "refresh" /\ task.kind = "delete"
          /\ task.uri \in Uri /\ UNCHANGED <<documents, pending>>
          /\ files' = [files EXCEPT ![task.uri] = None]
      BY <1>8, <1>10, ReceivedTask DEF ReceiveExternalDelete
    <2>2. task.uri # u => files'[u] = files[u]
      BY <1>0, <2>1 DEF TypeOK
    <2> QED
      BY <1>5, <2>1, <2>2
  <1>11. CASE ReceiveCheckWorkspace
    <2>1. /\ job'.step \in {"idle", "check_index"} /\ task.kind = "check"
          /\ job'.parsed = {} /\ UNCHANGED <<documents, pending, files>>
      BY <1>11, ReceivedTask DEF ReceiveCheckWorkspace, Idle
    <2> QED
      BY <1>5, <2>1
  <1> QED
    BY <1>6, <1>7, <1>9, <1>10, <1>11

LEMMA LatestFlush ==
    ASSUME ShapeOK, NEW u \in Uri, Session(u), Latest(u),
           \/ TimerFires \/ (\E w \in Uri : FlushParse(w))
           \/ FlushIndex \/ FlushStore \/ FlushPublish \/ FlushDone
    PROVE  /\ Latest(u)'
           /\ Accepted(u) => \/ NoTask(u) /\ Settled(u)
                             \/ UnderWay(u)'
                             \/ FlushPublish /\ job.uri = u
  <1> DEFINE Goal == /\ Held(u) => Held(u)' \/ (FlushPublish /\ job.uri = u /\ Settled(u)')
                     /\ Settled(u) => Settled(u)'
  <1> USE EditIsNot DEF env, graph
  <1>0. TypeOK /\ JobOK
    BY DEF ShapeOK
  <1>a. [Idle EXCEPT !.step = "drain"].step = "drain"
    BY DEF Idle
  <1>1. UNCHANGED <<tasks, editor, source_texts>>
    BY DEF TimerFires, FlushParse, FlushIndex, FlushStore, FlushPublish, FlushDone
  <1>2. SUFFICES ASSUME Accepted(u), editor[u] \in Edit, editor[u].text \in Text,
                        editor[u].text \notin Unparsable, NoTask(u)
                 PROVE  Goal
    <2>1. QueuedLast(u) => QueuedLast(u)'
      BY <1>1 DEF QueuedLast, SendsOf, Concerns
    <2>2. NoTask(u) => NoTask(u)'
      BY <1>1 DEF NoTask, Concerns
    <2>3. Accepted(u) => editor[u] \in Edit /\ editor[u].text \in Text
                         /\ editor[u].text \notin Unparsable
      BY <1>0 DEF Accepted, TypeOK, Edit
    <2> QED
      BY <1>1, <1>2, <2>1, <2>2, <2>3 DEF Latest, Accepted, UnderWay
  <1>3. editor[u] # None /\ editor[u].text # None
    BY <1>2
  <1>4. CASE TimerFires
    <2>1. batch'[u] = pending[u] /\ pending'[u] = None /\ job'.step = "drain"
          /\ job.step = "idle" /\ UNCHANGED <<tasks, editor, documents, shown, files>>
          /\ batch[u] = None
      BY <1>0, <1>4, <1>a, IdleFields DEF TimerFires, JobOK, Flushing
    <2> QED
      BY <1>3, <2>1 DEF Held, Settled, Flushing
  <1>5. ASSUME NEW w \in Uri, FlushParse(w)
        PROVE  Goal
    <2>1. /\ batch[w] # None /\ job.step = "drain"
          /\ batch'[u] = (IF u = w THEN None ELSE batch[u])
          /\ UNCHANGED <<editor, documents, shown, pending, files>>
          /\ pending[u] = None
      BY <1>0, <1>5 DEF FlushParse, TypeOK, JobOK
    <2>2. CASE u # w
      <3>1. job' = job \/ (job'.step = "index" /\ job'.uri = w)
        BY <1>5 DEF FlushParse, Idle
      <3>2. Held(u) => Held(u)'
        BY <1>3, <2>1, <2>2 DEF Held, Flushing
      <3>3. Settled(u) => Settled(u)'
        BY <2>1, <2>2, <3>1 DEF Settled, Flushing
      <3> QED
        BY <3>2, <3>3
    <2>3. CASE u = w
      <3>1. SUFFICES ASSUME batch[u] = editor[u] PROVE Held(u)'
        BY <1>3, <2>1, <2>3 DEF Held, Settled, Flushing
      <3>2. /\ job'.step = "index" /\ job'.uri = u /\ job'.edit = editor[u]
            /\ job'.is_current = (\/ documents[u] = None
                                  \/ documents[u].version <= editor[u].version)
        BY <1>2, <1>5, <2>3, <3>1 DEF FlushParse, Idle
      <3>3. ~CloseQueued(u)
        BY <1>2 DEF CloseQueued, NoTask, Concerns
      <3>4. documents[u] = None \/ documents[u].version <= editor[u].version
        BY <3>3 DEF Session, HeldFits, Within
      <3> QED
        BY <2>1, <2>3, <3>2, <3>4 DEF Held, Flushing
    <2> QED
      BY <2>2, <2>3
  <1>6. CASE FlushIndex
    <2>1. /\ job.step = "index" /\ job'.step = "store" /\ job.uri \in Uri
          /\ job.edit.text \in Text /\ job'.is_current = job.is_current
          /\ job'.uri = job.uri /\ job'.edit = job.edit
          /\ UNCHANGED <<editor, documents, shown, pending, batch>>
      BY <1>0, <1>6 DEF FlushIndex, TypeOK, JobOK, Flushing, Edit
    <2>2. /\ job.uri = u => files'[u] = job.edit.text
          /\ job.uri # u /\ files[u] # None => files'[u] = files[u]
      BY <1>0, <1>6, <2>1, Indexed DEF FlushIndex, TypeOK
    <2>3. Held(u) => Held(u)'
      BY <2>1, <2>2 DEF Held, Flushing
    <2>4. Settled(u) => Settled(u)'
      BY <1>3, <2>1, <2>2 DEF Settled, Flushing
    <2> QED
      BY <2>3, <2>4
  <1>7. CASE FlushStore
    <2>1. /\ job.step = "store" /\ job.uri \in Uri
          /\ documents'[u] = (IF u = job.uri THEN job.edit ELSE documents[u])
          /\ UNCHANGED <<editor, files, shown, pending, batch>>
      BY <1>0, <1>7 DEF FlushStore, TypeOK, JobOK, Flushing
    <2>2. IF job.is_current
            THEN /\ job'.step = "publish" /\ job'.uri = job.uri /\ job'.edit = job.edit
                 /\ job'.is_current
            ELSE job'.step = "drain"
      BY <1>0, <1>7, <1>a DEF FlushStore, TypeOK
    <2>3. Held(u) => Held(u)'
      BY <2>1, <2>2 DEF Held, Flushing
    <2>4. Settled(u) => Settled(u)'
      BY <2>1, <2>2 DEF Settled, Flushing
    <2> QED
      BY <2>3, <2>4
  <1>8. CASE FlushPublish
    <2>1. /\ job.step = "publish" /\ job'.step = "drain" /\ job.uri \in Uri
          /\ job.edit.version \in Nat /\ job.edit.text \in Text
          /\ UNCHANGED <<editor, documents, files, pending, batch>>
      BY <1>0, <1>8, <1>a DEF FlushPublish, JobOK, Flushing, Edit
    <2>2. /\ u # job.uri => shown'[u] = shown[u]
          /\ u = job.uri => /\ shown'[u] # None
                            /\ shown'[u].version = job.edit.version
                            /\ shown'[u].text = job.edit.text
      BY <1>0, <1>8, <2>1, Checked DEF FlushPublish, TypeOK
    <2>3. CASE u = job.uri
      <3>1. Settled(u) => FALSE
        BY <2>1, <2>3 DEF Settled, Flushing
      <3>2. Held(u) => Held(u)' \/ Settled(u)'
        BY <2>1, <2>2, <2>3 DEF Held, Settled, Flushing
      <3> QED
        BY <1>8, <2>3, <3>1, <3>2
    <2>4. CASE u # job.uri
      BY <2>1, <2>2, <2>4 DEF Held, Settled, Flushing
    <2> QED
      BY <2>3, <2>4
  <1>9. CASE FlushDone
    <2>1. /\ job.step = "drain" /\ job'.step = "idle"
          /\ UNCHANGED <<editor, documents, shown, pending, batch, files>>
      BY <1>9, IdleFields DEF FlushDone
    <2> QED
      BY <2>1 DEF Held, Settled, Flushing
  <1> QED
    BY <1>4, <1>5, <1>6, <1>7, <1>8, <1>9

LEMMA LatestCheck ==
    ASSUME ShapeOK, NEW u \in Uri, Latest(u),
           \/ ClearDiagnostics \/ (\E w \in Uri : RefreshOne(w)) \/ RefreshNone
           \/ (\E w \in Uri : CheckIndex(w))
           \/ (\E w \in Uri, x \in Text : CheckDisk(w, x)) \/ CheckOpenFiles
    PROVE  /\ Latest(u)'
           /\ Accepted(u) => (NoTask(u) /\ Settled(u)) \/ UnderWay(u)'
  <1> USE EditIsNot DEF env, graph
  <1>0. TypeOK /\ JobOK
    BY DEF ShapeOK
  <1>1. /\ UNCHANGED <<tasks, editor, source_texts, documents, pending, batch>>
        /\ job.step \in {"clear", "refresh", "check_index"}
        /\ ~Flushing
    BY DEF ClearDiagnostics, RefreshOne, RefreshNone, CheckIndex, CheckDisk,
           CheckOpenFiles, Flushing
  <1>2. Held(u) => Held(u)'
    BY <1>1 DEF Held
  <1>3. SUFFICES ASSUME Accepted(u), editor[u] \in Edit, editor[u].text \in Text,
                        Settled(u)
                 PROVE  Settled(u)'
    <2>1. QueuedLast(u) => QueuedLast(u)'
      BY <1>1 DEF QueuedLast, SendsOf, Concerns
    <2>2. NoTask(u) => NoTask(u)'
      BY <1>1 DEF NoTask, Concerns
    <2>3. Accepted(u) => editor[u] \in Edit /\ editor[u].text \in Text
      BY <1>0 DEF Accepted, TypeOK, Edit
    <2> QED
      BY <1>1, <1>2, <1>3, <2>1, <2>2, <2>3 DEF Latest, Accepted, UnderWay
  <1>4. editor[u] # None /\ editor[u].text # None /\ documents[u] = editor[u]
        /\ files[u] = editor[u].text /\ editor[u].version \in Nat
    BY <1>3 DEF Settled, Edit
  <1>5. ASSUME files'[u] = files[u],
               job'.step \in {"idle", "refresh", "check_index"},
               job'.step = "check_index" =>
                  /\ job.step = "check_index"
                  /\ \A x \in Text : <<u, x>> \in job'.parsed => <<u, x>> \in job.parsed,
               \/ shown'[u] = shown[u]
               \/ /\ shown'[u] # None
                  /\ shown'[u].version = documents[u].version
                  /\ shown'[u].text = documents[u].text
        PROVE  Settled(u)'
    BY <1>1, <1>3, <1>4, <1>5 DEF Settled, Flushing
  <1>6. CASE ClearDiagnostics
    <2>1. job.step = "clear" /\ job.uri # u /\ job.uri \in Uri /\ job'.step = "idle"
      BY <1>0, <1>3, <1>6, IdleFields DEF ClearDiagnostics, JobOK, Settled
    <2>2. shown'[u] = shown[u]
      BY <1>0, <1>6, <2>1 DEF ClearDiagnostics, TypeOK
    <2> QED
      BY <1>5, <1>6, <2>1, <2>2 DEF ClearDiagnostics
  <1>7. ASSUME NEW w \in Uri, RefreshOne(w) PROVE Settled(u)'
    <2>1. job.step = "refresh" /\ job'.step \in {"idle", "refresh"}
      BY <1>0, <1>7, IdleFields DEF RefreshOne, TypeOK
    <2>2. \/ shown'[u] = shown[u]
          \/ /\ shown'[u] # None
             /\ shown'[u].version = documents[u].version
             /\ shown'[u].text = documents[u].text
      <3>1. CASE documents[w] = None
        BY <1>7, <3>1 DEF RefreshOne
      <3>2. CASE documents[w] # None
        <4>1. documents[w].version \in Nat /\ documents[w].text \in Text
          BY <1>0, <3>2 DEF TypeOK, Edit
        <4>2. /\ CheckDocument(w) # None
              /\ CheckDocument(w).version = documents[w].version
              /\ CheckDocument(w).text = documents[w].text
          BY <1>0, <4>1, Checked DEF CheckDocument, TypeOK
        <4>3. shown'[u] = (IF u = w THEN CheckDocument(w) ELSE shown[u])
          BY <1>0, <1>7, <3>2 DEF RefreshOne, TypeOK
        <4> QED
          BY <4>2, <4>3
      <3> QED
        BY <3>1, <3>2
    <2> QED
      BY <1>5, <1>7, <2>1, <2>2 DEF RefreshOne
  <1>8. CASE RefreshNone
    BY <1>5, <1>8, IdleFields DEF RefreshNone
  <1>9. ASSUME NEW w \in Uri, CheckIndex(w) PROVE Settled(u)'
    <2>1. /\ job.step = "check_index" /\ job'.step = "check_index"
          /\ shown' = shown
      BY <1>0, <1>9 DEF CheckIndex, TypeOK
    <2>2. CASE files' = files /\ job'.parsed = job.parsed
      BY <1>5, <2>1, <2>2
    <2>3. CASE /\ documents[w] = None /\ disk[w] # None
               /\ IndexFile(w, disk[w]) /\ job'.parsed = job.parsed \cup {<<w, disk[w]>>}
      <3>1. u # w /\ disk[w] \in Text
        BY <1>0, <1>4, <2>3 DEF TypeOK
      <3>2. files'[u] = files[u]
        BY <1>0, <1>4, <2>3, <3>1, Indexed DEF TypeOK
      <3>3. \A x \in Text : <<u, x>> \in job'.parsed => <<u, x>> \in job.parsed
        BY <2>3, <3>1
      <3> QED
        BY <1>5, <2>1, <3>2, <3>3
    <2> QED
      BY <1>0, <1>9, <2>2, <2>3 DEF CheckIndex, TypeOK
  <1>10. ASSUME NEW w \in Uri, NEW x \in Text, CheckDisk(w, x) PROVE Settled(u)'
    <2>1. /\ job.step = "check_index" /\ job'.step = "check_index"
          /\ files' = files /\ job'.parsed \subseteq job.parsed
          /\ <<w, x>> \in job.parsed
      BY <1>0, <1>10 DEF CheckDisk, TypeOK
    <2>2. u # w
      BY <1>3, <2>1 DEF Settled
    <2>3. shown'[u] = shown[u]
      BY <1>0, <1>10, <2>2 DEF CheckDisk, TypeOK
    <2> QED
      BY <1>5, <2>1, <2>3
  <1>11. CASE CheckOpenFiles
    <2>1. job'.step = "refresh"
      BY <1>11 DEF CheckOpenFiles, Idle
    <2> QED
      BY <1>5, <1>11, <2>1 DEF CheckOpenFiles
  <1> QED
    BY <1>6, <1>7, <1>8, <1>9, <1>10, <1>11

LatestOK == \A u \in Uri : Latest(u)

LEMMA LatestInit == Init => LatestOK
  BY DEF Init, LatestOK, Latest, Accepted

LEMMA LatestStep == ShapeOK /\ SessionsOK /\ LatestOK /\ [Next]_vars => LatestOK'
  <1> SUFFICES ASSUME ShapeOK, NEW u \in Uri, Session(u), Latest(u), [Next]_vars
               PROVE  Latest(u)'
    BY DEF SessionsOK, LatestOK
  <1>1. CASE UNCHANGED vars
    BY <1>1 DEF vars, env, graph, worker, Latest, Accepted, QueuedLast, NoTask, Held,
                Settled, Flushing, SendsOf, Concerns
  <1>2. CASE Worker
    BY <1>2, LatestReceive, LatestFlush, LatestCheck DEF Worker
  <1> QED
    BY <1>1, <1>2, LatestUser DEF Next, Watcher

\* With nothing queued, armed or under way, an accepted buffer can only have
\* been settled ...
LEMMA SettledAtRest ==
    ASSUME ShapeOK, LatestOK, Quiet, NEW u \in Uri, Accepted(u)
    PROVE  NoTask(u) /\ Settled(u)
  <1>1. job.step = "idle" /\ tasks = <<>> /\ ~has_pending
    BY DEF Quiet, Idle
  <1>2. pending[u] = None /\ batch[u] = None /\ ~Flushing
    BY <1>1 DEF ShapeOK, JobOK, Flushing
  <1>3. ~QueuedLast(u) /\ NoTask(u)
    BY <1>1 DEF QueuedLast, NoTask
  <1>4. ~Held(u)
    BY <1>2 DEF Held, Accepted
  <1> QED
    BY <1>3, <1>4 DEF LatestOK, Latest

\* ... and a buffer that is closed left nothing that fits a session.
LEMMA QuietMeans == ShapeOK /\ SessionsOK /\ LatestOK => QuietMeansCurrent
  <1> SUFFICES ASSUME ShapeOK, SessionsOK, LatestOK, Quiet, NEW u \in Uri
               PROVE  /\ Accepted(u) => /\ documents[u] = editor[u]
                                        /\ files[u] = editor[u].text
                                        /\ shown[u] # None
                                        /\ shown[u].version = editor[u].version
                                        /\ shown[u].text = editor[u].text
                      /\ editor[u] = None => /\ documents[u] = None
                                             /\ shown[u] # None => shown[u].version = None
    BY DEF QuietMeansCurrent
  <1>1. job.step = "idle" /\ tasks = <<>> /\ ~has_pending
    BY DEF Quiet, Idle
  <1>2. Accepted(u) => Settled(u)
    BY SettledAtRest
  <1>3. ASSUME editor[u] = None
        PROVE  documents[u] = None /\ (shown[u] # None => shown[u].version = None)
    <2>1. ~CloseQueued(u)
      BY <1>1 DEF CloseQueued
    <2> QED
      BY <1>1, <1>3, <2>1 DEF SessionsOK, Session, HeldFits, Within
  <1> QED
    BY <1>2, <1>3 DEF Settled

\* However opens, edits, closes, file events and workspace checks interleave, a
\* server at rest has analysed, indexed and published every accepted document
\* at the editor's version and text, and has forgotten the closed ones.
THEOREM QuietIsCurrent == Spec => []QuietMeansCurrent
  <1>1. ShapeOK /\ SessionsOK /\ [Next]_vars => SessionsOK'
    BY SessionStep
  <1>2. ShapeOK /\ SessionsOK /\ LatestOK /\ [Next]_vars => LatestOK'
    BY LatestStep
  <1> QED
    BY <1>1, <1>2, PipelineTypeCorrect, SessionInit, LatestInit, QuietMeans, PTL DEF Spec

-----------------------------------------------------------------------------
(* Changes made outside the editor reach the diagnostics of importers.      *)

\* What an import leads to that is missing is indexed with the importer ...
LEMMA DependenciesClosed ==
    ASSUME NEW u \in Uri, NEW w \in Dependencies(u) \cup {u},
           NEW t \in Resolved(w), t # u, files[t] = None, disk[t] \notin Unparsable
    PROVE  t \in Dependencies(u)
  <1> DEFINE Needs(v) == {r \in Resolved(v) : r # u /\ files[r] = None
                                                /\ disk[r] \notin Unparsable}
             Closed(S) == \A v \in S \cup {u} : Needs(v) \subseteq S
  <1>1. Dependencies(u) = {r \in Uri : \A S \in SUBSET Uri : Closed(S) => r \in S}
    BY DEF Dependencies
  <1>2. t \in Needs(w)
    OBVIOUS
  <1>3. ASSUME NEW S \in SUBSET Uri, Closed(S) PROVE t \in S
    <2>1. w \in S \cup {u}
      BY <1>1, <1>3
    <2> QED
      BY <1>2, <1>3, <2>1
  <1>4. t \in Uri
    BY PipelineConstants, <1>1 DEF Resolved
  <1> QED
    BY <1>1, <1>3, <1>4

\* ... and nothing else is.
LEMMA DependencyImported ==
    ASSUME NEW u \in Uri, NEW t \in Dependencies(u)
    PROVE  /\ t \in Uri /\ t # u /\ files[t] = None /\ disk[t] # None
           /\ \E w \in Dependencies(u) \cup {u} : t \in Imports[w]
  <1> DEFINE Needs(v) == {r \in Resolved(v) : r # u /\ files[r] = None
                                                /\ disk[r] \notin Unparsable}
             Closed(S) == \A v \in S \cup {u} : Needs(v) \subseteq S
             others == Dependencies(u) \ {t}
  <1>1. Dependencies(u) = {r \in Uri : \A S \in SUBSET Uri : Closed(S) => r \in S}
    BY DEF Dependencies
  <1>2. others \in SUBSET Uri /\ t \in Uri
    BY <1>1
  <1>3. ~Closed(others)
    BY <1>1, <1>2
  <1>4. PICK w \in others \cup {u} : ~(Needs(w) \subseteq others)
    BY <1>3
  <1>5. PICK r \in Needs(w) : r \notin others
    BY <1>4
  <1>6. r \in Dependencies(u)
    BY DependenciesClosed
  <1>7. r = t
    BY <1>5, <1>6
  <1> QED
    BY <1>2, <1>7 DEF Resolved

\* Only what the user opens has texts of the editor.
FromEditor ==
    /\ \A u \in Uri : source_texts[u] # None \/ pending[u] # None \/ batch[u] # None =>
                          u \in EditorFiles
    /\ \A i \in DOMAIN tasks : tasks[i].kind = "parse" => tasks[i].uri \in EditorFiles
    /\ Flushing => job.uri \in EditorFiles

LEMMA FromEditorInit == Init => FromEditor
  BY DEF Init, FromEditor, Flushing, Idle

LEMMA FromEditorSent ==
    ASSUME ShapeOK, FromEditor, NEW task \in Task, tasks' = Append(tasks, task),
           task.kind = "parse" => task.uri \in EditorFiles
    PROVE  \A i \in DOMAIN tasks' : tasks'[i].kind = "parse" => tasks'[i].uri \in EditorFiles
  <1>1. tasks \in Seq(Task)
    BY DEF ShapeOK, TypeOK
  <1>2. /\ DOMAIN tasks = 1 .. Len(tasks) /\ Len(tasks) \in Nat
        /\ DOMAIN tasks' = 1 .. Len(tasks) + 1
        /\ \A i \in DOMAIN tasks : tasks'[i] = tasks[i]
        /\ tasks'[Len(tasks) + 1] = task
    BY <1>1, Sent
  <1>3. ASSUME NEW i \in DOMAIN tasks' PROVE i \in DOMAIN tasks \/ i = Len(tasks) + 1
    BY <1>2
  <1> QED
    BY <1>2, <1>3 DEF FromEditor

LEMMA FromEditorUser ==
    ASSUME ShapeOK, FromEditor, User \/ \E w \in Uri : DidChangeWatchedFiles(w)
    PROVE  FromEditor'
  <1> USE PipelineConstants DEF env, graph, worker
  <1>1. SUFFICES ASSUME \A u \in Uri : source_texts'[u] # None => source_texts[u] # None
                                                                  \/ u \in EditorFiles,
                        \/ tasks' = tasks
                        \/ \E task \in Task : /\ tasks' = Append(tasks, task)
                                              /\ task.kind = "parse" => task.uri \in EditorFiles,
                        UNCHANGED worker
                 PROVE  FromEditor'
    <2>1. TypeOK
      BY DEF ShapeOK
    <2>2. ASSUME NEW u \in EditorFiles, NEW v \in Nat, NEW x \in Text,
                 source_texts' = [source_texts EXCEPT ![u] = x],
                 SendTask("parse", u, [version |-> v, text |-> x]), UNCHANGED worker
          PROVE  FromEditor'
      <3>1. u \in Uri /\ [version |-> v, text |-> x] \in Edit
        BY DEF Edit
      <3>2. [kind |-> "parse", uri |-> u, edit |-> [version |-> v, text |-> x]] \in Task
        BY <3>1 DEF Task
      <3> QED
        BY <1>1, <2>1, <2>2, <3>2 DEF SendTask, TypeOK
    <2>3. ASSUME source_texts' = source_texts, tasks' = tasks, UNCHANGED worker
          PROVE  FromEditor'
      BY <1>1, <2>3
    <2>4. ASSUME NEW u \in EditorFiles, NEW v \in OpenVersion, NEW x \in Text, DidOpen(u, v, x)
          PROVE  FromEditor'
      BY <2>2, <2>3, <2>4 DEF DidOpen
    <2>5. ASSUME NEW u \in EditorFiles, NEW x \in Text, DidChange(u, x) PROVE FromEditor'
      <3>1. editor[u].version + 1 \in Nat
        BY <2>1, <2>5 DEF DidChange, TypeOK, Edit
      <3> QED
        BY <2>2, <2>3, <2>5, <3>1 DEF DidChange
    <2>6. ASSUME NEW u \in EditorFiles, DidClose(u) PROVE FromEditor'
      <3>1. [kind |-> "close", uri |-> u, edit |-> None] \in Task
        BY DEF Task
      <3> QED
        BY <1>1, <2>1, <2>6, <3>1 DEF DidClose, SendTask, TypeOK
    <2>7. ASSUME NEW u \in Uri, DidChangeWatchedFiles(u) PROVE FromEditor'
      <3>1. [kind |-> IF watched[u] = "deleted" THEN "delete" ELSE "change", uri |-> u,
             edit |-> None] \in Task
        BY DEF Task
      <3> QED
        BY <1>1, <2>7, <3>1 DEF DidChangeWatchedFiles, SendTask
    <2>8. CASE CheckWorkspaceCommand
      <3>1. [kind |-> "check", uri |-> None, edit |-> None] \in Task
        BY DEF Task
      <3> QED
        BY <1>1, <2>8, <3>1 DEF CheckWorkspaceCommand, SendTask
    <2> QED
      BY <2>3, <2>4, <2>5, <2>6, <2>7, <2>8 DEF User, Save, DiskWrite, DiskDelete
  <1>2. \A i \in DOMAIN tasks' : tasks'[i].kind = "parse" => tasks'[i].uri \in EditorFiles
    BY <1>1, FromEditorSent DEF FromEditor
  <1> QED
    BY <1>1, <1>2 DEF FromEditor, Flushing

LEMMA FromEditorWorker ==
    ASSUME ShapeOK, FromEditor, Worker
    PROVE  FromEditor'
  <1> USE DEF env, graph
  <1>0. TypeOK /\ tasks \in Seq(Task)
    BY DEF ShapeOK, TypeOK
  <1>1. ASSUME UNCHANGED <<source_texts, batch, job>>, ReceiveParse PROVE FromEditor'
    <2>1. \A i \in DOMAIN tasks' : tasks'[i].kind = "parse" => tasks'[i].uri \in EditorFiles
      BY <1>0, <1>1, Received DEF FromEditor, ReceiveParse, Receive
    <2>2. 1 \in DOMAIN tasks /\ Head(tasks) = tasks[1] /\ tasks[1].kind = "parse"
      BY <1>0, <1>1, Received DEF ReceiveParse, Receive
    <2>3. \A u \in Uri : pending'[u] # None => pending[u] # None \/ u = Head(tasks).uri
      BY <1>0, <1>1 DEF ReceiveParse, TypeOK
    <2> QED
      BY <1>1, <2>1, <2>2, <2>3 DEF FromEditor, Flushing
  <1>2. ASSUME source_texts' = source_texts, tasks' = tasks \/ (tasks' = Tail(tasks) /\ tasks # <<>>),
               \A u \in Uri : pending'[u] # None \/ batch'[u] # None =>
                                  pending[u] # None \/ batch[u] # None,
               Flushing' => \/ Flushing /\ job'.uri = job.uri
                            \/ job'.uri \in Uri /\ batch[job'.uri] # None
        PROVE  FromEditor'
    <2>1. \A i \in DOMAIN tasks' : tasks'[i].kind = "parse" => tasks'[i].uri \in EditorFiles
      BY <1>0, <1>2, Received DEF FromEditor
    <2> QED
      BY <1>2, <2>1 DEF FromEditor
  <1>3. CASE ReceiveParse
    BY <1>1, <1>3 DEF ReceiveParse
  <1>4. CASE ReceiveClose
    <2>1. Head(tasks).uri \in Uri
      BY <1>0, <1>4, ReceivedTask DEF ReceiveClose
    <2>2. \A u \in Uri : pending'[u] # None => pending[u] # None
      BY <1>0, <1>4, <2>1 DEF ReceiveClose, Removed, TypeOK
    <2>3. ~Flushing'
      BY <1>4 DEF ReceiveClose, Flushing, Idle
    <2> QED
      BY <1>2, <1>4, <2>2, <2>3 DEF ReceiveClose, Receive
  <1>5. \A w : Refresh(w) => ~Flushing'
    BY DEF Refresh, Flushing, Idle
  <1>6. CASE ReceiveExternalChange
    BY <1>2, <1>5, <1>6 DEF ReceiveExternalChange, Receive, Flushing
  <1>7. CASE ReceiveExternalDelete
    BY <1>2, <1>5, <1>7 DEF ReceiveExternalDelete, Receive
  <1>8. CASE ReceiveCheckWorkspace
    <2>1. ~Flushing'
      BY <1>8 DEF ReceiveCheckWorkspace, Flushing, Idle
    <2> QED
      BY <1>2, <1>8, <2>1 DEF ReceiveCheckWorkspace, Receive
  <1>9. CASE TimerFires
    <2>1. ~Flushing' /\ \A u \in Uri : pending'[u] = None
      BY <1>9 DEF TimerFires, Flushing, Idle
    <2> QED
      BY <1>2, <1>9, <2>1 DEF TimerFires
  <1>10. ASSUME NEW w \in Uri, FlushParse(w) PROVE FromEditor'
    <2>1. \A u \in Uri : batch'[u] # None => batch[u] # None
      BY <1>0, <1>10 DEF FlushParse, TypeOK
    <2>2. ~Flushing' \/ (job'.uri = w /\ batch[w] # None)
      BY <1>10 DEF FlushParse, Flushing, Idle
    <2> QED
      BY <1>2, <1>10, <2>1, <2>2 DEF FlushParse
  <1>11. CASE FlushIndex \/ FlushStore
    <2>1. Flushing /\ (Flushing' => job'.uri = job.uri)
      BY <1>0, <1>11 DEF FlushIndex, FlushStore, Flushing, Idle, TypeOK
    <2> QED
      BY <1>2, <1>11, <2>1 DEF FlushIndex, FlushStore
  <1>12. CASE \/ FlushPublish \/ FlushDone \/ ClearDiagnostics \/ RefreshNone \/ CheckOpenFiles
    <2>1. \/ job' = Idle
          \/ job' = [Idle EXCEPT !.step = "drain"]
          \/ job' = [Idle EXCEPT !.step = "refresh", !.rest = Uri]
      BY <1>12 DEF FlushPublish, FlushDone, ClearDiagnostics, RefreshNone, CheckOpenFiles
    <2>2. /\ Idle.step = "idle" /\ [Idle EXCEPT !.step = "drain"].step = "drain"
          /\ [Idle EXCEPT !.step = "refresh", !.rest = Uri].step = "refresh"
      BY DEF Idle
    <2>3. ~Flushing'
      BY <2>1, <2>2 DEF Flushing
    <2> QED
      BY <1>2, <1>12, <2>3 DEF FlushPublish, FlushDone, ClearDiagnostics, RefreshNone,
                               CheckOpenFiles
  <1>13. ASSUME NEW w \in Uri,
                RefreshOne(w) \/ CheckIndex(w) \/ \E x \in Text : CheckDisk(w, x)
         PROVE  FromEditor'
    <2>1. RefreshOne(w) => job'.step \in {"idle", "refresh"}
      BY <1>0, IdleFields DEF RefreshOne, TypeOK
    <2>2. CheckIndex(w) \/ (\E x \in Text : CheckDisk(w, x)) => job'.step = "check_index"
      BY <1>0 DEF CheckIndex, CheckDisk, TypeOK
    <2>3. ~Flushing'
      BY <1>13, <2>1, <2>2 DEF Flushing
    <2> QED
      BY <1>2, <1>13, <2>3 DEF RefreshOne, CheckIndex, CheckDisk
  <1> QED
    BY <1>3, <1>4, <1>6, <1>7, <1>8, <1>9, <1>10, <1>11, <1>12, <1>13 DEF Worker
\* What the watcher has said of t, or will say, that the worker has not read.
Notice(t, i) == tasks[i].kind \in {"change", "delete"} /\ tasks[i].uri = t
Expected(t) == watched[t] # None \/ \E i \in DOMAIN tasks : Notice(t, i)

\* The last of it says whether t is on disk.
Truthful(t) ==
    /\ watched[t] # None => (watched[t] = "deleted" <=> disk[t] = None)
    /\ watched[t] = None =>
          \A i \in DOMAIN tasks :
              Notice(t, i) /\ (\A j \in DOMAIN tasks : j > i => ~Notice(t, j)) =>
                  (tasks[i].kind = "delete" <=> disk[t] = None)

\* The graph may be behind the disk, or ahead of the diagnostics.
Excused(t) == Expected(t) \/ disk[t] \in Oversize \cup Unparsable

\* An import that is on disk and not in the graph is excused.
Accounted(t) ==
    disk[t] # None /\ files[t] = None /\ (\E v \in Uri : t \in edges[v]) => Excused(t)

LEMMA NoticeSent ==
    ASSUME ShapeOK, NEW task \in Task, tasks' = Append(tasks, task), NEW t \in Uri
    PROVE  /\ (\E i \in DOMAIN tasks : Notice(t, i)) => (\E i \in DOMAIN tasks' : Notice(t, i)')
           /\ task.kind \in {"change", "delete"} /\ task.uri = t =>
                 /\ \E i \in DOMAIN tasks' : Notice(t, i)'
                 /\ \A i \in DOMAIN tasks' :
                       Notice(t, i)' /\ (\A j \in DOMAIN tasks' : j > i => ~Notice(t, j)') =>
                           tasks'[i] = task
           /\ ~(task.kind \in {"change", "delete"} /\ task.uri = t) =>
                 \A i \in DOMAIN tasks' :
                    Notice(t, i)' /\ (\A j \in DOMAIN tasks' : j > i => ~Notice(t, j)') =>
                        /\ i \in DOMAIN tasks /\ tasks'[i] = tasks[i]
                        /\ Notice(t, i) /\ \A j \in DOMAIN tasks : j > i => ~Notice(t, j)
  <1>1. tasks \in Seq(Task)
    BY DEF ShapeOK, TypeOK
  <1>2. /\ DOMAIN tasks = 1 .. Len(tasks) /\ Len(tasks) \in Nat
        /\ DOMAIN tasks' = 1 .. Len(tasks) + 1
        /\ \A i \in DOMAIN tasks : tasks'[i] = tasks[i]
        /\ tasks'[Len(tasks) + 1] = task
    BY <1>1, Sent
  <1>3. \A i \in DOMAIN tasks : i \in DOMAIN tasks' /\ (Notice(t, i)' <=> Notice(t, i))
    BY <1>2 DEF Notice
  <1>4. PICK n \in DOMAIN tasks' :
           /\ tasks'[n] = task /\ \A i \in DOMAIN tasks' : i # n => i \in DOMAIN tasks /\ n > i
    BY <1>2
  <1>5. Notice(t, n)' <=> task.kind \in {"change", "delete"} /\ task.uri = t
    BY <1>4 DEF Notice
  <1>6. (\E i \in DOMAIN tasks : Notice(t, i)) => (\E i \in DOMAIN tasks' : Notice(t, i)')
    BY <1>3
  <1>7. ASSUME task.kind \in {"change", "delete"}, task.uri = t
        PROVE  /\ \E i \in DOMAIN tasks' : Notice(t, i)'
               /\ \A i \in DOMAIN tasks' :
                     Notice(t, i)' /\ (\A j \in DOMAIN tasks' : j > i => ~Notice(t, j)') =>
                         tasks'[i] = task
    BY <1>4, <1>5, <1>7
  <1>8. ASSUME ~(task.kind \in {"change", "delete"} /\ task.uri = t),
               NEW i \in DOMAIN tasks', Notice(t, i)',
               \A j \in DOMAIN tasks' : j > i => ~Notice(t, j)'
        PROVE  /\ i \in DOMAIN tasks /\ tasks'[i] = tasks[i]
               /\ Notice(t, i) /\ \A j \in DOMAIN tasks : j > i => ~Notice(t, j)
    BY <1>2, <1>3, <1>4, <1>5, <1>8
  <1> QED
    BY <1>6, <1>7, <1>8

LEMMA NoticeReceived ==
    ASSUME tasks \in Seq(Task), tasks # <<>>, tasks' = Tail(tasks),
           UNCHANGED <<disk, watched>>, NEW t \in Uri, Truthful(t)
    PROVE  /\ Truthful(t)'
           /\ Expected(t) => \/ Expected(t)'
                             \/ /\ Head(tasks).uri = t
                                /\ \/ Head(tasks).kind = "change" /\ disk[t] # None
                                   \/ Head(tasks).kind = "delete" /\ disk[t] = None
  <1>1. /\ DOMAIN tasks = 1 .. Len(tasks) /\ Len(tasks) \in Nat /\ Len(tasks) >= 1
        /\ DOMAIN tasks' = 1 .. Len(tasks) - 1
        /\ Head(tasks) = tasks[1]
        /\ \A i \in DOMAIN tasks' : tasks'[i] = tasks[i + 1]
    BY Received
  <1>2. \A i \in DOMAIN tasks' : i + 1 \in DOMAIN tasks /\ (Notice(t, i)' <=> Notice(t, i + 1))
    BY <1>1 DEF Notice
  <1>3. \A j \in DOMAIN tasks : j # 1 => \E k \in DOMAIN tasks' : k + 1 = j
    <2>1. ASSUME NEW j \in DOMAIN tasks, j # 1 PROVE \E k \in DOMAIN tasks' : k + 1 = j
      <3>1. j - 1 \in DOMAIN tasks' /\ (j - 1) + 1 = j
        BY <1>1, <2>1
      <3> QED
        BY <3>1
    <2> QED
      BY <2>1
  <1>4. ASSUME watched[t] = None, NEW i \in DOMAIN tasks', Notice(t, i)',
               \A j \in DOMAIN tasks' : j > i => ~Notice(t, j)'
        PROVE  tasks'[i].kind = "delete" <=> disk'[t] = None
    <2>1. ASSUME NEW j \in DOMAIN tasks, j > i + 1 PROVE ~Notice(t, j)
      <3>1. PICK k \in DOMAIN tasks' : k + 1 = j
        BY <1>1, <1>3, <2>1
      <3>2. k > i
        BY <1>1, <2>1, <3>1
      <3> QED
        BY <1>2, <1>4, <3>1, <3>2
    <2>2. tasks[i + 1].kind = "delete" <=> disk[t] = None
      BY <1>2, <1>4, <2>1 DEF Truthful
    <2> QED
      BY <1>1, <2>2
  <1>5. Truthful(t)'
    BY <1>4 DEF Truthful
  <1>6. ASSUME Expected(t), ~Expected(t)'
        PROVE  /\ Head(tasks).uri = t
               /\ \/ Head(tasks).kind = "change" /\ disk[t] # None
                  \/ Head(tasks).kind = "delete" /\ disk[t] = None
    <2>1. watched[t] = None /\ \A i \in DOMAIN tasks' : ~Notice(t, i)'
      BY <1>6 DEF Expected
    <2>2. \A j \in DOMAIN tasks : j # 1 => ~Notice(t, j)
      BY <1>2, <1>3, <2>1
    <2>3. Notice(t, 1) /\ 1 \in DOMAIN tasks
      BY <1>6, <2>1, <2>2 DEF Expected
    <2>4. \A j \in DOMAIN tasks : j > 1 => ~Notice(t, j)
      BY <1>1, <2>2
    <2>5. tasks[1].kind = "delete" <=> disk[t] = None
      BY <2>1, <2>3, <2>4 DEF Truthful
    <2> QED
      BY <1>1, <2>3, <2>5 DEF Notice
  <1> QED
    BY <1>5, <1>6

\* The user and the watcher say what they do to a file outside the editor.
LEMMA NoticeUser ==
    ASSUME ShapeOK, NEW t \in Uri \ EditorFiles, source_texts[t] = None, Truthful(t),
           User \/ \E w \in Uri : DidChangeWatchedFiles(w)
    PROVE  /\ Truthful(t)'
           /\ Excused(t) => Excused(t)'
           /\ disk'[t] = disk[t] \/ Excused(t)'
  <1> USE PipelineConstants, EditIsNot
  <1> DEFINE Goal == /\ Truthful(t)'
                     /\ Excused(t) => Excused(t)'
                     /\ disk'[t] = disk[t] \/ Excused(t)'
  <1>0. TypeOK /\ t \in Uri
    BY DEF ShapeOK
  <1>1. ASSUME disk'[t] = disk[t], watched'[t] = watched[t], tasks' = tasks PROVE Goal
    BY <1>1 DEF Truthful, Excused, Expected, Notice
  <1>2. ASSUME disk'[t] = disk[t], watched'[t] = watched[t], NEW task \in Task,
               tasks' = Append(tasks, task),
               ~(task.kind \in {"change", "delete"} /\ task.uri = t)
        PROVE  Goal
    <2>1. Truthful(t)'
      BY <1>2, NoticeSent DEF Truthful
    <2>2. Expected(t) => Expected(t)'
      BY <1>2, NoticeSent DEF Expected
    <2> QED
      BY <1>2, <2>1, <2>2 DEF Excused
  <1>3. ASSUME watched'[t] # None, watched'[t] = "deleted" <=> disk'[t] = None PROVE Goal
    BY <1>3 DEF Truthful, Excused, Expected
  <1>4. ASSUME NEW w \in Uri, NEW x \in Text \cup {None},
               disk' = [disk EXCEPT ![w] = x], tasks' = tasks,
               watched' = [watched EXCEPT ![w] = IF x = None THEN "deleted" ELSE "changed"]
        PROVE  Goal
    <2>1. CASE w = t
      <3>1. disk'[t] = x /\ watched'[t] = (IF x = None THEN "deleted" ELSE "changed")
        BY <1>0, <1>4, <2>1 DEF TypeOK
      <3>2. watched'[t] # None
        BY <3>1, NoneIsNoEvent
      <3> QED
        BY <1>3, <3>1, <3>2
    <2>2. CASE w # t
      BY <1>0, <1>1, <1>4, <2>2 DEF TypeOK
    <2> QED
      BY <2>1, <2>2
  <1>5. ASSUME NEW u \in EditorFiles,
               \/ \E v \in OpenVersion, x \in Text : DidOpen(u, v, x)
               \/ \E x \in Text : DidChange(u, x)
               \/ DidClose(u) \/ Save(u)
        PROVE  Goal
    <2>1. u \in Uri /\ u # t
      OBVIOUS
    <2>2. UNCHANGED <<disk, watched>> \/ Save(u)
      BY <1>5 DEF DidOpen, DidChange, DidClose
    <2>3. disk'[t] = disk[t] /\ watched'[t] = watched[t]
      BY <1>0, <2>1, <2>2 DEF Save, TypeOK
    <2>4. \/ tasks' = tasks
          \/ \E e \in Edit : SendTask("parse", u, e)
          \/ SendTask("close", u, None)
      <3>1. \A v \in OpenVersion, x \in Text : [version |-> v, text |-> x] \in Edit
        BY DEF Edit
      <3>2. editor[u] # None =>
               \A x \in Text : [version |-> editor[u].version + 1, text |-> x] \in Edit
        BY <1>0, <2>1 DEF TypeOK, Edit
      <3> QED
        BY <1>5, <3>1, <3>2 DEF DidOpen, DidChange, DidClose, Save
    <2>5. ASSUME NEW e \in Edit, SendTask("parse", u, e) PROVE Goal
      <3>1. [kind |-> "parse", uri |-> u, edit |-> e] \in Task
        BY <2>1 DEF Task
      <3> QED
        BY <1>2, <2>3, <2>5, <3>1 DEF SendTask
    <2>6. ASSUME SendTask("close", u, None) PROVE Goal
      <3>1. [kind |-> "close", uri |-> u, edit |-> None] \in Task
        BY <2>1 DEF Task
      <3> QED
        BY <1>2, <2>3, <2>6, <3>1 DEF SendTask
    <2> QED
      BY <1>1, <2>3, <2>4, <2>5, <2>6
  <1>6. ASSUME NEW u \in DiskFiles, NEW x \in Text, DiskWrite(u, x) PROVE Goal
    BY <1>4, <1>6 DEF DiskWrite
  <1>7. ASSUME NEW u \in DiskFiles, DiskDelete(u) PROVE Goal
    BY <1>4, <1>7 DEF DiskDelete
  <1>8. CASE CheckWorkspaceCommand
    <2>1. [kind |-> "check", uri |-> None, edit |-> None] \in Task
      BY DEF Task
    <2> QED
      BY <1>2, <1>8, <2>1 DEF CheckWorkspaceCommand, SendTask
  <1>9. ASSUME NEW w \in Uri, DidChangeWatchedFiles(w) PROVE Goal
    <2> DEFINE task == [kind |-> IF watched[w] = "deleted" THEN "delete" ELSE "change",
                        uri |-> w, edit |-> None]
    <2>1. task \in Task /\ task.uri = w /\ task.kind \in {"change", "delete"}
          /\ (task.kind = "delete" <=> watched[w] = "deleted")
      BY DEF Task
    <2>2. disk' = disk /\ watched[w] # None /\ watched' = [watched EXCEPT ![w] = None]
          /\ (tasks' = tasks \/ tasks' = Append(tasks, task))
          /\ (source_texts[w] = None => tasks' = Append(tasks, task))
      BY <1>9 DEF DidChangeWatchedFiles, SendTask
    <2> HIDE DEF task
    <2>3. CASE w # t
      BY <1>0, <1>1, <1>2, <2>1, <2>2, <2>3 DEF TypeOK
    <2>4. CASE w = t
      <3>1. watched'[t] = None /\ tasks' = Append(tasks, task)
        BY <1>0, <2>2, <2>4 DEF TypeOK
      <3>2. Expected(t)'
        BY <2>1, <2>4, <3>1, NoticeSent DEF Expected
      <3>3. Truthful(t)'
        <4>1. task.kind = "delete" <=> disk'[t] = None
          BY <2>1, <2>2, <2>4 DEF Truthful
        <4>2. \A i \in DOMAIN tasks' :
                 Notice(t, i)' /\ (\A j \in DOMAIN tasks' : j > i => ~Notice(t, j)') =>
                     tasks'[i] = task
          BY <2>1, <2>4, <3>1, NoticeSent
        <4> QED
          BY <3>1, <4>1, <4>2 DEF Truthful
      <3> QED
        BY <3>2, <3>3 DEF Excused
    <2> QED
      BY <2>3, <2>4
  <1> QED
    BY <1>5, <1>6, <1>7, <1>8, <1>9 DEF User

LEMMA AccountedIndexed ==
    ASSUME ShapeOK, NEW w \in Uri, NEW x \in Text, IndexFile(w, x),
           disk' = disk, NEW t \in Uri, Accounted(t), t = w \/ (Excused(t) => Excused(t)')
    PROVE  Accounted(t)'
  <1> USE EditIsNot
  <1>0. TypeOK
    BY DEF ShapeOK
  <1>1. SUFFICES ASSUME disk[t] # None, files'[t] = None, NEW v \in Uri, t \in edges'[v]
                 PROVE  Excused(t)'
    BY DEF Accounted
  <1>2. t # w /\ (files[t] # None => files'[t] = files[t])
    BY <1>0, <1>1, Indexed DEF TypeOK
  <1>3. files[t] = None
    BY <1>1, <1>2
  <1>4. t \notin Dependencies(w)
    BY <1>1, <1>2 DEF IndexFile
  <1>5. CASE v \in Dependencies(w) \cup {w}
    <2>1. t \in Resolved(v)
      BY <1>1, <1>5 DEF IndexFile
    <2>2. disk[t] \in Unparsable
      BY <1>2, <1>3, <1>4, <1>5, <2>1, DependenciesClosed
    <2> QED
      BY <2>2 DEF Excused
  <1>6. CASE v \notin Dependencies(w) \cup {w}
    <2>1. t \in edges[v]
      BY <1>1, <1>6 DEF IndexFile
    <2>2. Excused(t)
      BY <1>1, <1>3, <2>1 DEF Accounted
    <2> QED
      BY <1>2, <2>2
  <1> QED
    BY <1>5, <1>6

\* A step of the worker forgets an excuse only in refreshing the dependents.
LEMMA NoticeWorker ==
    ASSUME ShapeOK, NEW t \in Uri, Truthful(t), Worker
    PROVE  /\ Truthful(t)' /\ disk' = disk
           /\ \/ Excused(t) => Excused(t)'
              \/ ReceiveExternalChange /\ Head(tasks).uri = t /\ IndexFile(t, disk[t])
                 /\ disk[t] \in Text /\ Refresh(t)
              \/ ReceiveExternalDelete /\ Head(tasks).uri = t /\ disk[t] = None
  <1> USE DEF env, graph, worker
  <1>0. TypeOK /\ tasks \in Seq(Task)
    BY DEF ShapeOK, TypeOK
  <1>1. UNCHANGED <<disk, watched>>
    BY DEF Worker, ReceiveParse, ReceiveClose, ClearDiagnostics, ReceiveExternalChange,
           ReceiveExternalDelete, RefreshOne, RefreshNone, TimerFires, FlushParse,
           FlushIndex, FlushStore, FlushPublish, FlushDone, ReceiveCheckWorkspace,
           CheckIndex, CheckDisk, CheckOpenFiles
  <1>2. \/ tasks' = tasks
        \/ ReceiveParse \/ ReceiveClose \/ ReceiveExternalChange
        \/ ReceiveExternalDelete \/ ReceiveCheckWorkspace
    BY DEF Worker, ClearDiagnostics, RefreshOne, RefreshNone, TimerFires, FlushParse,
           FlushIndex, FlushStore, FlushPublish, FlushDone, CheckIndex, CheckDisk,
           CheckOpenFiles
  <1>3. CASE tasks' = tasks
    BY <1>1, <1>3 DEF Truthful, Excused, Expected, Notice
  <1>4. ASSUME tasks # <<>>, tasks' = Tail(tasks)
        PROVE  /\ Truthful(t)'
               /\ \/ Excused(t) => Excused(t)'
                  \/ Head(tasks).uri = t /\ Head(tasks).kind = "change" /\ disk[t] # None
                     /\ disk[t] \notin Oversize \cup Unparsable
                  \/ Head(tasks).uri = t /\ Head(tasks).kind = "delete" /\ disk[t] = None
    <2>1. /\ Truthful(t)'
          /\ Expected(t) => \/ Expected(t)'
                            \/ /\ Head(tasks).uri = t
                               /\ \/ Head(tasks).kind = "change" /\ disk[t] # None
                                  \/ Head(tasks).kind = "delete" /\ disk[t] = None
      BY <1>0, <1>1, <1>4, NoticeReceived
    <2> QED
      BY <1>1, <2>1 DEF Excused
  <1>5. ASSUME NEW kind, kind \notin {"change", "delete"}, Receive(kind)
        PROVE  Truthful(t)' /\ (Excused(t) => Excused(t)')
    BY <1>4, <1>5 DEF Receive
  <1>6. CASE ReceiveParse \/ ReceiveClose \/ ReceiveCheckWorkspace
    BY <1>1, <1>5, <1>6 DEF ReceiveParse, ReceiveClose, ReceiveCheckWorkspace
  <1>7. CASE ReceiveExternalChange
    <2>1. /\ Truthful(t)'
          /\ \/ Excused(t) => Excused(t)'
             \/ Head(tasks).uri = t /\ disk[t] # None /\ disk[t] \notin Oversize \cup Unparsable
      BY <1>4, <1>7 DEF ReceiveExternalChange, Receive
    <2>2. ASSUME Head(tasks).uri = t, disk[t] # None, disk[t] \notin Oversize \cup Unparsable
          PROVE  IndexFile(t, disk[t]) /\ Refresh(t) /\ disk[t] \in Text
      BY <1>0, <1>7, <2>2 DEF ReceiveExternalChange, TypeOK
    <2> QED
      BY <1>1, <1>7, <2>1, <2>2
  <1>8. CASE ReceiveExternalDelete
    BY <1>1, <1>4, <1>8 DEF ReceiveExternalDelete, Receive
  <1> QED
    BY <1>2, <1>3, <1>6, <1>7, <1>8

LEMMA AccountedWorker ==
    ASSUME ShapeOK, NEW t \in Uri, Truthful(t), Accounted(t), Worker
    PROVE  Accounted(t)'
  <1> USE EditIsNot DEF env, graph, worker
  <1>0. TypeOK
    BY DEF ShapeOK
  <1>1. /\ disk' = disk
        /\ \/ Excused(t) => Excused(t)'
           \/ ReceiveExternalChange /\ Head(tasks).uri = t /\ IndexFile(t, disk[t])
              /\ disk[t] \in Text /\ Refresh(t)
           \/ ReceiveExternalDelete /\ Head(tasks).uri = t /\ disk[t] = None
    BY NoticeWorker
  <1>2. CASE ReceiveExternalChange /\ Head(tasks).uri = t /\ IndexFile(t, disk[t])
             /\ disk[t] \in Text
    BY <1>0, <1>1, <1>2, AccountedIndexed
  <1>3. CASE disk[t] = None
    BY <1>1, <1>3 DEF Accounted
  <1>4. CASE Excused(t) => Excused(t)'
    <2>1. CASE UNCHANGED <<files, edges>>
      BY <1>1, <1>4, <2>1 DEF Accounted
    <2>2. ASSUME NEW w \in Uri, NEW x \in Text, IndexFile(w, x) PROVE Accounted(t)'
      BY <1>1, <1>4, <2>2, AccountedIndexed
    <2>3. CASE ReceiveExternalDelete
      <3>1. /\ files' = [files EXCEPT ![Head(tasks).uri] = None]
            /\ edges' = [edges EXCEPT ![Head(tasks).uri] = {}]
            /\ Head(tasks).uri \in Uri
        BY <2>3, ReceivedTask DEF ReceiveExternalDelete
      <3>2. \A v \in Uri : edges'[v] \subseteq edges[v]
        BY <1>0, <3>1 DEF TypeOK
      <3>3. CASE Head(tasks).uri # t
        <4>1. files'[t] = files[t]
          BY <1>0, <3>1, <3>3 DEF TypeOK
        <4> QED
          BY <1>1, <1>4, <3>2, <4>1 DEF Accounted
      <3>4. CASE Head(tasks).uri = t /\ disk[t] # None
        <4>1. tasks # <<>> /\ tasks' = Tail(tasks) /\ Head(tasks).kind = "delete"
          BY <2>3 DEF ReceiveExternalDelete, Receive
        <4>2. 1 \in DOMAIN tasks /\ Head(tasks) = tasks[1]
          BY <1>0, <4>1, Received DEF TypeOK
        <4>3. Notice(t, 1)
          BY <3>4, <4>1, <4>2 DEF Notice
        <4>4. Excused(t)
          BY <4>2, <4>3 DEF Excused, Expected
        <4> QED
          BY <1>4, <4>4 DEF Accounted
      <3> QED
        BY <1>3, <3>3, <3>4
    <2>4. CASE ReceiveExternalChange
      <3>1. Head(tasks).uri \in Uri
        BY <2>4, ReceivedTask DEF ReceiveExternalChange
      <3>2. disk[Head(tasks).uri] # None => disk[Head(tasks).uri] \in Text
        BY <1>0, <3>1 DEF TypeOK
      <3> QED
        BY <2>1, <2>2, <2>4, <3>1, <3>2 DEF ReceiveExternalChange
    <2>5. CASE FlushIndex
      <3>1. job.uri \in Uri /\ job.edit.text \in Text
        BY <2>5 DEF FlushIndex, ShapeOK, JobOK, Flushing, Edit
      <3> QED
        BY <2>2, <2>5, <3>1 DEF FlushIndex
    <2>6. ASSUME NEW w \in Uri, CheckIndex(w) PROVE Accounted(t)'
      <3>1. disk[w] # None => disk[w] \in Text
        BY <1>0 DEF TypeOK
      <3> QED
        BY <2>1, <2>2, <2>6, <3>1 DEF CheckIndex
    <2> QED
      BY <2>1, <2>3, <2>4, <2>5, <2>6
         DEF Worker, ReceiveParse, ReceiveClose, ClearDiagnostics, RefreshOne, RefreshNone,
             TimerFires, FlushParse, FlushStore, FlushPublish, FlushDone,
             ReceiveCheckWorkspace, CheckDisk, CheckOpenFiles
  <1> QED
    BY <1>1, <1>2, <1>3, <1>4

\* What diagnostics of u computed now are computed from.
Seen(u, t) == IF t \in edges[u] \cup {u} THEN files[t] ELSE None

LEMMA CheckedSeen ==
    ASSUME NEW u \in Uri, NEW version, NEW x, NEW t \in Uri
    PROVE  Check(u, version, x).seen[t] = Seen(u, t)
  BY DEF Check, Seen

\* Its diagnostics are about to be computed again.
Rechecks(u) ==
    job.step = "check_index" \/ (job.step = "refresh" /\ u \in job.rest)

Agrees(u, t) ==
    \/ shown[u].seen[t] = Seen(u, t)
    \/ /\ t # u /\ t \in edges[u]
       /\ t \in EditorFiles \/ (Excused(t) /\ \E v \in Uri : v # u /\ t \in Imports[v])

\* The diagnostics of a settled document agree with the graph.
UpToDate(u) ==
    Accepted(u) /\ NoTask(u) /\ Settled(u) /\ ~Rechecks(u) => \A t \in Uri : Agrees(u, t)

\* Indexing a file, with what it leads to, leaves other documents in agreement,
\* but for that file.
LEMMA AgreesIndexed ==
    ASSUME ShapeOK, NEW w \in Uri, NEW x \in Text, IndexFile(w, x), disk' = disk,
           NEW u \in Uri, u # w, files[u] # None, shown'[u] = shown[u],
           w \in EditorFiles \/ w \notin edges[u],
           \A t \in Uri \ EditorFiles : Accounted(t),
           \A t \in Uri \ EditorFiles : t # w => (Excused(t) => Excused(t)'),
           \A t \in Uri : Agrees(u, t)
    PROVE  \A t \in Uri : Agrees(u, t)'
  <1> USE EditIsNot
  <1>1. /\ edges'[u] = edges[u] /\ files'[u] = files[u]
        /\ \A t \in Uri : t # w /\ t \notin Dependencies(w) => files'[t] = files[t]
    BY DependenciesAreNew DEF IndexFile
  <1> SUFFICES ASSUME NEW t \in Uri PROVE Agrees(u, t)'
    OBVIOUS
  <1>2. CASE t = u \/ t \notin edges[u]
    <2>1. shown[u].seen[t] = Seen(u, t)
      BY <1>2 DEF Agrees
    <2>2. Seen(u, t)' = Seen(u, t)
      BY <1>1, <1>2 DEF Seen
    <2> QED
      BY <2>1, <2>2 DEF Agrees
  <1>3. CASE t # u /\ t \in edges[u] /\ t \in EditorFiles
    BY <1>1, <1>3 DEF Agrees
  <1>4. CASE t # u /\ t \in edges[u] /\ t \notin EditorFiles
    <2>1. t # w
      BY <1>4
    <2>2. CASE t \in Dependencies(w)
      <3>1. PICK v \in Dependencies(w) \cup {w} : t \in Imports[v]
        BY <2>2, DependencyImported
      <3>2. v \in Uri /\ v # u
        BY DependenciesAreNew
      <3>3. Excused(t)
        BY <1>4, <2>2, DependencyImported DEF Accounted
      <3> QED
        BY <1>1, <1>4, <2>1, <3>1, <3>2, <3>3 DEF Agrees
    <2>3. CASE t \notin Dependencies(w)
      <3>1. Seen(u, t)' = Seen(u, t)
        BY <1>1, <2>1, <2>3 DEF Seen
      <3> QED
        BY <1>1, <2>1, <3>1 DEF Agrees
    <2> QED
      BY <2>2, <2>3
  <1> QED
    BY <1>2, <1>3, <1>4

LEMMA AgreesKept ==
    ASSUME NEW u \in Uri, NEW t \in Uri, Agrees(u, t), Excused(t) => Excused(t)',
           edges'[u] = edges[u], shown'[u] = shown[u], Seen(u, t)' = Seen(u, t)
    PROVE  Agrees(u, t)'
  BY DEF Agrees

LEMMA UpToDateUser ==
    ASSUME ShapeOK, FromEditor, NEW u \in Uri, UpToDate(u),
           \A t \in Uri \ EditorFiles : Truthful(t),
           User \/ \E w \in Uri : DidChangeWatchedFiles(w)
    PROVE  UpToDate(u)'
  <1> USE PipelineConstants DEF env, graph, worker
  <1>0. TypeOK /\ tasks \in Seq(Task)
    BY DEF ShapeOK, TypeOK
  <1>1. SUFFICES ASSUME Accepted(u)', NoTask(u)', Settled(u)', ~Rechecks(u)', NEW t \in Uri
                 PROVE  Agrees(u, t)'
    BY DEF UpToDate
  <1>2. UNCHANGED <<files, edges, pending, batch, job, shown>>
    BY DEF User, DidOpen, DidChange, DidClose, Save, DiskWrite, DiskDelete,
           DidChangeWatchedFiles, CheckWorkspaceCommand
  <1>3. ASSUME NEW e \in Edit, SendTask("parse", u, e) PROVE FALSE
    <2>1. [kind |-> "parse", uri |-> u, edit |-> e] \in Task
      BY DEF Task
    <2>2. \E i \in DOMAIN tasks' : tasks'[i].kind = "parse" /\ tasks'[i].uri = u
      BY <1>0, <1>3, <2>1, Sent DEF SendTask
    <2> QED
      BY <1>1, <2>2 DEF NoTask, Concerns
  <1>4. editor'[u] = editor[u] /\ documents'[u] = documents[u]
    <2>1. ASSUME NEW w \in EditorFiles, NEW v \in OpenVersion, NEW x \in Text, DidOpen(w, v, x)
          PROVE  editor'[u] = editor[u] /\ documents'[u] = documents[u]
      <3>1. CASE w # u
        BY <1>0, <2>1, <3>1 DEF DidOpen, TypeOK
      <3>2. CASE w = u
        <4>1. editor'[u] = [version |-> v, text |-> x]
          BY <1>0, <2>1, <3>2 DEF DidOpen, TypeOK
        <4>2. x \notin Oversize /\ [version |-> v, text |-> x] \in Edit
          BY <1>1, <4>1 DEF Accepted, Edit
        <4> QED
          BY <1>3, <2>1, <3>2, <4>2 DEF DidOpen
      <3> QED
        BY <3>1, <3>2
    <2>2. ASSUME NEW w \in EditorFiles, NEW x \in Text, DidChange(w, x)
          PROVE  editor'[u] = editor[u] /\ documents'[u] = documents[u]
      <3>1. CASE w # u
        BY <1>0, <2>2, <3>1 DEF DidChange, TypeOK
      <3>2. CASE w = u
        <4>1. editor'[u] = [version |-> editor[u].version + 1, text |-> x]
              /\ editor[u] \in Edit
          BY <1>0, <2>2, <3>2 DEF DidChange, TypeOK
        <4>2. x \notin Oversize /\ [version |-> editor[u].version + 1, text |-> x] \in Edit
          BY <1>1, <4>1 DEF Accepted, Edit
        <4> QED
          BY <1>3, <2>2, <3>2, <4>2 DEF DidChange
      <3> QED
        BY <3>1, <3>2
    <2>3. ASSUME NEW w \in EditorFiles, DidClose(w)
          PROVE  editor'[u] = editor[u] /\ documents'[u] = documents[u]
      BY <1>0, <1>1, <2>3 DEF DidClose, TypeOK, Accepted
    <2> QED
      BY <2>1, <2>2, <2>3 DEF User, Save, DiskWrite, DiskDelete, DidChangeWatchedFiles,
                              CheckWorkspaceCommand
  <1>5. NoTask(u)
    <2>1. tasks' = tasks \/ \E task \in Task : tasks' = Append(tasks, task)
      <3>1. ASSUME NEW w \in EditorFiles
            PROVE  /\ \A v \in OpenVersion, x \in Text : [version |-> v, text |-> x] \in Edit
                   /\ editor[w] # None =>
                        \A x \in Text : [version |-> editor[w].version + 1, text |-> x] \in Edit
        BY <1>0 DEF TypeOK, Edit
      <3>2. /\ \A w \in Uri, e \in Edit : [kind |-> "parse", uri |-> w, edit |-> e] \in Task
            /\ \A w \in Uri, kind \in {"close", "change", "delete"} :
                   [kind |-> kind, uri |-> w, edit |-> None] \in Task
            /\ [kind |-> "check", uri |-> None, edit |-> None] \in Task
        BY DEF Task
      <3> QED
        BY <3>1, <3>2 DEF User, DidOpen, DidChange, DidClose, Save, DiskWrite, DiskDelete,
                          DidChangeWatchedFiles, CheckWorkspaceCommand, SendTask
    <2>2. ASSUME NEW task \in Task, tasks' = Append(tasks, task) PROVE NoTask(u)
      BY <1>0, <1>1, <2>2, Sent DEF NoTask, Concerns
    <2>3. CASE tasks' = tasks
      BY <1>1, <2>3 DEF NoTask, Concerns
    <2> QED
      BY <2>1, <2>2, <2>3
  <1>6. Accepted(u) /\ Settled(u) /\ ~Rechecks(u)
    BY <1>1, <1>2, <1>4 DEF Accepted, Settled, Flushing, Rechecks
  <1>7. Agrees(u, t)
    BY <1>5, <1>6 DEF UpToDate
  <1>8. CASE t \in EditorFiles
    BY <1>2, <1>7, <1>8 DEF Agrees, Seen
  <1>9. CASE t \notin EditorFiles
    <2>1. Excused(t) => Excused(t)'
      BY <1>9, NoticeUser DEF FromEditor
    <2> QED
      BY <1>2, <1>7, <2>1 DEF Agrees, Seen
  <1> QED
    BY <1>8, <1>9

LEMMA UpToDateWorker ==
    ASSUME ShapeOK, FromEditor, NEW u \in Uri, Session(u), Latest(u), UpToDate(u),
           \A t \in Uri \ EditorFiles : Truthful(t) /\ Accounted(t),
           Worker
    PROVE  UpToDate(u)'
  <1> USE EditIsNot DEF env, graph, worker
  <1>0. TypeOK /\ JobOK /\ tasks \in Seq(Task)
    BY DEF ShapeOK, TypeOK
  <1>1. editor' = editor /\ disk' = disk
    BY DEF Worker, ReceiveParse, ReceiveClose, ClearDiagnostics, ReceiveExternalChange,
           ReceiveExternalDelete, RefreshOne, RefreshNone, TimerFires, FlushParse,
           FlushIndex, FlushStore, FlushPublish, FlushDone, ReceiveCheckWorkspace,
           CheckIndex, CheckDisk, CheckOpenFiles
  <1>2. SUFFICES ASSUME Accepted(u)', NoTask(u)', Settled(u)', ~Rechecks(u)'
                 PROVE  \A t \in Uri : Agrees(u, t)'
    BY DEF UpToDate
  <1>3. Accepted(u) /\ editor[u] # None /\ editor[u].text # None
    BY <1>0, <1>1, <1>2 DEF Accepted, TypeOK, Edit
  <1>4. ~UnderWay(u)'
    <2>1. ~QueuedLast(u)'
      BY <1>2 DEF NoTask, QueuedLast, SendsOf, Concerns
    <2>2. ~Held(u)'
      BY <1>1, <1>2, <1>3 DEF Held, Settled
    <2> QED
      BY <2>1, <2>2 DEF UnderWay
  <1>5. (NoTask(u) /\ Settled(u)) \/ (FlushPublish /\ job.uri = u)
    BY <1>3, <1>4, LatestReceive, LatestFlush, LatestCheck DEF Worker
  <1>6. CASE FlushPublish /\ job.uri = u
    <2>1. shown'[u] = Check(u, job.edit.version, job.edit.text)
          /\ UNCHANGED <<files, edges>>
      BY <1>0, <1>6 DEF FlushPublish, TypeOK
    <2> QED
      BY <2>1, CheckedSeen DEF Agrees, Seen
  <1>7. ASSUME NoTask(u), Settled(u), RefreshOne(u)
        PROVE  \A t \in Uri : Agrees(u, t)'
    <2>1. documents[u] # None
      BY <1>3, <1>7 DEF Settled
    <2>2. shown'[u] = CheckDocument(u) /\ UNCHANGED <<files, edges>>
      BY <1>0, <1>7, <2>1 DEF RefreshOne, TypeOK
    <2> QED
      BY <2>2, CheckedSeen DEF Agrees, Seen, CheckDocument
  <1>8. ASSUME NoTask(u), Settled(u), ~RefreshOne(u), ~(FlushPublish /\ job.uri = u)
        PROVE  \A t \in Uri : Agrees(u, t)'
    <2>1. ~Rechecks(u)
      <3>1. CASE job.step = "check_index"
        <4>1. \A w \in Uri : CheckIndex(w) => job'.step = "check_index"
          BY <1>0 DEF CheckIndex, TypeOK
        <4>2. \A w \in Uri, x \in Text : CheckDisk(w, x) => job'.step = "check_index"
          BY <1>0 DEF CheckDisk, TypeOK
        <4>3. CheckOpenFiles => job'.step = "refresh" /\ job'.rest = Uri
          BY DEF CheckOpenFiles, Idle
        <4> QED
          BY <1>2, <3>1, <4>1, <4>2, <4>3
             DEF Worker, Rechecks, ReceiveParse, ReceiveClose, ClearDiagnostics,
                 ReceiveExternalChange, ReceiveExternalDelete, RefreshOne, RefreshNone,
                 TimerFires, FlushParse, FlushIndex, FlushStore, FlushPublish, FlushDone,
                 ReceiveCheckWorkspace, Receive, Idle
      <3>2. CASE job.step = "refresh" /\ u \in job.rest
        <4>1. ASSUME NEW w \in Uri, RefreshOne(w) PROVE FALSE
          <5>1. w # u
            BY <1>8, <4>1
          <5>2. job'.step = "refresh" /\ job'.rest = job.rest \ {w}
            BY <1>0, <3>2, <4>1, <5>1 DEF RefreshOne, TypeOK
          <5> QED
            BY <1>2, <3>2, <5>1, <5>2 DEF Rechecks
        <4> QED
          BY <3>2, <4>1
             DEF Worker, ReceiveParse, ReceiveClose, ClearDiagnostics,
                 ReceiveExternalChange, ReceiveExternalDelete, RefreshNone,
                 TimerFires, FlushParse, FlushIndex, FlushStore, FlushPublish, FlushDone,
                 ReceiveCheckWorkspace, Receive, Idle, CheckIndex, CheckDisk, CheckOpenFiles
      <3> QED
        BY <3>1, <3>2 DEF Rechecks
    <2>2. /\ \A t \in Uri : Agrees(u, t)
          /\ files[u] # None
      BY <1>3, <1>8, <2>1 DEF UpToDate, Settled
    <2>3. job.step # "check_index"
      BY <2>1 DEF Rechecks
    <2>4. disk' = disk
          /\ \A t \in Uri \ EditorFiles :
                \/ Excused(t) => Excused(t)'
                \/ ReceiveExternalChange /\ Head(tasks).uri = t /\ IndexFile(t, disk[t])
                   /\ disk[t] \in Text /\ Refresh(t)
                \/ ReceiveExternalDelete /\ Head(tasks).uri = t /\ disk[t] = None
      BY <1>1, NoticeWorker
    <2>5. ASSUME UNCHANGED <<files, edges>>, shown'[u] = shown[u],
                 \A t \in Uri \ EditorFiles : Excused(t) => Excused(t)'
          PROVE  \A t \in Uri : Agrees(u, t)'
      BY <2>2, <2>5 DEF Agrees, Seen
    <2>6. \A w \in Uri : Refresh(w) => /\ job'.step = "refresh"
                                     /\ \A v \in Uri : w \in edges'[v] => v \in job'.rest
      BY DEF Refresh, Idle
    <2>7. ASSUME ReceiveExternalChange \/ ReceiveExternalDelete
          PROVE  /\ Head(tasks).uri \in Uri /\ Head(tasks).uri # u /\ job = Idle
                 /\ shown' = shown
      <3>1. /\ tasks # <<>> /\ tasks' = Tail(tasks) /\ Head(tasks).kind # "check"
            /\ job = Idle /\ shown' = shown
        BY <2>7 DEF ReceiveExternalChange, ReceiveExternalDelete, Receive
      <3>2. Head(tasks).uri \in Uri
        BY <2>7, ReceivedTask DEF ReceiveExternalChange, ReceiveExternalDelete
      <3>3. Head(tasks).uri # u
        BY <1>0, <1>1, <1>8, <3>1, LatestReceived
      <3> QED
        BY <3>1, <3>2, <3>3
    <2>8. CASE ReceiveExternalChange
      <3> DEFINE w == Head(tasks).uri
      <3>1. CASE UNCHANGED <<files, edges, job>>
        <4>1. \A t \in Uri : ~Refresh(t)
          BY <2>6, <2>7, <2>8, <3>1, IdleFields
        <4>2. ~ReceiveExternalDelete
          BY <2>8 DEF ReceiveExternalChange, ReceiveExternalDelete, Receive
        <4> QED
          BY <2>4, <2>5, <2>7, <2>8, <3>1, <4>1, <4>2
      <3>2. CASE disk[w] # None /\ IndexFile(w, disk[w]) /\ Refresh(w)
        <4>1. disk[w] \in Text
          BY <1>0, <2>7, <2>8, <3>2 DEF TypeOK
        <4>2. edges'[u] = edges[u]
          BY <2>2, <2>7, <2>8, <3>2, DependenciesAreNew DEF IndexFile
        <4>3. w \notin edges[u]
          BY <1>2, <2>6, <2>7, <2>8, <3>2, <4>2 DEF Rechecks
        <4>4. \A t \in Uri \ EditorFiles : t # w => (Excused(t) => Excused(t)')
          BY <2>4
        <4> QED
          BY <1>1, <2>2, <2>7, <2>8, <3>2, <4>1, <4>3, <4>4, AgreesIndexed
      <3> QED
        BY <2>8, <3>1, <3>2 DEF ReceiveExternalChange
    <2>9. CASE ReceiveExternalDelete
      <3> DEFINE w == Head(tasks).uri
      <3>1. /\ files' = [files EXCEPT ![w] = None] /\ edges' = [edges EXCEPT ![w] = {}]
            /\ Refresh(w)
        BY <2>9 DEF ReceiveExternalDelete
      <3>2. edges'[u] = edges[u] /\ \A t \in Uri : t # w => files'[t] = files[t]
        BY <1>0, <2>7, <2>9, <3>1 DEF TypeOK
      <3>3. w \notin edges[u]
        BY <1>2, <2>6, <2>7, <2>9, <3>1, <3>2 DEF Rechecks
      <3>4. ASSUME NEW t \in Uri PROVE Agrees(u, t)'
        <4>1. Seen(u, t)' = Seen(u, t)
          BY <2>7, <2>9, <3>2, <3>3 DEF Seen
        <4>2. CASE t \in EditorFiles \/ t = w
          BY <2>2, <2>7, <2>9, <3>2, <3>3, <4>1, <4>2 DEF Agrees
        <4>3. CASE t \notin EditorFiles /\ t # w
          <5>1. Excused(t) => Excused(t)'
            BY <2>4, <4>3
          <5> QED
            BY <2>2, <2>7, <2>9, <3>2, <4>1, <5>1, AgreesKept
        <4> QED
          BY <4>2, <4>3
      <3> QED
        BY <3>4
    <2>10. ASSUME ~ReceiveExternalChange, ~ReceiveExternalDelete
           PROVE  \A t \in Uri \ EditorFiles : Excused(t) => Excused(t)'
      BY <2>4, <2>10
    <2>11. CASE FlushIndex
      <3>1. /\ job.uri \in Uri /\ job.edit.text \in Text /\ job.uri \in EditorFiles
            /\ job.uri # u /\ IndexFile(job.uri, job.edit.text) /\ shown' = shown
            /\ job.step = "index"
        BY <1>0, <1>8, <2>11 DEF FlushIndex, JobOK, Flushing, Edit, FromEditor, Settled
      <3>2. ~ReceiveExternalChange /\ ~ReceiveExternalDelete
        BY <3>1 DEF ReceiveExternalChange, ReceiveExternalDelete, Receive, Idle
      <3> QED
        BY <1>1, <2>2, <2>10, <3>1, <3>2, AgreesIndexed
    <2>12. ASSUME ~ReceiveExternalChange, ~ReceiveExternalDelete, ~FlushIndex
           PROVE  UNCHANGED <<files, edges>> /\ shown'[u] = shown[u]
      <3>1. ASSUME NEW w \in Uri, RefreshOne(w)
            PROVE  UNCHANGED <<files, edges>> /\ shown'[u] = shown[u]
        <4>1. w # u
          BY <1>8, <3>1
        <4> QED
          BY <1>0, <3>1, <4>1 DEF RefreshOne, TypeOK
      <3>2. CASE FlushPublish
        <4>1. job.uri # u
          BY <1>8, <3>2
        <4> QED
          BY <1>0, <3>2, <4>1 DEF FlushPublish, TypeOK
      <3>3. CASE ClearDiagnostics
        <4>1. job.uri # u
          BY <1>8, <3>3 DEF ClearDiagnostics, Settled
        <4> QED
          BY <1>0, <3>3, <4>1 DEF ClearDiagnostics, TypeOK
      <3> QED
        BY <2>3, <2>12, <3>1, <3>2, <3>3
           DEF Worker, ReceiveParse, ReceiveClose, RefreshNone, TimerFires, FlushParse,
               FlushStore, FlushDone, ReceiveCheckWorkspace, CheckIndex, CheckDisk,
               CheckOpenFiles
    <2> QED
      BY <2>5, <2>8, <2>9, <2>10, <2>11, <2>12
  <1> QED
    BY <1>5, <1>6, <1>7, <1>8

CascadeOK ==
    /\ FromEditor
    /\ \A t \in Uri \ EditorFiles : Truthful(t) /\ Accounted(t)
    /\ \A u \in Uri : UpToDate(u)

LEMMA CascadeInit == Init => CascadeOK
  <1> SUFFICES ASSUME Init PROVE CascadeOK
    OBVIOUS
  <1>1. \A t \in Uri : Truthful(t) /\ Accounted(t)
    BY DEF Init, Truthful, Accounted
  <1>2. \A u \in Uri : UpToDate(u)
    BY DEF Init, UpToDate, Accepted
  <1> QED
    BY <1>1, <1>2, FromEditorInit DEF CascadeOK

LEMMA CascadeStep ==
    ShapeOK /\ SessionsOK /\ LatestOK /\ CascadeOK /\ [Next]_vars => CascadeOK'
  <1> SUFFICES ASSUME ShapeOK, SessionsOK, LatestOK, CascadeOK, [Next]_vars
               PROVE  CascadeOK'
    OBVIOUS
  <1>1. CASE UNCHANGED vars
    <2> USE <1>1 DEF vars, env, graph, worker
    <2>1. FromEditor'
      BY DEF CascadeOK, FromEditor, Flushing
    <2>2. \A t \in Uri \ EditorFiles : Truthful(t)' /\ Accounted(t)'
      BY DEF CascadeOK, Truthful, Accounted, Excused, Expected, Notice
    <2>3. \A u \in Uri : UpToDate(u)'
      BY DEF CascadeOK, UpToDate, Accepted, NoTask, Concerns, Settled, Flushing, Rechecks,
             Agrees, Seen, Excused, Expected, Notice
    <2> QED
      BY <2>1, <2>2, <2>3 DEF CascadeOK
  <1>2. CASE Worker
    <2>1. FromEditor'
      BY <1>2, FromEditorWorker DEF CascadeOK
    <2>2. \A t \in Uri \ EditorFiles : Truthful(t)' /\ Accounted(t)'
      BY <1>2, NoticeWorker, AccountedWorker DEF CascadeOK
    <2>3. \A u \in Uri : UpToDate(u)'
      BY <1>2, UpToDateWorker DEF CascadeOK, SessionsOK, LatestOK
    <2> QED
      BY <2>1, <2>2, <2>3 DEF CascadeOK
  <1>3. CASE User \/ \E w \in Uri : DidChangeWatchedFiles(w)
    <2>1. FromEditor'
      BY <1>3, FromEditorUser DEF CascadeOK
    <2>2. ASSUME NEW t \in Uri \ EditorFiles PROVE Truthful(t)' /\ Accounted(t)'
      <3>1. /\ Truthful(t)'
            /\ Excused(t) => Excused(t)'
            /\ disk'[t] = disk[t] \/ Excused(t)'
        BY <1>3, NoticeUser DEF CascadeOK, FromEditor
      <3>2. UNCHANGED <<files, edges>>
        BY <1>3 DEF User, DidOpen, DidChange, DidClose, Save, DiskWrite, DiskDelete,
                    DidChangeWatchedFiles, CheckWorkspaceCommand, graph
      <3> QED
        BY <3>1, <3>2 DEF CascadeOK, Accounted
    <2>3. \A u \in Uri : UpToDate(u)'
      BY <1>3, UpToDateUser DEF CascadeOK
    <2> QED
      BY <2>1, <2>2, <2>3 DEF CascadeOK
  <1> QED
    BY <1>1, <1>2, <1>3 DEF Next, Watcher

\* With no notice left, what excuses a disagreement is a text that is refused.
LEMMA QuietCascades == ShapeOK /\ LatestOK /\ CascadeOK => CascadeReaches
  <1> SUFFICES ASSUME ShapeOK, LatestOK, CascadeOK, Quiet, NEW u \in Uri, NEW t \in Uri,
                      Accepted(u), Cascades(u, t)
               PROVE  shown[u].seen[t] = CheckDocument(u).seen[t]
    BY DEF CascadeReaches
  <1>1. NoTask(u) /\ Settled(u)
    BY SettledAtRest
  <1>2. ~Rechecks(u)
    BY DEF Quiet, Idle, Rechecks
  <1>3. Agrees(u, t)
    BY <1>1, <1>2 DEF CascadeOK, UpToDate
  <1>4. ~Expected(t)
    BY DEF Quiet, Expected
  <1>5. shown[u].seen[t] = Seen(u, t)
    BY <1>3, <1>4 DEF Agrees, Excused, Cascades
  <1> QED
    BY <1>5, CheckedSeen DEF CheckDocument

\* Diagnostics cascade, for any files importing any others: once the server is
\* at rest, the diagnostics of every open document are those of what the graph
\* holds for each of its imports, unless the import may be edited in the editor
\* or is one that several files share and whose text on disk is refused.
THEOREM CascadeAlwaysReaches == Spec => []CascadeReaches
  <1>1. ShapeOK /\ SessionsOK /\ [Next]_vars => SessionsOK'
    BY SessionStep
  <1>2. ShapeOK /\ SessionsOK /\ LatestOK /\ [Next]_vars => LatestOK'
    BY LatestStep
  <1>3. ShapeOK /\ SessionsOK /\ LatestOK /\ CascadeOK /\ [Next]_vars => CascadeOK'
    BY CascadeStep
  <1> QED
    BY <1>1, <1>2, <1>3, PipelineTypeCorrect, SessionInit, LatestInit, CascadeInit,
       QuietCascades, PTL DEF Spec

-----------------------------------------------------------------------------
(* Seen from one document: the pipeline is a mailbox.                       *)

Message == Text \cup {None}

\* The first message of a mailbox ...
LEMMA InFront ==
    ASSUME NEW M, NEW x \in M, NEW r \in Seq(M)
    PROVE  LET s == <<x>> \o r IN
           /\ s \in Seq(M) /\ s # <<>> /\ Len(s) = Len(r) + 1 /\ 1 \in 1 .. Len(s)
           /\ s[1] = x /\ Head(s) = x /\ Tail(s) = r
           /\ SubSeq(s, 2, Len(s)) = r
           /\ RemoveAt(s, 1) = r
  <1> DEFINE s == <<x>> \o r
  <1>1. /\ s \in Seq(M) /\ Len(s) = Len(r) + 1 /\ Len(r) \in Nat /\ s[1] = x
        /\ \A i \in 1 .. Len(r) : s[i + 1] = r[i]
    OBVIOUS
  <1> HIDE DEF s
  <1>2. s # <<>>
    BY <1>1
  <1>3. Tail(s) = r
    <2>1. Tail(s) \in Seq(M) /\ Len(Tail(s)) = Len(r) /\ \A i \in 1 .. Len(Tail(s)) : Tail(s)[i] = r[i]
      BY <1>1, <1>2
    <2> QED
      BY <2>1, SeqEqual
  <1>4. SubSeq(s, 2, Len(s)) = r
    BY <1>1, <1>3
  <1>5. SubSeq(s, 1, 0) = <<>>
    BY <1>1
  <1>6. RemoveAt(s, 1) = <<>> \o r
    BY <1>4, <1>5 DEF RemoveAt
  <1> QED
    BY <1>1, <1>2, <1>3, <1>4, <1>6 DEF s

\* ... and the second of two.
LEMMA InSecond ==
    ASSUME NEW M, NEW x \in M, NEW y \in M, NEW r \in Seq(M)
    PROVE  LET s == <<x>> \o (<<y>> \o r) IN
           /\ s \in Seq(M) /\ 2 \in 1 .. Len(s) /\ 1 \in 1 .. Len(s) /\ 1 < Len(s)
           /\ s[2] = y
           /\ SubSeq(s, 3, Len(s)) = r
           /\ RemoveAt(s, 1) = <<y>> \o r
  <1> DEFINE t == <<y>> \o r
             s == <<x>> \o t
  <1>1. /\ t \in Seq(M) /\ Len(t) = Len(r) + 1 /\ Len(r) \in Nat /\ t[1] = y
        /\ \A i \in 1 .. Len(r) : t[i + 1] = r[i]
    OBVIOUS
  <1> HIDE DEF t
  <1>2. /\ s \in Seq(M) /\ Len(s) = Len(t) + 1
        /\ \A i \in 1 .. Len(t) : s[i + 1] = t[i]
    BY <1>1
  <1>3. RemoveAt(s, 1) = t
    BY <1>1, InFront
  <1> HIDE DEF s
  <1>4. 2 \in 1 .. Len(s) /\ 1 \in 1 .. Len(s) /\ 1 < Len(s) /\ s[2] = y
    <2>1. 1 \in 1 .. Len(t) /\ 1 + 1 = 2
      BY <1>1
    <2>2. s[2] = t[1]
      BY <1>2, <2>1
    <2> QED
      BY <1>1, <1>2, <2>2
  <1>5. SubSeq(s, 3, Len(s)) = r
    <2> DEFINE w == SubSeq(s, 3, Len(s))
    <2>1. /\ w \in Seq(M) /\ Len(w) = Len(r)
          /\ \A i \in 1 .. Len(r) : w[i] = s[i + 2]
      BY <1>1, <1>2, SubSeqProperties
    <2> HIDE DEF w
    <2>2. \A i \in 1 .. Len(r) : s[i + 2] = r[i]
      <3>1. \A i \in 1 .. Len(r) : i + 1 \in 1 .. Len(t) /\ (i + 1) + 1 = i + 2
        BY <1>1
      <3> QED
        BY <1>1, <1>2, <3>1
    <2>3. w = r
      BY <2>1, <2>2, SeqEqual
    <2> QED
      BY <2>3 DEF w
  <1> QED
    BY <1>2, <1>3, <1>4, <1>5 DEF s, t

-----------------------------------------------------------------------------
(* Letters.                                                                 *)

LEMMA LetterTyped ==
    ASSUME NEW task \in Task
    PROVE  Letter(task) \in Seq(Message)
  <1>1. task.kind = "parse" => task.edit.text \in Message
    BY DEF Task, Edit, Message
  <1>2. \A x \in Message : <<x>> \in Seq(Message)
    OBVIOUS
  <1>3. None \in Message /\ <<>> \in Seq(Message)
    BY DEF Message
  <1> QED
    BY <1>1, <1>2, <1>3 DEF Letter

\* What every task of the channel carries for the document.
Each(queue) == [i \in 1 .. Len(queue) |-> Letter(queue[i])]

LEMMA EachTyped ==
    ASSUME NEW queue \in Seq(Task)
    PROVE  /\ Each(queue) \in Seq(Seq(Message)) /\ Len(Each(queue)) = Len(queue)
           /\ \A i \in 1 .. Len(queue) : Each(queue)[i] = Letter(queue[i])
           /\ Letters(queue) \in Seq(Message)
  <1>1. \A i \in 1 .. Len(queue) : queue[i] \in Task
    OBVIOUS
  <1>2. \A i \in 1 .. Len(queue) : Letter(queue[i]) \in Seq(Message)
    BY <1>1, LetterTyped
  <1>3. Len(queue) \in Nat
    OBVIOUS
  <1>4. Each(queue) \in Seq(Seq(Message)) /\ Len(Each(queue)) = Len(queue)
    BY <1>2, <1>3, IsASeq, LenProperties DEF Each
  <1>5. FlattenSeq(Each(queue)) \in Seq(Message)
    BY <1>4, FlattenTyped
  <1> QED
    BY <1>4, <1>5 DEF Each, Letters

\* A task sent is a letter behind the others.
LEMMA LettersAppend ==
    ASSUME NEW queue \in Seq(Task), NEW task \in Task
    PROVE  Letters(Append(queue, task)) = Letters(queue) \o Letter(task)
  <1> DEFINE more == Append(queue, task)
             a == Append(Each(queue), Letter(task))
             l == Each(more)
             n == Len(queue)
  <1>1. /\ more \in Seq(Task) /\ n \in Nat /\ Len(more) = n + 1
        /\ \A i \in 1 .. n : more[i] = queue[i]
        /\ more[n + 1] = task
    OBVIOUS
  <1>2. /\ Each(queue) \in Seq(Seq(Message)) /\ Len(Each(queue)) = n
        /\ \A i \in 1 .. n : Each(queue)[i] = Letter(queue[i])
    BY EachTyped
  <1>3. Letter(task) \in Seq(Message)
    BY LetterTyped
  <1> HIDE DEF more, n
  <1>4. /\ l \in Seq(Seq(Message)) /\ Len(l) = n + 1
        /\ \A i \in 1 .. n + 1 : l[i] = Letter(more[i])
    BY <1>1, EachTyped
  <1>5. /\ a \in Seq(Seq(Message)) /\ Len(a) = n + 1
        /\ \A i \in 1 .. n : a[i] = Each(queue)[i]
        /\ a[n + 1] = Letter(task)
    BY <1>2, <1>3, AppendProperties
  <1>6. ASSUME NEW i \in 1 .. n + 1 PROVE l[i] = a[i]
    <2>1. CASE i = n + 1
      <3>1. l[n + 1] = Letter(task)
        BY <1>1, <1>4
      <3> QED
        BY <1>5, <2>1, <3>1, Zenon
    <2>2. CASE i \in 1 .. n
      <3>1. l[i] = Letter(queue[i])
        BY <1>1, <1>4, <2>2
      <3> QED
        BY <1>2, <1>5, <2>2, <3>1, Zenon
    <2>3. i = n + 1 \/ i \in 1 .. n
      BY <1>1
    <2> QED
      BY <2>1, <2>2, <2>3, Zenon
  <1> HIDE DEF a, l
  <1>7. l = a
    BY <1>1, <1>4, <1>5, <1>6, SeqEqual
  <1>8. FlattenSeq(l) = FlattenSeq(Each(queue)) \o Letter(task)
    BY <1>2, <1>3, <1>7, FlattenAppend DEF a
  <1> QED
    BY <1>8, Zenon DEF Letters, Each, l, more

\* A task received was the first letter.
LEMMA LettersTail ==
    ASSUME NEW queue \in Seq(Task), queue # <<>>
    PROVE  Letters(queue) = Letter(Head(queue)) \o Letters(Tail(queue))
  <1> DEFINE rest == Tail(queue)
             a == Tail(Each(queue))
             l == Each(rest)
             n == Len(queue)
  <1>1. /\ rest \in Seq(Task) /\ n \in Nat /\ n >= 1 /\ Len(rest) = n - 1
        /\ \A i \in 1 .. n - 1 : rest[i] = queue[i + 1]
        /\ Head(queue) = queue[1]
    OBVIOUS
  <1>2. /\ Each(queue) \in Seq(Seq(Message)) /\ Len(Each(queue)) = n
        /\ \A i \in 1 .. n : Each(queue)[i] = Letter(queue[i])
    BY EachTyped
  <1> HIDE DEF rest, n
  <1>3. Each(queue) # <<>>
    BY <1>1, <1>2
  <1>4. /\ l \in Seq(Seq(Message)) /\ Len(l) = n - 1
        /\ \A i \in 1 .. n - 1 : l[i] = Letter(rest[i])
    BY <1>1, EachTyped
  <1>5. /\ a \in Seq(Seq(Message)) /\ Len(a) = n - 1
        /\ \A i \in 1 .. n - 1 : a[i] = Each(queue)[i + 1]
    BY <1>2, <1>3, HeadTailProperties
  <1>6. ASSUME NEW i \in 1 .. n - 1 PROVE l[i] = a[i]
    <2>1. l[i] = Letter(queue[i + 1]) /\ i + 1 \in 1 .. n
      BY <1>1, <1>4
    <2> QED
      BY <1>2, <1>5, <2>1
  <1> HIDE DEF a, l
  <1>7. l = a
    BY <1>1, <1>4, <1>5, <1>6, SeqEqual
  <1>8. Head(Each(queue)) = Letter(Head(queue))
    BY <1>1, <1>2, <1>3, HeadTailProperties
  <1>9. FlattenSeq(Each(queue)) = Letter(Head(queue)) \o FlattenSeq(l)
    BY <1>2, <1>3, <1>7, <1>8, FlattenTail DEF a
  <1> QED
    BY <1>9, Zenon DEF Letters, Each, l, rest

-----------------------------------------------------------------------------
(* What is under way.                                                       *)

LEMMA Carries ==
    /\ Carried(None) = <<>>
    /\ \A e \in Edit : Carried(e) = <<e.text>> /\ e.text \in Message
  BY EditIsNot DEF Carried, Edit, Message

\* All of it is messages.
LEMMA Weights ==
    ASSUME ShapeOK
    PROVE  /\ Letters(tasks) \in Seq(Message)
           /\ Carried(batch[Doc]) \in Seq(Message)
           /\ Carried(pending[Doc]) \in Seq(Message)
           /\ Carried(InHand) \in Seq(Message)
           /\ Transit \in Seq(Message)
           /\ source_texts[Doc] \in Message
           /\ DocumentText \in Message
  <1>1. ASSUME NEW e \in Edit \cup {None} PROVE Carried(e) \in Seq(Message)
    <2>1. \A m \in Message : <<m>> \in Seq(Message)
      OBVIOUS
    <2>2. <<>> \in Seq(Message)
      OBVIOUS
    <2> QED
      BY <2>1, <2>2, Carries, Zenon
  <1>2. /\ batch[Doc] \in Edit \cup {None} /\ pending[Doc] \in Edit \cup {None}
        /\ InHand \in Edit \cup {None} /\ documents[Doc] \in Edit \cup {None}
        /\ source_texts[Doc] \in Message /\ tasks \in Seq(Task)
    BY DocIsFile DEF ShapeOK, TypeOK, InHand, Message
  <1>3. Letters(tasks) \in Seq(Message)
    BY <1>2, EachTyped
  <1>4. DocumentText \in Message
    BY <1>2 DEF DocumentText, Message, Edit
  <1>5. /\ Carried(batch[Doc]) \in Seq(Message) /\ Carried(pending[Doc]) \in Seq(Message)
        /\ Carried(InHand) \in Seq(Message)
    BY <1>1, <1>2
  <1>6. Transit \in Seq(Message)
    BY <1>3, <1>5 DEF Transit
  <1> QED
    BY <1>2, <1>3, <1>4, <1>5, <1>6

\* A step that leaves the four places alone.
LEMMA Unmoved ==
    ASSUME source_texts'[Doc] = source_texts[Doc], documents'[Doc] = documents[Doc],
           Letters(tasks') = Letters(tasks), pending'[Doc] = pending[Doc],
           batch'[Doc] = batch[Doc], InHand' = InHand
    PROVE  UNCHANGED Box!vars
  <1>1. Transit' = Transit
    BY Zenon DEF Transit
  <1>2. DocumentText' = DocumentText
    BY Zenon DEF DocumentText
  <1> QED
    BY <1>1, <1>2 DEF Box!vars

\* A task that is no letter for the document, sent or received.
LEMMA OtherSent ==
    ASSUME ShapeOK, NEW task \in Task, tasks' = Append(tasks, task), Letter(task) = <<>>
    PROVE  Letters(tasks') = Letters(tasks)
  <1>1. tasks \in Seq(Task) /\ Letters(tasks) \in Seq(Message)
    BY Weights DEF ShapeOK, TypeOK
  <1>2. Letters(tasks') = Letters(tasks) \o <<>>
    BY <1>1, LettersAppend
  <1>3. Letters(tasks) \o <<>> = Letters(tasks)
    BY <1>1
  <1> QED
    BY <1>2, <1>3, Zenon

LEMMA OtherReceived ==
    ASSUME ShapeOK, tasks # <<>>, tasks' = Tail(tasks), Letter(Head(tasks)) = <<>>
    PROVE  Letters(tasks') = Letters(tasks)
  <1>1. tasks \in Seq(Task) /\ tasks' \in Seq(Task)
    BY DEF ShapeOK, TypeOK
  <1>2. Letters(tasks') \in Seq(Message)
    BY <1>1, EachTyped
  <1>3. Letters(tasks) = <<>> \o Letters(tasks')
    BY <1>1, LettersTail
  <1>4. <<>> \o Letters(tasks') = Letters(tasks')
    BY <1>2
  <1> QED
    BY <1>3, <1>4, Zenon

\* A letter sent goes to the end of the mail.
LEMMA LetterSent ==
    ASSUME ShapeOK, NEW task \in Task, tasks' = Append(tasks, task),
           NEW m \in Message, Letter(task) = <<m>>,
           pending'[Doc] = pending[Doc], batch'[Doc] = batch[Doc], InHand' = InHand
    PROVE  Transit' = Append(Transit, m)
  <1> DEFINE a == Carried(InHand)
             b == Carried(batch[Doc])
             c == Carried(pending[Doc])
             d == Letters(tasks)
  <1>1. tasks \in Seq(Task)
    BY DEF ShapeOK, TypeOK
  <1>2. Letters(tasks') = d \o <<m>>
    BY <1>1, LettersAppend
  <1>3. Transit' = a \o (b \o (c \o (d \o <<m>>)))
    BY <1>2, Zenon DEF Transit
  <1>4. a \in Seq(Message) /\ b \in Seq(Message) /\ c \in Seq(Message) /\ d \in Seq(Message)
    BY Weights
  <1>5. \A p, q \in Seq(Message) : p \o Append(q, m) = Append(p \o q, m)
    BY ConcatProperties, AppendProperties, SeqEqual
  <1>6. d \o <<m>> = Append(d, m)
    BY <1>4
  <1>7. c \o Append(d, m) = Append(c \o d, m) /\ c \o d \in Seq(Message)
    BY <1>4, <1>5
  <1>8. b \o Append(c \o d, m) = Append(b \o (c \o d), m) /\ b \o (c \o d) \in Seq(Message)
    BY <1>4, <1>5, <1>7
  <1>9. a \o Append(b \o (c \o d), m) = Append(a \o (b \o (c \o d)), m)
    BY <1>4, <1>5, <1>8
  <1> QED
    BY <1>3, <1>6, <1>7, <1>8, <1>9, Zenon DEF Transit

-----------------------------------------------------------------------------
(* The steps of the mailbox.                                                *)

\* A letter sent is a message sent; opening may show it at once.
LEMMA SendsLetter ==
    ASSUME ShapeOK, NEW task \in Task, tasks' = Append(tasks, task),
           NEW m \in Message, Letter(task) = <<m>>, UNCHANGED worker,
           source_texts'[Doc] = m,
           \/ documents'[Doc] = documents[Doc]
           \/ documents'[Doc] # None /\ documents'[Doc].text = m /\ m # None
    PROVE  Box!Next
  <1>1. Transit' = Append(Transit, m)
    BY LetterSent DEF worker, InHand
  <1>2. DocumentText' \in {DocumentText} \cup ({m} \ {None})
    BY DEF DocumentText
  <1>3. Box!Send(m)
    BY <1>1, <1>2 DEF Box!Send
  <1> QED
    BY <1>3 DEF Box!Next, Box!Message, Message

-----------------------------------------------------------------------------
(* The steps of the pipeline.                                               *)

\* An open, change or close of the document is sent; one that is too long, one
\* of another file, a save and what happens on the disk are no mail.
LEMMA MailboxUser ==
    ASSUME ShapeOK, User
    PROVE  [Box!Next]_Box!vars
  <1> USE PipelineConstants, EditIsNot, DocIsFile DEF env, graph
  <1>0. TypeOK
    BY DEF ShapeOK
  <1>1. UNCHANGED worker => pending'[Doc] = pending[Doc] /\ batch'[Doc] = batch[Doc] /\ InHand' = InHand
    BY DEF worker, InHand
  <1>2. ASSUME NEW u \in EditorFiles, NEW v \in OpenVersion, NEW x \in Text, DidOpen(u, v, x)
        PROVE  [Box!Next]_Box!vars
    <2> DEFINE edit == [version |-> v, text |-> x]
               task == [kind |-> "parse", uri |-> u, edit |-> edit]
    <2>1. edit \in Edit /\ edit.text = x /\ u \in Uri /\ x \in Message /\ x # None
      BY DEF Edit, Message
    <2>2. task \in Task /\ Letter(task) = IF u = Doc THEN <<x>> ELSE <<>>
      BY <2>1 DEF Task, Letter
    <2> HIDE DEF task
    <2>3. CASE x \in Oversize
      BY <1>1, <1>2, <2>3, Unmoved DEF DidOpen
    <2>4. CASE x \notin Oversize
      <3>1. /\ tasks' = Append(tasks, task) /\ UNCHANGED worker
            /\ source_texts' = [source_texts EXCEPT ![u] = x]
            /\ documents' = documents \/ documents' = [documents EXCEPT ![u] = edit]
        BY <1>2, <2>4 DEF DidOpen, SendTask, task
      <3>2. CASE u = Doc
        <4>1. source_texts'[Doc] = x
          BY <1>0, <3>1, <3>2 DEF TypeOK
        <4>2. \/ documents'[Doc] = documents[Doc]
              \/ documents'[Doc] # None /\ documents'[Doc].text = x /\ x # None
          BY <1>0, <2>1, <3>1, <3>2 DEF TypeOK
        <4>3. Box!Next
          BY <2>1, <2>2, <3>1, <3>2, <4>1, <4>2, SendsLetter
        <4> QED
          BY <4>3
      <3>3. CASE u # Doc
        <4>1. Letters(tasks') = Letters(tasks)
          BY <2>2, <3>1, <3>3, OtherSent
        <4>2. source_texts'[Doc] = source_texts[Doc] /\ documents'[Doc] = documents[Doc]
          BY <1>0, <3>1, <3>3 DEF TypeOK
        <4> QED
          BY <1>1, <3>1, <4>1, <4>2, Unmoved
      <3> QED
        BY <3>2, <3>3
    <2> QED
      BY <2>3, <2>4
  <1>3. ASSUME NEW u \in EditorFiles, NEW x \in Text, DidChange(u, x)
        PROVE  [Box!Next]_Box!vars
    <2> DEFINE edit == [version |-> editor[u].version + 1, text |-> x]
               task == [kind |-> "parse", uri |-> u, edit |-> edit]
    <2>1. edit \in Edit /\ edit.text = x /\ u \in Uri /\ x \in Message /\ x # None
      BY <1>0, <1>3 DEF Edit, Message, DidChange, TypeOK
    <2>2. task \in Task /\ Letter(task) = IF u = Doc THEN <<x>> ELSE <<>>
      BY <2>1 DEF Task, Letter
    <2> HIDE DEF task
    <2>3. CASE x \in Oversize
      BY <1>1, <1>3, <2>3, Unmoved DEF DidChange
    <2>4. CASE x \notin Oversize
      <3>1. /\ tasks' = Append(tasks, task) /\ UNCHANGED worker
            /\ source_texts' = [source_texts EXCEPT ![u] = x]
            /\ documents' = documents
        BY <1>3, <2>4 DEF DidChange, SendTask, task
      <3>2. CASE u = Doc
        <4>1. source_texts'[Doc] = x
          BY <1>0, <3>1, <3>2 DEF TypeOK
        <4>2. Box!Next
          BY <2>1, <2>2, <3>1, <3>2, <4>1, SendsLetter
        <4> QED
          BY <4>2
      <3>3. CASE u # Doc
        <4>1. Letters(tasks') = Letters(tasks)
          BY <2>2, <3>1, <3>3, OtherSent
        <4>2. source_texts'[Doc] = source_texts[Doc]
          BY <1>0, <3>1, <3>3 DEF TypeOK
        <4> QED
          BY <1>1, <3>1, <4>1, <4>2, Unmoved
      <3> QED
        BY <3>2, <3>3
    <2> QED
      BY <2>3, <2>4
  <1>4. ASSUME NEW u \in EditorFiles, DidClose(u)
        PROVE  [Box!Next]_Box!vars
    <2> DEFINE task == [kind |-> "close", uri |-> u, edit |-> None]
    <2>1. u \in Uri /\ None \in Message
      BY DEF Message
    <2>2. task \in Task /\ Letter(task) = IF u = Doc THEN <<None>> ELSE <<>>
      BY <2>1 DEF Task, Letter
    <2>3. /\ tasks' = Append(tasks, task) /\ UNCHANGED worker
          /\ source_texts' = [source_texts EXCEPT ![u] = None]
          /\ documents' = documents
      BY <1>4 DEF DidClose, SendTask
    <2> HIDE DEF task
    <2>4. CASE u = Doc
      <3>1. source_texts'[Doc] = None
        BY <1>0, <2>3, <2>4 DEF TypeOK
      <3>2. Box!Next
        BY <2>1, <2>2, <2>3, <2>4, <3>1, SendsLetter
      <3> QED
        BY <3>2
    <2>5. CASE u # Doc
      <3>1. Letters(tasks') = Letters(tasks)
        BY <2>2, <2>3, <2>5, OtherSent
      <3>2. source_texts'[Doc] = source_texts[Doc]
        BY <1>0, <2>3, <2>5 DEF TypeOK
      <3> QED
        BY <1>1, <2>3, <3>1, <3>2, Unmoved
    <2> QED
      BY <2>4, <2>5
  <1>5. ASSUME UNCHANGED <<source_texts, documents, tasks, worker>>
        PROVE  [Box!Next]_Box!vars
    BY <1>1, <1>5, Unmoved
  <1>6. CASE CheckWorkspaceCommand
    <2> DEFINE task == [kind |-> "check", uri |-> None, edit |-> None]
    <2>1. task \in Task /\ Letter(task) = <<>>
      BY DEF Task, Letter
    <2>2. tasks' = Append(tasks, task) /\ UNCHANGED <<source_texts, documents, worker>>
      BY <1>6 DEF CheckWorkspaceCommand, SendTask
    <2> HIDE DEF task
    <2>3. Letters(tasks') = Letters(tasks)
      BY <2>1, <2>2, OtherSent
    <2> QED
      BY <1>1, <2>2, <2>3, Unmoved
  <1>7. ASSUME NEW u \in Uri, NEW x \in Text, Save(u) \/ DiskWrite(u, x) \/ DiskDelete(u)
        PROVE  [Box!Next]_Box!vars
    BY <1>5, <1>7 DEF Save, DiskWrite, DiskDelete
  <1>8. OnDisk \in Text
    OBVIOUS
  <1> QED
    BY <1>2, <1>3, <1>4, <1>6, <1>7, <1>8 DEF User

LEMMA MailboxWatcher ==
    ASSUME ShapeOK, NEW u \in Uri, DidChangeWatchedFiles(u)
    PROVE  [Box!Next]_Box!vars
  <1>1. pending'[Doc] = pending[Doc] /\ batch'[Doc] = batch[Doc] /\ InHand' = InHand
        /\ UNCHANGED <<source_texts, documents>>
    BY DEF DidChangeWatchedFiles, worker, InHand
  <1>2. CASE tasks' = tasks
    BY <1>1, <1>2, Unmoved
  <1>3. CASE source_texts[u] = None
    <2>1. PICK kind \in {"change", "delete"} :
             tasks' = Append(tasks, [kind |-> kind, uri |-> u, edit |-> None])
      BY <1>3 DEF DidChangeWatchedFiles, SendTask
    <2> DEFINE task == [kind |-> kind, uri |-> u, edit |-> None]
    <2>2. task \in Task /\ Letter(task) = <<>>
      BY DEF Task, Letter
    <2> HIDE DEF task
    <2>3. tasks' = Append(tasks, task)
      BY <2>1 DEF task
    <2>4. Letters(tasks') = Letters(tasks)
      BY <2>2, <2>3, OtherSent
    <2> QED
      BY <1>1, <2>4, Unmoved
  <1> QED
    BY <1>2, <1>3 DEF DidChangeWatchedFiles

\* While the worker is not flushing, an edit can only wait or be queued.
LEMMA Waiting ==
    ASSUME ShapeOK, job.step # "drain", ~Flushing
    PROVE  Transit = Carried(pending[Doc]) \o Letters(tasks)
  <1>1. InHand = None /\ batch[Doc] = None
    BY DocIsFile DEF ShapeOK, JobOK, Flushing, InHand
  <1>2. Carried(InHand) = <<>> /\ Carried(batch[Doc]) = <<>>
    BY <1>1, Carries, Zenon
  <1>3. Carried(pending[Doc]) \o Letters(tasks) \in Seq(Message)
    BY Weights
  <1>4. <<>> \o (Carried(pending[Doc]) \o Letters(tasks)) = Carried(pending[Doc]) \o Letters(tasks)
    BY <1>3
  <1> QED
    BY <1>2, <1>4, Zenon DEF Transit

\* The same after a step.
LEMMA WaitingThen ==
    (ShapeOK /\ job.step # "drain" /\ ~Flushing
        => Transit = Carried(pending[Doc]) \o Letters(tasks))'
  <1>1. ShapeOK /\ job.step # "drain" /\ ~Flushing
           => Transit = Carried(pending[Doc]) \o Letters(tasks)
    BY Waiting
  <1> QED
    BY <1>1, PTL

\* While it is flushing, none waits.
LEMMA Drained ==
    ASSUME ShapeOK, job.step = "drain" \/ Flushing
    PROVE  Transit = Carried(InHand) \o (Carried(batch[Doc]) \o Letters(tasks))
  <1>1. pending[Doc] = None
    BY DocIsFile DEF ShapeOK, JobOK
  <1>2. Carried(pending[Doc]) = <<>>
    BY <1>1, Carries, Zenon
  <1>3. <<>> \o Letters(tasks) = Letters(tasks)
    BY Weights
  <1> QED
    BY <1>2, <1>3, Zenon DEF Transit

\* The other steps of the mailbox, from what the pipeline does.
LEMMA Delivers ==
    ASSUME ShapeOK, NEW k \in 1 .. Len(Transit), DocumentText' = Transit[k],
           Transit' = SubSeq(Transit, k + 1, Len(Transit)),
           source_texts'[Doc] = source_texts[Doc]
    PROVE  Box!Next
  BY DEF Box!Next, Box!Deliver

LEMMA Supersedes ==
    ASSUME ShapeOK, NEW k \in 1 .. Len(Transit), k < Len(Transit),
           Transit' = RemoveAt(Transit, k),
           source_texts'[Doc] = source_texts[Doc], DocumentText' = DocumentText
    PROVE  Box!Next
  BY DEF Box!Next, Box!Supersede, Box!RemoveAt, RemoveAt

LEMMA Discards ==
    ASSUME ShapeOK, Transit # <<>>, Head(Transit) \in Unparsable, Transit' = Tail(Transit),
           source_texts'[Doc] = source_texts[Doc], DocumentText' = DocumentText
    PROVE  Box!Next
  BY DEF Box!Next, Box!Discard


\* Received, an edit supersedes the one that waits, and a close delivers None
\* past it.
LEMMA MailboxReceive ==
    ASSUME ShapeOK, ShapeOK',
           \/ ReceiveParse \/ ReceiveClose \/ ReceiveExternalChange
           \/ ReceiveExternalDelete \/ ReceiveCheckWorkspace
    PROVE  [Box!Next]_Box!vars
  <1> DEFINE task == Head(tasks)
             rest == Letters(tasks')
  <1> USE DocIsFile, EditIsNot DEF env, graph
  <1>0. TypeOK /\ TypeOK' /\ tasks \in Seq(Task)
    BY DEF ShapeOK, TypeOK
  <1>1. /\ tasks # <<>> /\ tasks' = Tail(tasks) /\ job = Idle /\ job.step = "idle"
        /\ task \in Task /\ batch' = batch /\ source_texts' = source_texts
        /\ InHand = None
    <2>1. PICK kind : Receive(kind)
      BY DEF ReceiveParse, ReceiveClose, ReceiveExternalChange,
             ReceiveExternalDelete, ReceiveCheckWorkspace
    <2>2. UNCHANGED <<batch, source_texts>>
      BY DEF ReceiveParse, ReceiveClose, ReceiveExternalChange,
             ReceiveExternalDelete, ReceiveCheckWorkspace
    <2>3. task \in Task /\ job = Idle /\ job.step = "idle"
      BY <2>1, ReceivedTask
    <2> QED
      BY <2>1, <2>2, <2>3 DEF Receive, InHand
  <1>2. Letters(tasks) = Letter(task) \o rest /\ rest \in Seq(Message)
    <2>1. Letters(tasks) = Letter(task) \o Letters(Tail(tasks))
      BY <1>0, <1>1, LettersTail
    <2>2. tasks' \in Seq(Task)
      BY <1>0 DEF TypeOK
    <2> QED
      BY <1>1, <2>1, <2>2, EachTyped
  <1>3. Transit = Carried(pending[Doc]) \o Letters(tasks)
    BY <1>1, Waiting DEF Flushing
  <1>4. ASSUME job'.step \in {"idle", "clear", "refresh", "check_index"}
        PROVE  Transit' = Carried(pending'[Doc]) \o rest /\ InHand' = None
    <2>1. job'.step # "drain" /\ ~Flushing'
      BY <1>4 DEF Flushing
    <2>2. InHand' = None
      BY <1>4 DEF InHand
    <2> QED
      BY <2>1, <2>2, WaitingThen
  <1>5. ASSUME Letter(task) = <<>>, pending'[Doc] = pending[Doc], documents'[Doc] = documents[Doc],
               job'.step \in {"idle", "clear", "refresh", "check_index"}
        PROVE  [Box!Next]_Box!vars
    <2>1. Letters(tasks') = Letters(tasks)
      BY <1>1, <1>5, OtherReceived
    <2> QED
      BY <1>1, <1>4, <1>5, <2>1, Unmoved
  <1> HIDE DEF rest
  <1>6. CASE ReceiveParse
    <2>1. /\ task.uri \in Uri /\ task.edit \in Edit /\ task.kind = "parse"
          /\ pending' = [pending EXCEPT ![task.uri] = task.edit]
          /\ documents' = documents /\ job' = job
      BY <1>6, ReceivedTask DEF ReceiveParse, Coalesced
    <2>2. CASE task.uri # Doc
      <3>1. Letter(task) = <<>> /\ pending'[Doc] = pending[Doc]
        BY <1>0, <2>1, <2>2 DEF Letter, TypeOK
      <3> QED
        BY <1>1, <1>5, <2>1, <3>1
    <2>3. CASE task.uri = Doc
      <3>0. task.edit.text \in Message
        BY <2>1, Carries
      <3>a. PICK y \in Message : y = task.edit.text
        BY <3>0
      <3>1. Letter(task) = <<y>> /\ pending'[Doc] = task.edit
        BY <1>0, <2>1, <2>3, <3>a DEF Letter, TypeOK
      <3>2. Transit' = <<y>> \o rest
        BY <1>1, <1>4, <2>1, <3>a, <3>1, Carries
      <3>3. DocumentText' = DocumentText
        BY <2>1 DEF DocumentText
      <3>4. CASE pending[Doc] = None
        <4>1. <<y>> \o rest \in Seq(Message)
          BY <1>2, <3>1
        <4>2. <<>> \o (<<y>> \o rest) = <<y>> \o rest
          BY <4>1
        <4>3. Transit = <<y>> \o rest
          BY <1>2, <1>3, <3>1, <3>4, <4>2, Carries, Zenon
        <4> QED
          BY <1>1, <3>2, <3>3, <4>3 DEF Box!vars
      <3>5. CASE pending[Doc] # None
        <4>1. PICK x \in Message : Carried(pending[Doc]) = <<x>>
          BY <1>0, <3>5, Carries DEF TypeOK
        <4>2. Transit = <<x>> \o (<<y>> \o rest)
          BY <1>2, <1>3, <3>1, <4>1, Zenon
        <4>3. /\ 1 \in 1 .. Len(Transit) /\ 1 < Len(Transit)
              /\ RemoveAt(Transit, 1) = <<y>> \o rest
          <5> DEFINE m == <<x>> \o (<<y>> \o rest)
          <5>0. rest \in Seq(Message)
            BY <1>2
          <5>1. 1 \in 1 .. Len(m) /\ 1 < Len(m)
            BY <5>0, InSecond
          <5>a. <<y>> \o rest \in Seq(Message)
            BY <5>0
          <5>2. PICK t \in Seq(Message) : t = <<y>> \o rest
            BY <5>a, Zenon
          <5>3. RemoveAt(<<x>> \o t, 1) = t
            BY InFront
          <5> QED
            BY <4>2, <5>1, <5>2, <5>3, Zenon
        <4>4. Box!Next
          BY <1>1, <3>2, <3>3, <4>3, Supersedes
        <4> QED
          BY <4>4
      <3> QED
        BY <3>4, <3>5
    <2> QED
      BY <2>2, <2>3
  <1>7. CASE ReceiveClose
    <2>1. /\ task.uri \in Uri /\ task.kind = "close"
          /\ pending' = [pending EXCEPT ![task.uri] = None]
          /\ documents' = [documents EXCEPT ![task.uri] = None]
          /\ job' = [Idle EXCEPT !.step = "clear", !.uri = task.uri]
      BY <1>7, ReceivedTask DEF ReceiveClose, Removed
    <2>2. job'.step = "clear"
      BY <2>1 DEF Idle
    <2>3. CASE task.uri # Doc
      <3>1. Letter(task) = <<>> /\ pending'[Doc] = pending[Doc] /\ documents'[Doc] = documents[Doc]
        BY <1>0, <2>1, <2>3 DEF Letter, TypeOK
      <3> QED
        BY <1>5, <2>2, <3>1
    <2>4. CASE task.uri = Doc
      <3>1. Letter(task) = <<None>> /\ pending'[Doc] = None /\ DocumentText' = None
            /\ None \in Message
        BY <1>0, <2>1, <2>4 DEF Letter, TypeOK, DocumentText, Message
      <3>2. Transit' = rest
        <4>1. Transit' = <<>> \o rest
          BY <1>4, <2>2, <3>1, Carries
        <4>2. <<>> \o rest = rest
          BY <1>2
        <4> QED
          BY <4>1, <4>2, Zenon
      <3>3. \E k \in 1 .. Len(Transit) : Transit[k] = None
                                        /\ SubSeq(Transit, k + 1, Len(Transit)) = rest
        <4>1. CASE pending[Doc] = None
          <5>1. <<None>> \o rest \in Seq(Message)
            BY <1>2, <3>1
          <5>2. <<>> \o (<<None>> \o rest) = <<None>> \o rest
            BY <5>1
          <5>3. Transit = <<None>> \o rest
            BY <1>2, <1>3, <3>1, <4>1, <5>2, Carries, Zenon
          <5>4. 1 \in 1 .. Len(Transit) /\ Transit[1] = None
                /\ SubSeq(Transit, 2, Len(Transit)) = rest /\ 1 + 1 = 2
            BY <1>2, <3>1, <5>3, InFront
          <5> QED
            BY <5>4
        <4>2. CASE pending[Doc] # None
          <5>1. PICK x \in Message : Carried(pending[Doc]) = <<x>>
            BY <1>0, <4>2, Carries DEF TypeOK
          <5>2. Transit = <<x>> \o (<<None>> \o rest)
            BY <1>2, <1>3, <3>1, <5>1, Zenon
          <5>3. 2 \in 1 .. Len(Transit) /\ Transit[2] = None
                /\ SubSeq(Transit, 3, Len(Transit)) = rest /\ 2 + 1 = 3
            BY <1>2, <3>1, <5>2, InSecond
          <5> QED
            BY <5>3
        <4> QED
          BY <4>1, <4>2
      <3>4. PICK k \in 1 .. Len(Transit) : Transit[k] = None
                                        /\ SubSeq(Transit, k + 1, Len(Transit)) = rest
        BY <3>3
      <3>5. Box!Next
        BY <1>1, <3>1, <3>2, <3>4, Delivers
      <3> QED
        BY <3>5
    <2> QED
      BY <2>3, <2>4
  <1>8. CASE ReceiveExternalChange
    <2>1. /\ Letter(task) = <<>> /\ job'.step \in {"idle", "refresh"}
          /\ pending' = pending /\ documents' = documents
      BY <1>1, <1>8, IdleFields DEF ReceiveExternalChange, Receive, Letter, Refresh, Idle
    <2> QED
      BY <1>5, <2>1
  <1>9. CASE ReceiveExternalDelete
    <2>1. /\ Letter(task) = <<>> /\ job'.step = "refresh"
          /\ pending' = pending /\ documents' = documents
      BY <1>1, <1>9, IdleFields DEF ReceiveExternalDelete, Receive, Letter, Refresh, Idle
    <2> QED
      BY <1>5, <2>1
  <1>10. CASE ReceiveCheckWorkspace
    <2>1. /\ Letter(task) = <<>> /\ job'.step \in {"idle", "check_index"}
          /\ pending' = pending /\ documents' = documents
      BY <1>1, <1>10, IdleFields DEF ReceiveCheckWorkspace, Receive, Letter, Idle
    <2> QED
      BY <1>5, <2>1
  <1> QED
    BY <1>6, <1>7, <1>8, <1>9, <1>10

LEMMA DrainedThen ==
    (ShapeOK /\ (job.step = "drain" \/ Flushing)
        => Transit = Carried(InHand) \o (Carried(batch[Doc]) \o Letters(tasks)))'
  <1>1. ShapeOK /\ (job.step = "drain" \/ Flushing)
           => Transit = Carried(InHand) \o (Carried(batch[Doc]) \o Letters(tasks))
    BY Drained
  <1> QED
    BY <1>1, PTL

\* The flush carries an edit from pending through the batch into the worker's
\* hands, which moves nothing in the mailbox, until it is stored: delivered.
\* What the parser gives up on is discarded.
LEMMA MailboxFlush ==
    ASSUME ShapeOK, ShapeOK',
           \/ TimerFires \/ (\E u \in Uri : FlushParse(u))
           \/ FlushIndex \/ FlushStore \/ FlushPublish \/ FlushDone
    PROVE  [Box!Next]_Box!vars
  <1> DEFINE q == Letters(tasks)
  <1> USE DocIsFile, EditIsNot DEF env, graph
  <1>0. TypeOK /\ JobOK /\ q \in Seq(Message)
    BY Weights DEF ShapeOK
  <1>1. UNCHANGED <<tasks, source_texts>>
    BY DEF TimerFires, FlushParse, FlushIndex, FlushStore, FlushPublish, FlushDone
  <1>2. Letters(tasks') = q
    BY <1>1
  <1>a. [Idle EXCEPT !.step = "drain"].step = "drain"
    BY DEF Idle
  <1> HIDE DEF q
  <1>3. ASSUME job.step = "drain" \/ Flushing
        PROVE  Transit = Carried(InHand) \o (Carried(batch[Doc]) \o q)
    BY <1>3, Drained DEF q
  <1>4. ASSUME job'.step = "drain" \/ Flushing'
        PROVE  Transit' = Carried(InHand') \o (Carried(batch'[Doc]) \o q)
    BY <1>2, <1>4, DrainedThen
  <1>5. ASSUME documents'[Doc] = documents[Doc], pending'[Doc] = pending[Doc],
               batch'[Doc] = batch[Doc], InHand' = InHand
        PROVE  [Box!Next]_Box!vars
    BY <1>1, <1>2, <1>5, Unmoved DEF q
  <1>6. CASE TimerFires
    <2>1. /\ batch'[Doc] = pending[Doc] /\ documents' = documents
          /\ job.step = "idle" /\ job'.step = "drain" /\ InHand' = None
      BY <1>0, <1>6, <1>a, IdleFields DEF TimerFires, InHand
    <2>2. Transit = Carried(pending[Doc]) \o q
      BY <2>1, Waiting DEF Flushing, q
    <2>3. Transit' = <<>> \o (Carried(pending[Doc]) \o q)
      BY <1>4, <2>1, Carries
    <2>4. Carried(pending[Doc]) \o q \in Seq(Message)
      BY <1>0, Weights
    <2>5. <<>> \o (Carried(pending[Doc]) \o q) = Carried(pending[Doc]) \o q
      BY <2>4
    <2>6. Transit' = Transit
      BY <2>2, <2>3, <2>5, Zenon
    <2>7. DocumentText' = DocumentText
      BY <2>1 DEF DocumentText
    <2> QED
      BY <1>1, <2>6, <2>7 DEF Box!vars
  <1>7. ASSUME NEW u \in Uri, FlushParse(u) PROVE [Box!Next]_Box!vars
    <2>1. /\ batch[u] \in Edit /\ job.step = "drain"
          /\ batch' = [batch EXCEPT ![u] = None]
          /\ UNCHANGED <<documents, pending>> /\ InHand = None
      BY <1>0, <1>7 DEF FlushParse, TypeOK, InHand
    <2>2. IF batch[u].text \in Unparsable THEN job' = job
          ELSE job'.step = "index" /\ job'.uri = u /\ job'.edit = batch[u]
      BY <1>7 DEF FlushParse, Idle
    <2>3. CASE u # Doc
      <3>1. batch'[Doc] = batch[Doc] /\ InHand' = InHand
        BY <1>0, <2>1, <2>2, <2>3 DEF InHand, TypeOK
      <3> QED
        BY <1>5, <2>1, <3>1
    <2>4. CASE u = Doc
      <3>1. batch'[Doc] = None
        BY <1>0, <2>1, <2>4 DEF TypeOK
      <3>2. PICK x \in Message : x = batch[Doc].text /\ Carried(batch[Doc]) = <<x>>
        BY <2>1, <2>4, Carries
      <3>3. DocumentText' = DocumentText
        BY <2>1 DEF DocumentText
      <3>4. Transit = <<x>> \o q
        <4>1. Transit = <<>> \o (<<x>> \o q)
          BY <1>3, <2>1, <3>2, Carries
        <4>2. <<x>> \o q \in Seq(Message)
          BY <1>0
        <4>3. <<>> \o (<<x>> \o q) = <<x>> \o q
          BY <4>2
        <4> QED
          BY <4>1, <4>3, Zenon
      <3>5. <<>> \o q = q
        BY <1>0
      <3>6. CASE batch[Doc].text \in Unparsable
        <4>1. job' = job /\ InHand' = None
          BY <2>1, <2>2, <2>4, <3>6 DEF InHand
        <4>2. Transit' = <<>> \o (<<>> \o q)
          BY <1>4, <2>1, <3>1, <4>1, Carries
        <4>3. Transit' = q
          BY <3>5, <4>2, Zenon
        <4>4. Transit # <<>> /\ Head(Transit) = x /\ Tail(Transit) = q
          BY <1>0, <3>4, InFront
        <4>5. Box!Next
          BY <1>1, <3>2, <3>3, <3>6, <4>3, <4>4, Discards
        <4> QED
          BY <4>5
      <3>7. CASE batch[Doc].text \notin Unparsable
        <4>1. job'.step = "index" /\ InHand' = batch[Doc]
          BY <2>2, <2>4, <3>7 DEF InHand
        <4>2. Transit' = <<x>> \o (<<>> \o q)
          BY <1>4, <3>1, <3>2, <4>1, Carries DEF Flushing
        <4>3. Transit' = Transit
          BY <3>4, <3>5, <4>2, Zenon
        <4> QED
          BY <1>1, <3>3, <4>3 DEF Box!vars
      <3> QED
        BY <3>6, <3>7
    <2> QED
      BY <2>3, <2>4
  <1>8. CASE FlushIndex
    <2>1. /\ job.step = "index" /\ job'.step = "store" /\ job'.uri = job.uri
          /\ job'.edit = job.edit /\ UNCHANGED <<documents, pending, batch>>
      BY <1>0, <1>8 DEF FlushIndex, TypeOK
    <2>2. InHand' = InHand
      BY <2>1 DEF InHand
    <2> QED
      BY <1>5, <2>1, <2>2
  <1>9. CASE FlushStore
    <2>1. /\ job.step = "store" /\ job.uri \in Uri /\ job.edit \in Edit
          /\ documents' = [documents EXCEPT ![job.uri] = job.edit]
          /\ UNCHANGED <<pending, batch>> /\ job'.step \in {"publish", "drain"}
      BY <1>0, <1>9, <1>a DEF FlushStore, JobOK, Flushing, TypeOK
    <2>2. InHand' = None
      BY <2>1 DEF InHand
    <2>3. CASE job.uri # Doc
      <3>1. documents'[Doc] = documents[Doc] /\ InHand = None
        BY <1>0, <2>1, <2>3 DEF InHand, TypeOK
      <3> QED
        BY <1>5, <2>1, <2>2, <3>1
    <2>4. CASE job.uri = Doc
      <3> DEFINE r == Carried(batch[Doc]) \o q
      <3>1. PICK x \in Message : x = job.edit.text /\ Carried(InHand) = <<x>>
        BY <2>1, <2>4, Carries DEF InHand
      <3>2. r \in Seq(Message)
        BY <1>0, Weights
      <3>3. DocumentText' = x
        BY <1>0, <2>1, <2>4, <3>1 DEF DocumentText, TypeOK
      <3>4. Transit = <<x>> \o r
        BY <1>3, <2>1, <3>1 DEF Flushing
      <3>5. Transit' = <<>> \o r
        BY <1>4, <2>1, <2>2, Carries DEF Flushing
      <3> HIDE DEF r
      <3>6. Transit' = r
        <4>1. <<>> \o r = r
          BY <3>2
        <4> QED
          BY <3>5, <4>1, Zenon
      <3>7. /\ 1 \in 1 .. Len(Transit) /\ Transit[1] = x
            /\ SubSeq(Transit, 1 + 1, Len(Transit)) = r
        BY <3>2, <3>4, InFront
      <3>8. Box!Next
        BY <1>1, <3>3, <3>6, <3>7, Delivers
      <3> QED
        BY <3>8
    <2> QED
      BY <2>3, <2>4
  <1>10. CASE FlushPublish
    <2>1. /\ job.step = "publish" /\ job'.step = "drain"
          /\ UNCHANGED <<documents, pending, batch>>
      BY <1>0, <1>10, <1>a DEF FlushPublish
    <2>2. InHand' = InHand
      BY <2>1 DEF InHand
    <2> QED
      BY <1>5, <2>1, <2>2
  <1>11. CASE FlushDone
    <2>1. /\ job.step = "drain" /\ job'.step = "idle"
          /\ UNCHANGED <<documents, pending, batch>>
      BY <1>11, IdleFields DEF FlushDone
    <2>2. InHand' = InHand
      BY <2>1 DEF InHand
    <2> QED
      BY <1>5, <2>1, <2>2
  <1> QED
    BY <1>6, <1>7, <1>8, <1>9, <1>10, <1>11

LEMMA MailboxCheck ==
    ASSUME ShapeOK,
           \/ ClearDiagnostics \/ (\E u \in Uri : RefreshOne(u)) \/ RefreshNone
           \/ (\E u \in Uri : CheckIndex(u))
           \/ (\E u \in Uri, x \in Text : CheckDisk(u, x)) \/ CheckOpenFiles
    PROVE  [Box!Next]_Box!vars
  <1>1. UNCHANGED <<source_texts, documents, tasks, pending, batch>>
    BY DEF ClearDiagnostics, RefreshOne, RefreshNone, CheckIndex, CheckDisk, CheckOpenFiles
  <1>2. InHand = None /\ InHand' = None
    <2>1. job.step \in {"clear", "refresh", "check_index"}
      BY DEF ClearDiagnostics, RefreshOne, RefreshNone, CheckIndex, CheckDisk, CheckOpenFiles
    <2>2. job'.step \in {"idle", "refresh", "check_index"}
      BY IdleFields DEF ClearDiagnostics, RefreshOne, RefreshNone, CheckIndex, CheckDisk,
         CheckOpenFiles, ShapeOK, TypeOK, Idle
    <2> QED
      BY <2>1, <2>2 DEF InHand
  <1> QED
    BY <1>1, <1>2, Unmoved

-----------------------------------------------------------------------------
(* The refinement.                                                          *)

LEMMA MailboxInit == Init => Box!Init
  <1> SUFFICES ASSUME Init PROVE Box!Init
    OBVIOUS
  <1>1. /\ source_texts[Doc] = None /\ documents[Doc] = None /\ tasks = <<>>
        /\ pending[Doc] = None /\ batch[Doc] = None /\ InHand = None
    BY DocIsFile DEF Init, Idle, InHand
  <1>2. Letters(<<>>) = <<>>
    <2>1. [i \in 1 .. Len(<<>>) |-> Letter(<<>>[i])] = <<>>
      OBVIOUS
    <2> QED
      BY <2>1, FlattenEmpty, Zenon DEF Letters
  <1>3. <<>> \o (<<>> \o (<<>> \o <<>>)) = <<>>
    OBVIOUS
  <1>4. Transit = <<>>
    BY <1>1, <1>2, <1>3, Carries, Zenon DEF Transit
  <1> QED
    BY <1>1, <1>4 DEF Box!Init, DocumentText

\* Whatever files the workspace has and whatever the user and other programs
\* do, each document has a mailbox that loses and reorders nothing: every step of
\* handlers, timer and worker is a step of it or none.
THEOREM PipelineIsMailbox == Spec => ImplementsMailbox
  <1>1. ASSUME ShapeOK, ShapeOK', [Next]_vars PROVE [Box!Next]_Box!vars
    <2>1. CASE UNCHANGED vars
      <3>1. UNCHANGED <<source_texts, documents, tasks, pending, batch, job>>
        BY <2>1 DEF vars, worker
      <3>2. InHand' = InHand
        BY <3>1 DEF InHand
      <3> QED
        BY <3>1, <3>2, Unmoved
    <2>2. CASE User
      BY <1>1, <2>2, MailboxUser
    <2>3. CASE Watcher
      BY <1>1, <2>3, MailboxWatcher DEF Watcher
    <2>4. CASE Worker
      BY <1>1, <2>4, MailboxReceive, MailboxFlush, MailboxCheck DEF Worker
    <2> QED
      BY <1>1, <2>1, <2>2, <2>3, <2>4 DEF Next
  <1> QED
    BY <1>1, MailboxInit, PipelineTypeCorrect, PTL DEF Spec, ImplementsMailbox, Box!Spec

\* What is proved of a mailbox holds of the pipeline's.
BoxProofs == INSTANCE MailboxProofs WITH want <- source_texts[Doc],
                             have <- DocumentText,
                             mail <- Transit

\* So the last text under way is the one the editor sent last, and with none
\* under way the analysed copy is that text, unless the parser gave up on it.
THEOREM PipelineLosesNothing == Spec => []Box!Delivered
  <1>1. Box!Init => BoxProofs!Init
    BY DEF Box!Init, BoxProofs!Init
  <1>2. [Box!Next]_Box!vars => [BoxProofs!Next]_BoxProofs!vars
    <2>1. Box!Message = BoxProofs!Message
      BY DEF Box!Message, BoxProofs!Message
    <2>2. ASSUME NEW m PROVE Box!Send(m) => BoxProofs!Send(m)
      BY DEF Box!Send, BoxProofs!Send
    <2>3. ASSUME NEW i PROVE Box!Deliver(i) => BoxProofs!Deliver(i)
      BY DEF Box!Deliver, BoxProofs!Deliver
    <2>4. ASSUME NEW i PROVE Box!Supersede(i) => BoxProofs!Supersede(i)
      BY DEF Box!Supersede, BoxProofs!Supersede, Box!RemoveAt, BoxProofs!RemoveAt
    <2>5. Box!Discard => BoxProofs!Discard
      BY DEF Box!Discard, BoxProofs!Discard
    <2>6. Box!Next => BoxProofs!Next
      BY <2>1, <2>2, <2>3, <2>4, <2>5 DEF Box!Next, BoxProofs!Next
    <2> QED
      BY <2>6 DEF Box!vars, BoxProofs!vars
  <1>3. BoxProofs!Delivered => Box!Delivered
    BY DEF Box!Delivered, BoxProofs!Delivered, Box!Last, BoxProofs!Last
  <1>4. BoxProofs!Spec => []BoxProofs!Delivered
    BY BoxProofs!NothingLost
  <1> QED
    BY <1>1, <1>2, <1>3, <1>4, PipelineIsMailbox, PTL DEF ImplementsMailbox, Box!Spec, BoxProofs!Spec
=============================================================================
