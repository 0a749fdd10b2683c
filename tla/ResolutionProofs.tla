-------------------------- MODULE ResolutionProofs --------------------------
(***************************************************************************)
(* Proofs about the edges of the module graph: in which ways they may be   *)
(* out of date, that none is left without its file, and that a file        *)
(* matters only to the imports that mean it.                               *)
(***************************************************************************)
EXTENDS Resolution, SequenceTheorems, WellFoundedInduction, TLAPS

-----------------------------------------------------------------------------
(* Searches.                                                                *)

\* A nonempty set of numbers has a least one.
LEMMA LeastNumber ==
    ASSUME NEW S, S \subseteq Nat, S # {}
    PROVE  \E i \in S : \A j \in S : i <= j
  <1>1. PICK i \in S : \A j \in S : ~(<<j, i>> \in OpToRel(<, Nat))
    BY WFMin, NatLessThanWellFounded
  <1>2. \A j \in S : ~(j < i)
    BY <1>1 DEF OpToRel
  <1> QED
    BY <1>2

LEMMA FirstPlace ==
    ASSUME NEW search, DOMAIN search \subseteq Nat, NEW D,
           Hits(D, search) # {}
    PROVE  \E i \in Hits(D, search) :
              /\ \A j \in Hits(D, search) : i <= j
              /\ FirstOn(D, search) = [kind |-> "file", path |-> search[i]]
  <1> DEFINE S == Hits(D, search)
             Least(i) == \A j \in S : i <= j
             c == CHOOSE i \in S : Least(i)
  <1>1. S \subseteq Nat
    BY DEF Hits
  <1>2. \E i \in S : Least(i)
    BY <1>1, LeastNumber
  <1>3. c \in S /\ Least(c)
    BY <1>2
  <1>4. FirstOn(D, search) = [kind |-> "file", path |-> search[c]]
    BY DEF FirstOn, FirstOf
  <1> QED
    BY <1>3, <1>4

\* What a search finds on two disks: if it is not the same, it is a file that
\* only one of them has.
LEMMA SearchOnTwoDisks ==
    ASSUME NEW search, DOMAIN search \subseteq Nat, NEW D, NEW E,
           FirstOn(D, search) # FirstOn(E, search)
    PROVE  \/ /\ FirstOn(D, search).kind = "file"
              /\ Normal(FirstOn(D, search).path) \in D \ E
           \/ /\ FirstOn(E, search).kind = "file"
              /\ Normal(FirstOn(E, search).path) \in E \ D
  <1>1. CASE Hits(D, search) = {} /\ Hits(E, search) = {}
    BY <1>1 DEF FirstOn, FirstOf
  <1>2. CASE Hits(D, search) = {} /\ Hits(E, search) # {}
    <2>1. PICK j \in Hits(E, search) :
             FirstOn(E, search) = [kind |-> "file", path |-> search[j]]
      BY <1>2, FirstPlace
    <2>2. Normal(search[j]) \in E \ D
      BY <1>2 DEF Hits
    <2> QED
      BY <2>1, <2>2
  <1>3. CASE Hits(D, search) # {} /\ Hits(E, search) = {}
    <2>1. PICK i \in Hits(D, search) :
             FirstOn(D, search) = [kind |-> "file", path |-> search[i]]
      BY <1>3, FirstPlace
    <2>2. Normal(search[i]) \in D \ E
      BY <1>3 DEF Hits
    <2> QED
      BY <2>1, <2>2
  <1>4. CASE Hits(D, search) # {} /\ Hits(E, search) # {}
    <2>1. PICK i \in Hits(D, search) :
             /\ \A n \in Hits(D, search) : i <= n
             /\ FirstOn(D, search) = [kind |-> "file", path |-> search[i]]
      BY <1>4, FirstPlace
    <2>2. PICK j \in Hits(E, search) :
             /\ \A n \in Hits(E, search) : j <= n
             /\ FirstOn(E, search) = [kind |-> "file", path |-> search[j]]
      BY <1>4, FirstPlace
    <2>3. i \in Nat /\ j \in Nat /\ i \in DOMAIN search /\ j \in DOMAIN search
      BY DEF Hits
    <2>4. CASE i \notin Hits(E, search)
      <3>1. Normal(search[i]) \in D \ E
        BY <2>4 DEF Hits
      <3> QED
        BY <2>1, <3>1
    <2>5. CASE j \notin Hits(D, search)
      <3>1. Normal(search[j]) \in E \ D
        BY <2>5 DEF Hits
      <3> QED
        BY <2>2, <3>1
    <2>6. CASE i \in Hits(E, search) /\ j \in Hits(D, search)
      <3>1. i <= j /\ j <= i
        BY <2>1, <2>2, <2>6
      <3>2. i = j
        BY <2>3, <3>1
      <3> QED
        BY <2>1, <2>2, <3>2
    <2> QED
      BY <2>4, <2>5, <2>6
  <1> QED
    BY <1>1, <1>2, <1>3, <1>4

\* The specifiers of the files that the graph may know.
LEMMA SearchOfUse ==
    ASSUME NEW f \in Names, NEW k \in DOMAIN Uses[Normal(f)]
    PROVE  /\ Uses[Normal(f)] \in Seq(Seq(STRING))
           /\ Uses[Normal(f)][k] \in Seq(STRING)
           /\ LET search == Search(Uses[Normal(f)][k], f)
              IN  /\ DOMAIN search \subseteq Nat
                  /\ \A i \in DOMAIN search :
                        search[i] \in Seq(STRING)
                        /\ (Normal(search[i]) \in Files => search[i] \in Names)
  <1>1. Uses[Normal(f)] \in Seq(Seq(STRING))
    BY ResolutionConstants
  <1>2. Uses[Normal(f)][k] \in Seq(STRING)
    BY <1>1
  <1> DEFINE search == Search(Uses[Normal(f)][k], f)
  <1>3. /\ search \in Seq(Seq(STRING))
        /\ \A i \in DOMAIN search : Normal(search[i]) \in Files => search[i] \in Names
    BY NamesClosed
  <1> HIDE DEF search
  <1>4. DOMAIN search \subseteq Nat /\ \A i \in DOMAIN search : search[i] \in Seq(STRING)
    BY <1>3
  <1> QED
    BY <1>1, <1>2, <1>3, <1>4 DEF search

LEMMA ResolvedType ==
    ASSUME NEW f \in Names, NEW k \in DOMAIN Uses[Normal(f)], NEW D \in SUBSET Files
    PROVE  Resolve(D, Uses[Normal(f)][k], f) \in Resolutions
  <1> DEFINE spec == Uses[Normal(f)][k]
             search == Search(spec, f)
  <1>1. /\ spec \in Seq(STRING)
        /\ DOMAIN search \subseteq Nat
        /\ \A i \in DOMAIN search : Normal(search[i]) \in Files => search[i] \in Names
    BY SearchOfUse
  <1>2. NotFound \in Resolutions
    <2>1. <<>> \in Seq(STRING)
      OBVIOUS
    <2> QED
      BY <2>1 DEF NotFound, Resolutions
  <1>3. FirstOn(D, search) \in Resolutions
    <2> HIDE DEF search
    <2>1. CASE Hits(D, search) = {}
      BY <2>1, <1>2 DEF FirstOn, FirstOf
    <2>2. CASE Hits(D, search) # {}
      <3>1. PICK i \in Hits(D, search) :
               FirstOn(D, search) = [kind |-> "file", path |-> search[i]]
        BY <1>1, <2>2, FirstPlace
      <3>2. search[i] \in Names
        BY <1>1 DEF Hits
      <3> QED
        BY <3>1, <3>2 DEF Resolutions
    <2> QED
      BY <2>1, <2>2
  <1>4. [kind |-> "builtin", path |-> spec] \in Resolutions
        /\ [kind |-> "css", path |-> spec] \in Resolutions
    BY <1>1 DEF Resolutions
  <1> HIDE DEF spec
  <1>5. Resolve(D, spec, f) \in Resolutions
    BY <1>2, <1>3, <1>4 DEF Resolve
  <1> QED
    BY <1>5 DEF spec

LEMMA ResolveOnTwoDisks ==
    ASSUME NEW f \in Names, NEW k \in DOMAIN Uses[Normal(f)], NEW D, NEW E,
           Resolve(D, Uses[Normal(f)][k], f) # Resolve(E, Uses[Normal(f)][k], f)
    PROVE  LET before == Resolve(D, Uses[Normal(f)][k], f)
               after == Resolve(E, Uses[Normal(f)][k], f)
           IN  \/ before.kind = "file" /\ Normal(before.path) \in D \ E
               \/ after.kind = "file" /\ Normal(after.path) \in E \ D
  <1> DEFINE spec == Uses[Normal(f)][k]
             search == Search(spec, f)
  <1>1. DOMAIN search \subseteq Nat
    BY SearchOfUse
  <1>2. ~IsBuiltin(spec) /\ ~IsCss(spec)
    BY DEF Resolve
  <1>3. /\ Resolve(D, spec, f) = FirstOn(D, search)
        /\ Resolve(E, spec, f) = FirstOn(E, search)
    BY <1>2 DEF Resolve
  <1> HIDE DEF spec, search
  <1>4. FirstOn(D, search) # FirstOn(E, search)
    BY <1>3 DEF spec
  <1>5. \/ /\ FirstOn(D, search).kind = "file"
           /\ Normal(FirstOn(D, search).path) \in D \ E
        \/ /\ FirstOn(E, search).kind = "file"
           /\ Normal(FirstOn(E, search).path) \in E \ D
    BY <1>1, <1>4, SearchOnTwoDisks
  <1> QED
    BY <1>3, <1>5 DEF spec

-----------------------------------------------------------------------------
(* Types.                                                                   *)

LEMMA ImportedType ==
    ASSUME TypeOK, NEW f \in Names
    PROVE  Resolved(f) \in [DOMAIN Uses[Normal(f)] -> Resolutions]
  <1>1. \A k \in DOMAIN Uses[Normal(f)] :
           Resolve(disk, Uses[Normal(f)][k], f) \in Resolutions
    BY ResolvedType DEF TypeOK
  <1> QED
    BY <1>1 DEF Resolved, Imported

LEMMA DependenciesType ==
    ASSUME NEW r, NEW S, r \in [S -> Resolutions]
    PROVE  Dependencies(r) \in SUBSET Calls
  <1>1. \A q \in Range(r) : q.kind = "file" => q.path \in Names
    BY DEF Range, Resolutions
  <1>2. ASSUME NEW d \in Dependencies(r)
        PROVE  d \in Calls
    <2>1. PICK q \in Range(r) :
             q.kind = "file" /\ d = [file |-> q.path, dependency |-> TRUE]
      BY DEF Dependencies
    <2>2. q.path \in Names
      BY <1>1, <2>1
    <2> QED
      BY <2>1, <2>2 DEF Calls
  <1> QED
    BY <1>2

LEMMA EventOfFile ==
    ASSUME events \in Seq(Events), events # <<>>
    PROVE  /\ Head(events) \in Events /\ Tail(events) \in Seq(Events)
           /\ Len(events) \in Nat \ {0}
           /\ Len(Tail(events)) = Len(events) - 1
           /\ \A i \in 1 .. Len(events) - 1 : Tail(events)[i] = events[i + 1]
           /\ Head(events) = events[1]
  <1>1. /\ Head(events) \in Events /\ Tail(events) \in Seq(Events)
        /\ Len(Tail(events)) = Len(events) - 1
        /\ \A i \in 1 .. Len(Tail(events)) : Tail(events)[i] = events[i + 1]
    BY HeadTailProperties
  <1>2. Len(events) \in Nat \ {0}
    BY EmptySeq
  <1>3. Head(events) = events[1]
    OBVIOUS
  <1> QED
    BY <1>1, <1>2, <1>3

LEMMA TypeStep ==
    ASSUME TypeOK, [Next]_vars
    PROVE  TypeOK'
  <1> USE ResolutionConstants
  <1>1. ASSUME NEW call \in todo, IndexFile(call)
        PROVE  TypeOK'
    <2>1. call.file \in Names
      BY DEF TypeOK, Calls
    <2>2. /\ Resolved(call.file) \in [DOMAIN Uses[Normal(call.file)] -> Resolutions]
          /\ Dependencies(Resolved(call.file)) \in SUBSET Calls
      BY <2>1, ImportedType, DependenciesType
    <2>3. todo' \in SUBSET Calls /\ UNCHANGED <<disk, events, changes>>
      BY <1>1, <2>2 DEF IndexFile, TypeOK
    <2>4. /\ edges' = [f \in DOMAIN edges \cup {call.file} |->
                           IF f = call.file THEN Resolved(f) ELSE edges[f]]
          /\ since' = [f \in DOMAIN edges \cup {call.file} |->
                           IF f = call.file THEN {} ELSE since[f]]
      BY <1>1 DEF IndexFile
    <2> QED
      BY <2>1, <2>2, <2>3, <2>4 DEF TypeOK
  <1>2. ASSUME NEW call \in todo, SkipDependency(call)
        PROVE  TypeOK'
    BY <1>2 DEF SkipDependency, TypeOK
  <1>3. CASE ReceiveChange
    <2>1. Head(events) \in Events /\ Tail(events) \in Seq(Events)
      BY <1>3, EventOfFile DEF ReceiveChange, TypeOK
    <2>2. [file |-> Head(events).file, dependency |-> FALSE] \in Calls
      BY <2>1 DEF Events, Calls
    <2> QED
      BY <1>3, <2>1, <2>2 DEF ReceiveChange, TypeOK
  <1>4. CASE ReceiveDelete
    <2>1. Tail(events) \in Seq(Events)
      BY <1>4, EventOfFile DEF ReceiveDelete, TypeOK
    <2>2. /\ edges' = [f \in DOMAIN edges \ {Head(events).file} |-> edges[f]]
          /\ since' = [f \in DOMAIN edges \ {Head(events).file} |-> since[f]]
      BY <1>4 DEF ReceiveDelete, Restrict
    <2> QED
      BY <1>4, <2>1, <2>2 DEF ReceiveDelete, TypeOK
  <1>5. ASSUME NEW g \in Files, Edit(g)
        PROVE  TypeOK'
    <2>1. [file |-> g, dependency |-> FALSE] \in Calls
      BY DEF Calls
    <2> QED
      BY <1>5, <2>1 DEF Edit, TypeOK
  <1>6. ASSUME NEW g \in Files, Create(g)
        PROVE  TypeOK'
    <2>1. [kind |-> "change", file |-> g] \in Events
      BY DEF Events
    <2>2. events' \in Seq(Events)
      BY <1>6, <2>1 DEF Create, Report, TypeOK
    <2>3. changes' \in 0 .. MaxChanges
      BY <1>6 DEF Create, Report, TypeOK
    <2> QED
      BY <1>6, <2>2, <2>3 DEF Create, TypeOK
  <1>7. ASSUME NEW g \in Files, Delete(g)
        PROVE  TypeOK'
    <2>1. [kind |-> "delete", file |-> g] \in Events
      BY DEF Events
    <2>2. events' \in Seq(Events)
      BY <1>7, <2>1 DEF Delete, Report, TypeOK
    <2>3. changes' \in 0 .. MaxChanges
      BY <1>7 DEF Delete, Report, TypeOK
    <2> QED
      BY <1>7, <2>2, <2>3 DEF Delete, TypeOK
  <1>8. CASE UNCHANGED vars
    BY <1>8 DEF vars, TypeOK
  <1> QED
    BY <1>1, <1>2, <1>3, <1>4, <1>5, <1>6, <1>7, <1>8 DEF Next, Worker

LEMMA TypeInit ==
    ASSUME Init
    PROVE  TypeOK
  BY ResolutionConstants DEF Init, TypeOK

\* The state has its types: what the graph knows a file by is one of its names,
\* and an import that was resolved to a file leads to one (index_file).
THEOREM TypeCorrect == Spec => []TypeOK
  <1>1. Init => TypeOK
    BY TypeInit
  <1>2. TypeOK /\ [Next]_vars => TypeOK'
    BY TypeStep
  <1> QED
    BY <1>1, <1>2, PTL DEF Spec

-----------------------------------------------------------------------------
(* Edges that are out of date.                                              *)

\* An edge is what the import meant on some earlier disk, and what is on the
\* disk beyond that one was created since.
Explained ==
    \A f \in DOMAIN edges : \A k \in DOMAIN edges[f] :
        \E earlier \in SUBSET Files :
            /\ edges[f][k] = Resolve(earlier, Uses[Normal(f)][k], f)
            /\ disk \ earlier \subseteq since[f]

LEMMA ExplainedStep ==
    ASSUME TypeOK, Explained, [Next]_vars
    PROVE  Explained'
  <1>1. ASSUME NEW call \in todo, IndexFile(call)
        PROVE  Explained'
    <2>1. /\ edges' = [f \in DOMAIN edges \cup {call.file} |->
                           IF f = call.file THEN Resolved(f) ELSE edges[f]]
          /\ since' = [f \in DOMAIN edges \cup {call.file} |->
                           IF f = call.file THEN {} ELSE since[f]]
          /\ disk' = disk
      BY <1>1 DEF IndexFile
    <2>2. DOMAIN since = DOMAIN edges /\ disk \in SUBSET Files
      BY DEF TypeOK
    <2> SUFFICES ASSUME NEW f \in DOMAIN edges', NEW k \in DOMAIN edges'[f]
                 PROVE  \E earlier \in SUBSET Files :
                           /\ edges'[f][k] = Resolve(earlier, Uses[Normal(f)][k], f)
                           /\ disk' \ earlier \subseteq since'[f]
      BY DEF Explained
    <2>3. CASE f = call.file
      <3>1. edges'[f] = [n \in DOMAIN Uses[Normal(f)] |->
                            Resolve(disk, Uses[Normal(f)][n], f)]
        BY <2>1, <2>3 DEF Resolved, Imported
      <3>2. edges'[f][k] = Resolve(disk, Uses[Normal(f)][k], f)
        BY <3>1
      <3> QED
        BY <2>1, <2>2, <3>2
    <2>4. CASE f # call.file
      <3>1. f \in DOMAIN edges /\ edges'[f] = edges[f] /\ since'[f] = since[f]
        BY <2>1, <2>2, <2>4
      <3> QED
        BY <2>1, <3>1 DEF Explained
    <2> QED
      BY <2>3, <2>4
  <1>2. ASSUME NEW call \in todo, SkipDependency(call)
        PROVE  Explained'
    BY <1>2 DEF SkipDependency, Explained
  <1>3. CASE ReceiveChange
    BY <1>3 DEF ReceiveChange, Explained
  <1>4. CASE ReceiveDelete
    <2>1. /\ edges' = [f \in DOMAIN edges \ {Head(events).file} |-> edges[f]]
          /\ since' = [f \in DOMAIN edges \ {Head(events).file} |-> since[f]]
          /\ disk' = disk
      BY <1>4 DEF ReceiveDelete, Restrict
    <2> QED
      BY <2>1 DEF Explained
  <1>5. ASSUME NEW g \in Files, Edit(g)
        PROVE  Explained'
    BY <1>5 DEF Edit, Explained
  <1>6. ASSUME NEW g \in Files, Create(g)
        PROVE  Explained'
    <2>1. /\ disk' = disk \cup {g} /\ edges' = edges
          /\ \A f \in DOMAIN edges : since'[f] = since[f] \cup {g}
      BY <1>6 DEF Create, TypeOK
    <2> QED
      BY <2>1 DEF Explained
  <1>7. ASSUME NEW g \in Files, Delete(g)
        PROVE  Explained'
    <2>1. disk' = disk \ {g} /\ edges' = edges /\ since' = since
      BY <1>7 DEF Delete
    <2> QED
      BY <2>1 DEF Explained
  <1>8. CASE UNCHANGED vars
    BY <1>8 DEF vars, Explained
  <1> QED
    BY <1>1, <1>2, <1>3, <1>4, <1>5, <1>6, <1>7, <1>8 DEF Next, Worker

LEMMA ExplainedMeansKnown ==
    ASSUME TypeOK, Explained
    PROVE  StaleOnlyByCreation
  <1> SUFFICES ASSUME NEW f \in DOMAIN edges, NEW k \in DOMAIN edges[f],
                      Resolve(disk, Uses[Normal(f)][k], f) # edges[f][k]
               PROVE  \/ /\ edges[f][k].kind = "file"
                         /\ Normal(edges[f][k].path) \notin disk
                      \/ /\ Resolve(disk, Uses[Normal(f)][k], f).kind = "file"
                         /\ Normal(Resolve(disk, Uses[Normal(f)][k], f).path) \in since[f]
    BY DEF StaleOnlyByCreation
  <1>1. f \in Names /\ k \in DOMAIN Uses[Normal(f)]
    BY DEF TypeOK
  <1>2. PICK earlier \in SUBSET Files :
           /\ edges[f][k] = Resolve(earlier, Uses[Normal(f)][k], f)
           /\ disk \ earlier \subseteq since[f]
    BY DEF Explained
  <1> QED
    BY <1>1, <1>2, ResolveOnTwoDisks

\* Whatever files there are and whatever they import: an edge that index_file
\* stored and that is no longer what the resolver would say has lost its file,
\* or a file created since has taken its place.
THEOREM StaleEdgesKnown == Spec => []StaleOnlyByCreation
  <1>1. Init => TypeOK /\ Explained
    BY TypeInit DEF Init, Explained
  <1>2. TypeOK /\ Explained /\ [Next]_vars => (TypeOK /\ Explained)'
    BY TypeStep, ExplainedStep
  <1>3. TypeOK /\ Explained => StaleOnlyByCreation
    BY ExplainedMeansKnown
  <1> QED
    BY <1>1, <1>2, <1>3, PTL DEF Spec

\* Creating or deleting a file changes what an import means only if the import
\* meant that file, or does from now on (resolve in resolver.rs).
THEOREM OneFileMattersAlways == Spec => OneFileMatters
  <1>1. OnlyItsOwn
    <2>1. \A f \in Files : f \in Names /\ Normal(f) = f
      BY ResolutionConstants
    <2> QED
      BY <2>1, ResolveOnTwoDisks DEF OnlyItsOwn
  <1>2. [Next]_vars => [OnlyItsOwn]_disk
    BY <1>1
  <1> QED
    BY <1>2, PTL DEF Spec, OneFileMatters

-----------------------------------------------------------------------------
(* Edges whose files are there.                                             *)

\* A report that a file is gone, when it is not, is followed by one that it is
\* back.
BackIsReported ==
    \A i \in 1 .. Len(events) :
        events[i].kind = "delete" /\ events[i].file \in disk =>
            \E j \in i + 1 .. Len(events) :
                events[j].kind = "change" /\ events[j].file = events[i].file

\* A file that is not in the graph will be: it is reported, or called for.
OnItsWay(g) ==
    \/ g \in DOMAIN edges
    \/ \E i \in 1 .. Len(events) : events[i].kind = "change" /\ events[i].file = g
    \/ \E call \in todo : call.file = g

Awaited ==
    \A f \in DOMAIN edges : \A k \in DOMAIN edges[f] :
        edges[f][k].kind = "file" /\ edges[f][k].path \in disk
          => OnItsWay(edges[f][k].path)

LEMMA BackIsReportedStep ==
    ASSUME TypeOK, BackIsReported, [Next]_vars
    PROVE  BackIsReported'
  <1>0. events \in Seq(Events) /\ Len(events) \in Nat
    BY DEF TypeOK
  <1>1. CASE disk' = disk /\ events' = events
    BY <1>1 DEF BackIsReported
  <1>2. CASE disk' = disk /\ events # <<>> /\ events' = Tail(events)
    <2>1. /\ Len(events') = Len(events) - 1 /\ Len(events) \in Nat \ {0}
          /\ \A i \in 1 .. Len(events) - 1 : events'[i] = events[i + 1]
      BY <1>0, <1>2, EventOfFile
    <2> SUFFICES ASSUME NEW i \in 1 .. Len(events'), events'[i].kind = "delete",
                        events'[i].file \in disk'
                 PROVE  \E j \in i + 1 .. Len(events') :
                           events'[j].kind = "change" /\ events'[j].file = events'[i].file
      BY DEF BackIsReported
    <2>2. i + 1 \in 1 .. Len(events) /\ events'[i] = events[i + 1]
      BY <2>1
    <2>3. PICK j \in i + 1 + 1 .. Len(events) :
             events[j].kind = "change" /\ events[j].file = events[i + 1].file
      BY <1>2, <2>2 DEF BackIsReported
    <2>4. j - 1 \in i + 1 .. Len(events') /\ events'[j - 1] = events[j]
      BY <2>1, <2>3
    <2> QED
      BY <2>2, <2>3, <2>4
  <1>3. ASSUME NEW g \in Files, Create(g)
        PROVE  BackIsReported'
    <2>1. /\ Len(events') = Len(events) + 1
          /\ \A i \in 1 .. Len(events) : events'[i] = events[i]
          /\ events'[Len(events) + 1] = [kind |-> "change", file |-> g]
          /\ disk' = disk \cup {g}
      BY <1>0, <1>3 DEF Create, Report
    <2> SUFFICES ASSUME NEW i \in 1 .. Len(events'), events'[i].kind = "delete",
                        events'[i].file \in disk'
                 PROVE  \E j \in i + 1 .. Len(events') :
                           events'[j].kind = "change" /\ events'[j].file = events'[i].file
      BY DEF BackIsReported
    <2>2. i \in 1 .. Len(events) /\ events'[i] = events[i]
      BY <1>0, <2>1
    <2>3. CASE events[i].file = g
      <3>1. Len(events) + 1 \in i + 1 .. Len(events')
        BY <1>0, <2>1, <2>2
      <3> QED
        BY <2>1, <2>2, <2>3, <3>1
    <2>4. CASE events[i].file # g
      <3>1. PICK j \in i + 1 .. Len(events) :
               events[j].kind = "change" /\ events[j].file = events[i].file
        BY <2>1, <2>2, <2>4 DEF BackIsReported
      <3>2. j \in i + 1 .. Len(events') /\ j \in 1 .. Len(events)
        BY <1>0, <2>1, <2>2
      <3> QED
        BY <2>1, <2>2, <3>1, <3>2
    <2> QED
      BY <2>3, <2>4
  <1>4. ASSUME NEW g \in Files, Delete(g)
        PROVE  BackIsReported'
    <2>1. /\ Len(events') = Len(events) + 1
          /\ \A i \in 1 .. Len(events) : events'[i] = events[i]
          /\ events'[Len(events) + 1] = [kind |-> "delete", file |-> g]
          /\ disk' = disk \ {g}
      BY <1>0, <1>4 DEF Delete, Report
    <2> SUFFICES ASSUME NEW i \in 1 .. Len(events'), events'[i].kind = "delete",
                        events'[i].file \in disk'
                 PROVE  \E j \in i + 1 .. Len(events') :
                           events'[j].kind = "change" /\ events'[j].file = events'[i].file
      BY DEF BackIsReported
    <2>2. i \in 1 .. Len(events) /\ events'[i] = events[i]
      BY <1>0, <2>1
    <2>3. PICK j \in i + 1 .. Len(events) :
             events[j].kind = "change" /\ events[j].file = events[i].file
      BY <2>1, <2>2 DEF BackIsReported
    <2>4. j \in i + 1 .. Len(events') /\ j \in 1 .. Len(events)
      BY <1>0, <2>1, <2>2
    <2> QED
      BY <2>1, <2>2, <2>3, <2>4
  <1> QED
    BY <1>1, <1>2, <1>3, <1>4 DEF Next, Worker, IndexFile, SkipDependency, Edit,
       ReceiveChange, ReceiveDelete, vars

\* Only the worker takes a file off its way, and only when it is not there.
LEMMA StaysOnItsWay ==
    ASSUME TypeOK, BackIsReported, [Next]_vars, NEW g \in disk, OnItsWay(g), g \in disk'
    PROVE  OnItsWay(g)'
  <1>0. events \in Seq(Events) /\ Len(events) \in Nat
    BY DEF TypeOK
  <1>1. g \in Files /\ Normal(g) = g
    BY ResolutionConstants DEF TypeOK
  <1>2. ASSUME NEW call \in todo, IndexFile(call)
        PROVE  OnItsWay(g)'
    BY <1>2 DEF IndexFile, OnItsWay
  <1>3. ASSUME NEW call \in todo, SkipDependency(call)
        PROVE  OnItsWay(g)'
    BY <1>1, <1>3 DEF SkipDependency, Wanted, OnItsWay
  <1>4. ASSUME events # <<>>, events' = Tail(events),
               events[1].kind # "change" \/ events[1].file # g,
               \E i \in 1 .. Len(events) :
                  events[i].kind = "change" /\ events[i].file = g
        PROVE  OnItsWay(g)'
    <2>1. /\ Len(events') = Len(events) - 1 /\ Len(events) \in Nat \ {0}
          /\ \A i \in 1 .. Len(events) - 1 : events'[i] = events[i + 1]
      BY <1>0, <1>4, EventOfFile
    <2>2. PICK i \in 1 .. Len(events) : events[i].kind = "change" /\ events[i].file = g
      BY <1>4
    <2>3. i - 1 \in 1 .. Len(events') /\ events'[i - 1] = events[i]
      BY <1>4, <2>1, <2>2
    <2> QED
      BY <2>2, <2>3 DEF OnItsWay
  <1>5. CASE ReceiveChange
    <2>1. Head(events) = events[1]
      BY <1>0, <1>5, EventOfFile DEF ReceiveChange
    <2>2. CASE events[1].file = g
      BY <1>5, <2>1, <2>2 DEF ReceiveChange, OnItsWay
    <2>3. CASE events[1].file # g
      BY <1>4, <1>5, <2>3 DEF ReceiveChange, OnItsWay
    <2> QED
      BY <2>2, <2>3
  <1>6. CASE ReceiveDelete
    <2>1. /\ Head(events) = events[1] /\ Len(events) \in Nat \ {0}
          /\ events # <<>> /\ events' = Tail(events) /\ events[1].kind = "delete"
          /\ todo = {}
      BY <1>0, <1>6, EventOfFile DEF ReceiveDelete
    <2>2. CASE events[1].file = g
      <3>1. 1 \in 1 .. Len(events)
        BY <2>1
      <3>2. PICK j \in 1 + 1 .. Len(events) :
               events[j].kind = "change" /\ events[j].file = g
        BY <2>1, <2>2, <3>1 DEF BackIsReported
      <3>3. j \in 1 .. Len(events)
        BY <2>1, <3>2
      <3> QED
        BY <1>4, <2>1, <3>2, <3>3
    <2>3. CASE events[1].file # g
      <3>1. DOMAIN edges' = DOMAIN edges \ {events[1].file}
        BY <1>6, <2>1 DEF ReceiveDelete, Restrict
      <3>2. CASE g \in DOMAIN edges
        BY <2>3, <3>1, <3>2 DEF OnItsWay
      <3>3. CASE g \notin DOMAIN edges
        BY <1>4, <2>1, <2>3, <3>3 DEF OnItsWay
      <3> QED
        BY <3>2, <3>3
    <2> QED
      BY <2>2, <2>3
  <1>7. ASSUME NEW h \in Files, Edit(h)
        PROVE  OnItsWay(g)'
    BY <1>7 DEF Edit, OnItsWay
  <1>8. ASSUME NEW h \in Files, Create(h) \/ Delete(h)
        PROVE  OnItsWay(g)'
    <2>1. /\ Len(events') = Len(events) + 1
          /\ \A i \in 1 .. Len(events) : events'[i] = events[i]
          /\ edges' = edges /\ todo' = todo
      BY <1>0, <1>8 DEF Create, Delete, Report
    <2>2. \A i \in 1 .. Len(events) : i \in 1 .. Len(events')
      BY <1>0, <2>1
    <2> QED
      BY <2>1, <2>2 DEF OnItsWay
  <1>9. CASE UNCHANGED vars
    BY <1>9 DEF vars, OnItsWay
  <1> QED
    BY <1>2, <1>3, <1>5, <1>6, <1>7, <1>8, <1>9 DEF Next, Worker

\* A file that comes back is reported.
LEMMA ComesBack ==
    ASSUME TypeOK, [Next]_vars, NEW g \in disk', g \notin disk
    PROVE  OnItsWay(g)'
  <1>1. PICK h \in Files : Create(h)
    BY DEF Next, Worker, IndexFile, SkipDependency, ReceiveChange, ReceiveDelete,
       Edit, Delete, vars
  <1>2. h = g
    BY <1>1 DEF Create
  <1>3. /\ Len(events') = Len(events) + 1 /\ Len(events) \in Nat
        /\ events'[Len(events) + 1] = [kind |-> "change", file |-> g]
    BY <1>1, <1>2 DEF Create, Report, TypeOK
  <1>4. Len(events) + 1 \in 1 .. Len(events')
    BY <1>3
  <1> QED
    BY <1>3, <1>4 DEF OnItsWay

LEMMA AwaitedStep ==
    ASSUME TypeOK, BackIsReported, Awaited, [Next]_vars
    PROVE  Awaited'
  <1> SUFFICES ASSUME NEW f \in DOMAIN edges', NEW k \in DOMAIN edges'[f],
                      NEW g \in disk', g = edges'[f][k].path, edges'[f][k].kind = "file"
               PROVE  OnItsWay(g)'
    BY DEF Awaited, OnItsWay
  <1>1. CASE f \in DOMAIN edges /\ edges'[f] = edges[f]
    <2>1. CASE g \in disk
      <3>1. OnItsWay(g)
        BY <1>1, <2>1 DEF Awaited
      <3> QED
        BY <2>1, <3>1, StaysOnItsWay
    <2>2. CASE g \notin disk
      BY <2>2, ComesBack
    <2> QED
      BY <2>1, <2>2
  <1>2. CASE ~(f \in DOMAIN edges /\ edges'[f] = edges[f])
    <2>1. PICK call \in todo : IndexFile(call)
      BY <1>2 DEF Next, Worker, SkipDependency, ReceiveChange, ReceiveDelete,
         Restrict, Edit, Create, Delete, vars
    <2>2. f = call.file /\ edges'[f] = Resolved(f)
      BY <1>2, <2>1 DEF IndexFile
    <2>3. edges'[f][k] \in Range(Resolved(f))
      BY <2>2 DEF Range
    <2>4. [file |-> g, dependency |-> TRUE] \in Dependencies(Resolved(f))
      BY <2>3 DEF Dependencies
    <2>5. [file |-> g, dependency |-> TRUE] \in todo'
      BY <2>1, <2>2, <2>4 DEF IndexFile
    <2> QED
      BY <2>5 DEF OnItsWay
  <1> QED
    BY <1>1, <1>2

LEMMA AwaitedMeansLands ==
    ASSUME Awaited
    PROVE  QuietEdgesLand
  <1> SUFFICES ASSUME Quiet, NEW f \in DOMAIN edges, NEW k \in DOMAIN edges[f],
                      edges[f][k].kind = "file", edges[f][k].path \in disk
               PROVE  edges[f][k].path \in DOMAIN edges
    BY DEF QuietEdgesLand
  <1>1. OnItsWay(edges[f][k].path)
    BY DEF Awaited
  <1>2. Len(events) = 0 /\ todo = {}
    BY DEF Quiet
  <1> QED
    BY <1>1, <1>2 DEF OnItsWay

\* With nothing under way every edge whose file is on the disk leads into the
\* graph, in whatever order files come, go and are read (index_dependency,
\* Task::ExternalChange, Task::ExternalDelete).
THEOREM EdgesLand == Spec => []QuietEdgesLand
  <1> DEFINE Inv == TypeOK /\ BackIsReported /\ Awaited
  <1>1. Init => Inv
    BY TypeInit DEF Init, BackIsReported, Awaited
  <1>2. Inv /\ [Next]_vars => Inv'
    BY TypeStep, BackIsReportedStep, AwaitedStep
  <1>3. Inv => QuietEdgesLand
    BY AwaitedMeansLands
  <1> QED
    BY <1>1, <1>2, <1>3, PTL DEF Spec
=============================================================================
