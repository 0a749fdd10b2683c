------------------------- MODULE ModuleCacheProofs -------------------------
(***************************************************************************)
(* Theorems about ModuleCache, for any sets of files, contents and handler *)
(* threads and any cache limits.                                           *)
(***************************************************************************)
EXTENDS ModuleCache, SequenceTheorems, FiniteSetTheorems, WellFoundedInduction,
        TLAPS

-----------------------------------------------------------------------------
(* The sequence operators the LRU lists are built from.                    *)

\* A non-empty set of naturals has the minimum that Min chooses.
LEMMA MinOfNaturals ==
    ASSUME NEW I, I \subseteq Nat, I # {}
    PROVE  Min(I) \in I
<1> DEFINE R == {ss \in Nat \X Nat : ss[1] < ss[2]}
<1>0. IsWellFoundedOn(R, Nat)
  BY NatLessThanWellFounded, Zenon DEF OpToRel
<1>1. PICK m \in I : \A n \in I : ~ (<<n, m>> \in R)
  <2> HIDE DEF R
  <2> QED BY <1>0, WFMin
<1>2. ASSUME NEW n \in I PROVE m =< n
  <2>1. n \in Nat /\ m \in Nat /\ ~ (<<n, m>> \in R)
    BY <1>1
  <2>2. <<n, m>> \in Nat \X Nat
    BY <2>1
  <2>3. ~ (<<n, m>>[1] < <<n, m>>[2])
    BY <2>1, <2>2, Zenon
  <2>4. QED
    BY <2>1, <2>3
<1>3. QED
  BY <1>2 DEF Min

\* RemoveFirst drops one position that holds e, or nothing.
LEMMA RemoveFirstCases ==
    ASSUME NEW S, NEW s \in Seq(S), NEW e
    PROVE  \/ /\ RemoveFirst(s, e) = s
              /\ \A i \in 1 .. Len(s) : s[i] # e
           \/ \E k \in 1 .. Len(s) :
                 /\ s[k] = e
                 /\ RemoveFirst(s, e) \in Seq(S)
                 /\ Len(RemoveFirst(s, e)) = Len(s) - 1
                 /\ \A i \in 1 .. Len(s) - 1 :
                       RemoveFirst(s, e)[i] = IF i < k THEN s[i] ELSE s[i + 1]
<1>1. CASE \A i \in 1 .. Len(s) : s[i] # e
  BY <1>1 DEF RemoveFirst
<1>2. CASE \E i \in 1 .. Len(s) : s[i] = e
  <2> DEFINE I == {i \in 1 .. Len(s) : s[i] = e}
             k == SelectInSeq(s, LAMBDA v : v = e)
             p == SubSeq(s, 1, k - 1)
             q == SubSeq(s, k + 1, Len(s))
  <2>1. k = Min(I) /\ I # {}
    BY <1>2 DEF SelectInSeq
  <2>2. k \in I
    <3>1. I \subseteq Nat
      OBVIOUS
    <3>2. QED
      BY <2>1, <3>1, MinOfNaturals
  <2>3. RemoveFirst(s, e) = p \o q
    BY <1>2 DEF RemoveFirst, RemoveAt
  <2> HIDE DEF k
  <2>4. k \in 1 .. Len(s) /\ s[k] = e /\ Len(s) \in Nat
    BY <2>2
  <2>5. /\ p \in Seq(S) /\ Len(p) = k - 1
        /\ \A i \in 1 .. k - 1 : p[i] = s[i]
    BY <2>4, SubSeqProperties
  <2>6. /\ q \in Seq(S) /\ Len(q) = Len(s) - k
        /\ \A i \in 1 .. Len(s) - k : q[i] = s[k + i]
    BY <2>4, SubSeqProperties
  <2>7. /\ p \o q \in Seq(S) /\ Len(p \o q) = Len(s) - 1
        /\ \A i \in 1 .. Len(s) - 1 :
              (p \o q)[i] = IF i < k THEN s[i] ELSE s[i + 1]
    <3> HIDE DEF p, q
    <3>1. /\ p \o q \in Seq(S) /\ Len(p \o q) = Len(p) + Len(q)
          /\ \A i \in 1 .. Len(p) + Len(q) :
                (p \o q)[i] = IF i <= Len(p) THEN p[i] ELSE q[i - Len(p)]
      BY <2>5, <2>6, ConcatProperties
    <3>2. Len(p) + Len(q) = Len(s) - 1
      BY <2>4, <2>5, <2>6
    <3>3. ASSUME NEW i \in 1 .. Len(s) - 1
          PROVE  (p \o q)[i] = IF i < k THEN s[i] ELSE s[i + 1]
      <4>1. CASE i < k
        BY <2>4, <2>5, <3>1, <3>2, <4>1
      <4>2. CASE ~ (i < k)
        <5>1. (p \o q)[i] = q[i - (k - 1)] /\ i - (k - 1) \in 1 .. Len(s) - k
          BY <2>4, <2>5, <3>1, <3>2, <4>2
        <5>2. q[i - (k - 1)] = s[k + (i - (k - 1))] /\ k + (i - (k - 1)) = i + 1
          BY <2>4, <2>6, <5>1
        <5>3. QED
          BY <4>2, <5>1, <5>2
      <4>3. QED
        BY <4>1, <4>2
    <3>4. QED
      BY <3>1, <3>2, <3>3
  <2>8. QED
    BY <2>3, <2>4, <2>7
<1>3. QED
  BY <1>1, <1>2

\* The elements of a sequence, by index.
LEMMA ToSetByIndex ==
    ASSUME NEW S, NEW s \in Seq(S)
    PROVE  ToSet(s) = {s[i] : i \in 1 .. Len(s)}
BY DEF ToSet

\* RemoveFirst returns a sequence that has lost no element but e.
LEMMA RemoveFirstFacts ==
    ASSUME NEW S, NEW s \in Seq(S), NEW e
    PROVE  /\ RemoveFirst(s, e) \in Seq(S)
           /\ ToSet(s) \ {e} \subseteq ToSet(RemoveFirst(s, e))
<1>1. CASE RemoveFirst(s, e) = s
  BY <1>1
<1>2. ASSUME NEW k \in 1 .. Len(s),
             s[k] = e,
             RemoveFirst(s, e) \in Seq(S),
             Len(RemoveFirst(s, e)) = Len(s) - 1,
             \A i \in 1 .. Len(s) - 1 :
                RemoveFirst(s, e)[i] = IF i < k THEN s[i] ELSE s[i + 1]
      PROVE  ToSet(s) \ {e} \subseteq ToSet(RemoveFirst(s, e))
  <2> DEFINE r == RemoveFirst(s, e)
  <2> HIDE DEF r
  <2>1. SUFFICES ASSUME NEW i \in 1 .. Len(s), s[i] # e
                 PROVE  \E j \in 1 .. Len(r) : r[j] = s[i]
    BY DEF ToSet, r
  <2>2. CASE i < k
    <3>1. i \in 1 .. Len(s) - 1 /\ r[i] = s[i] /\ i \in 1 .. Len(r)
      BY <1>2, <2>2 DEF r
    <3>2. QED
      BY <3>1
  <2>3. CASE i > k
    <3>1. i - 1 \in 1 .. Len(s) - 1 /\ ~ (i - 1 < k) /\ (i - 1) + 1 = i
      BY <1>2, <2>3
    <3>2. r[i - 1] = s[(i - 1) + 1] /\ i - 1 \in 1 .. Len(r)
      BY <1>2, <3>1 DEF r
    <3>3. QED
      BY <3>1, <3>2
  <2>4. QED
    BY <1>2, <2>1, <2>2, <2>3
<1>3. QED
  BY <1>1, <1>2, RemoveFirstCases

\* A touch puts the uri into the list and drops no other.
LEMMA TouchedFacts ==
    ASSUME NEW S, NEW s \in Seq(S), NEW u \in S
    PROVE  /\ Touched(s, u) \in Seq(S)
           /\ ToSet(s) \cup {u} \subseteq ToSet(Touched(s, u))
<1> DEFINE r == RemoveFirst(s, u)
<1>1. r \in Seq(S) /\ ToSet(s) \ {u} \subseteq ToSet(r)
  BY RemoveFirstFacts
<1>2. Touched(s, u) = <<u>> \o r
  BY DEF Touched, Cons
<1> HIDE DEF r
<1>3. /\ <<u>> \in Seq(S) /\ <<u>> \o r \in Seq(S)
      /\ Len(<<u>> \o r) = 1 + Len(r)
      /\ \A i \in 1 .. 1 + Len(r) :
            (<<u>> \o r)[i] = IF i <= 1 THEN u ELSE r[i - 1]
  BY <1>1, ConcatProperties
<1>4. (<<u>> \o r)[1] = u /\ 1 \in 1 .. Len(<<u>> \o r)
  BY <1>1, <1>3
<1>5. ASSUME NEW i \in 1 .. Len(r)
      PROVE  i + 1 \in 1 .. Len(<<u>> \o r) /\ (<<u>> \o r)[i + 1] = r[i]
  BY <1>1, <1>3
<1>6. /\ ToSet(<<u>> \o r) = {(<<u>> \o r)[i] : i \in 1 .. Len(<<u>> \o r)}
      /\ ToSet(r) = {r[i] : i \in 1 .. Len(r)}
  BY <1>1, <1>3, ToSetByIndex
<1>7. u \in ToSet(<<u>> \o r) /\ ToSet(r) \subseteq ToSet(<<u>> \o r)
  <2> DEFINE c == <<u>> \o r
  <2> HIDE DEF c
  <2> QED BY <1>4, <1>5, <1>6 DEF c
<1>8. QED
  BY <1>1, <1>2, <1>3, <1>7

\* What pop_back takes off a list and what it leaves.
LEMMA FrontLastFacts ==
    ASSUME NEW S, NEW s \in Seq(S), Len(s) > 0
    PROVE  /\ Last(s) \in S
           /\ Front(s) \in Seq(S)
           /\ Len(Front(s)) = Len(s) - 1
           /\ \A i \in 1 .. Len(s) - 1 : Front(s)[i] = s[i]
           /\ ToSet(s) \subseteq ToSet(Front(s)) \cup {Last(s)}
<1>1. Len(s) \in Nat /\ \A i \in 1 .. Len(s) : s[i] \in S
  OBVIOUS
<1>2. /\ Front(s) \in Seq(S) /\ Len(Front(s)) = Len(s) - 1
      /\ \A i \in 1 .. Len(s) - 1 : Front(s)[i] = s[i]
  <2>1. \A i \in 1 .. Len(s) - 1 : i \in 1 .. Len(s)
    BY <1>1
  <2>2. Len(s) - 1 \in Int /\ 1 <= Len(s)
    BY <1>1
  <2> DEFINE f == SubSeq(s, 1, Len(s) - 1)
  <2>3. /\ f \in Seq(S)
        /\ Len(f) = IF 1 <= Len(s) - 1 THEN Len(s) - 1 - 1 + 1 ELSE 0
        /\ \A i \in 1 .. Len(s) - 1 - 1 + 1 : f[i] = s[1 + i - 1]
    <3> HIDE DEF f
    <3> QED BY <1>1, <2>1, <2>2, SubSeqProperties DEF f
  <2>4. Front(s) = f
    BY DEF Front
  <2> HIDE DEF f
  <2>5. QED
    BY <1>1, <2>2, <2>3, <2>4
<1>3. ToSet(s) \subseteq ToSet(Front(s)) \cup {Last(s)}
  <2>1. ASSUME NEW i \in 1 .. Len(s), i # Len(s)
        PROVE  i \in 1 .. Len(Front(s)) /\ Front(s)[i] = s[i]
    BY <1>1, <1>2, <2>1
  <2>2. QED
    BY <2>1 DEF ToSet, Last
<1>4. QED
  BY <1>1, <1>2, <1>3 DEF Last

\* Appending keeps every element.
LEMMA AppendFacts ==
    ASSUME NEW S, NEW s \in Seq(S), NEW e \in S
    PROVE  /\ Append(s, e) \in Seq(S)
           /\ ToSet(s) \cup {e} \subseteq ToSet(Append(s, e))
<1>1. /\ Append(s, e) \in Seq(S) /\ Len(Append(s, e)) = Len(s) + 1
      /\ Append(s, e)[Len(s) + 1] = e
      /\ \A i \in 1 .. Len(s) : Append(s, e)[i] = s[i]
  BY AppendProperties
<1>2. Len(s) \in Nat
  OBVIOUS
<1>3. e \in ToSet(Append(s, e))
  BY <1>1, <1>2 DEF ToSet
<1>4. \A i \in 1 .. Len(s) : i \in 1 .. Len(Append(s, e))
  BY <1>1, <1>2
<1>5. QED
  BY <1>1, <1>3, <1>4 DEF ToSet

\* Concatenating two lists keeps the elements of both.
LEMMA ConcatFacts ==
    ASSUME NEW S, NEW s \in Seq(S), NEW z \in Seq(S)
    PROVE  /\ s \o z \in Seq(S)
           /\ ToSet(s) \cup ToSet(z) \subseteq ToSet(s \o z)
<1>1. /\ s \o z \in Seq(S) /\ Len(s \o z) = Len(s) + Len(z)
      /\ \A i \in 1 .. Len(s) + Len(z) :
            (s \o z)[i] = IF i <= Len(s) THEN s[i] ELSE z[i - Len(s)]
  BY ConcatProperties
<1>2. Len(s) \in Nat /\ Len(z) \in Nat
  OBVIOUS
<1>3. ASSUME NEW i \in 1 .. Len(s)
      PROVE  i \in 1 .. Len(s \o z) /\ (s \o z)[i] = s[i]
  BY <1>1, <1>2
<1>4. ASSUME NEW i \in 1 .. Len(z)
      PROVE  i + Len(s) \in 1 .. Len(s \o z) /\ (s \o z)[i + Len(s)] = z[i]
  BY <1>1, <1>2
<1>5. /\ ToSet(s \o z) = {(s \o z)[i] : i \in 1 .. Len(s \o z)}
      /\ ToSet(s) = {s[i] : i \in 1 .. Len(s)}
      /\ ToSet(z) = {z[i] : i \in 1 .. Len(z)}
  BY <1>1, ToSetByIndex
<1>6. QED
  <2> DEFINE c == s \o z
  <2> HIDE DEF c
  <2> QED BY <1>1, <1>3, <1>4, <1>5 DEF c

-----------------------------------------------------------------------------
(* Type correctness.                                                       *)

\* Replacing one cached part of an entry leaves the other parts alone.
LEMMA EntryUpdate ==
    ASSUME NEW info \in ModuleInfo, NEW g \in Tree \cup {None},
           NEW s \in Text \cup {None}
    PROVE  /\ WithGreen(info, g) \in ModuleInfo
           /\ WithGreen(info, g).green = g
           /\ WithGreen(info, g).symbols = info.symbols
           /\ WithGreen(info, g).source_text = info.source_text
           /\ WithSource(info, s) \in ModuleInfo
           /\ WithSource(info, s).source_text = s
           /\ WithSource(info, s).symbols = info.symbols
           /\ WithSource(info, s).green = info.green
BY DEF ModuleInfo, WithGreen, WithSource

\* A location with one more part is a location.
LEMMA LocationUpdate ==
    ASSUME NEW loc \in Location, NEW x \in Text \cup {None}
    PROVE  /\ AtLineIndex(loc, x) \in Location
           /\ AtSource(loc, x) \in Location
BY DEF Location, AtLineIndex, AtSource

\* The fields of an entry and of a tree.
LEMMA EntryFields ==
    /\ \A info \in ModuleInfo :
          /\ info.symbols \in Text
          /\ info.green \in Tree \cup {None}
          /\ info.source_text \in Text \cup {None}
    /\ \A g \in Tree : g.text \in Text
BY DEF ModuleInfo, Tree

\* Every variable keeps its type: the LRU lists stay lists of uris, entries
\* stay well formed, and the program counters name steps of the code.
THEOREM TypeCorrect == Spec => [](TypeOK /\ CallOK)
<1> USE CacheConstants, NoneIsNoValue
<1>1. Init => TypeOK /\ CallOK
  BY DEF Init, TypeOK, CallOK, Thread, Step, Location, NoLocation
<1>2. TypeOK /\ CallOK /\ [Next]_vars => TypeOK'
  <2> SUFFICES ASSUME TypeOK, CallOK, [Next]_vars PROVE TypeOK'
    OBVIOUS
  <2> USE DEF TypeOK, Step, Goto
  <2>1. ASSUME NEW t \in Thread, TouchTree(t) PROVE TypeOK'
    <3>1. tree_lru' \in Seq(Uri)
      BY <2>1, TouchedFacts DEF TouchTree
    <3>2. QED
      BY <2>1, <3>1 DEF TouchTree
  <2>2. ASSUME NEW t \in Thread, TouchSource(t) PROVE TypeOK'
    <3>1. source_lru' \in Seq(Uri)
      BY <2>2, TouchedFacts DEF TouchSource
    <3>2. QED
      BY <2>2, <3>1 DEF TouchSource
  <2>3. ASSUME NEW t \in Thread, EvictTree(t) PROVE TypeOK'
    <3> DEFINE u == Last(tree_lru)
    <3>1. u \in Uri /\ tree_lru' \in Seq(Uri)
      BY <2>3, FrontLastFacts DEF EvictTree, Over, Reparsable
    <3>2. Append(kept[t], u) \in Seq(Uri)
      BY <3>1, AppendFacts
    <3>3. files' \in [Uri -> ModuleInfo \cup {None}]
      <4>1. CASE files' = files
        BY <4>1
      <4>2. CASE files' # files
        <5>1. /\ files[u] \in ModuleInfo
              /\ files' = [files EXCEPT ![u] = WithGreen(files[u], None)]
          BY <2>3, <3>1, <4>2 DEF EvictTree, Over, Reparsable
        <5>2. WithGreen(files[u], None) \in ModuleInfo
          BY <5>1, EntryUpdate
        <5>3. QED
          BY <3>1, <5>1, <5>2
      <4>3. QED
        BY <4>1, <4>2
    <3> HIDE DEF u
    <3>4. kept' \in [Thread -> Seq(Uri)]
      BY <2>3, <3>2 DEF EvictTree, Over, Reparsable, u
    <3>5. QED
      BY <2>3, <3>1, <3>3, <3>4 DEF EvictTree, Over, Reparsable
  <2>4. ASSUME NEW t \in Thread, EvictTreesDone(t) PROVE TypeOK'
    <3>1. tree_lru' \in Seq(Uri) /\ <<>> \in Seq(Uri)
      BY <2>4, ConcatFacts DEF EvictTreesDone
    <3>2. QED
      BY <2>4, <3>1 DEF EvictTreesDone
  <2>5. ASSUME NEW t \in Thread, EvictSource(t) PROVE TypeOK'
    <3> DEFINE u == Last(source_lru)
    <3>1. u \in Uri /\ source_lru' \in Seq(Uri)
      BY <2>5, FrontLastFacts DEF EvictSource, Over, Rebuildable
    <3>2. Append(kept[t], u) \in Seq(Uri)
      BY <3>1, AppendFacts
    <3>3. files' \in [Uri -> ModuleInfo \cup {None}]
      <4>1. CASE files' = files
        BY <4>1
      <4>2. CASE files' # files
        <5>1. /\ files[u] \in ModuleInfo
              /\ files' = [files EXCEPT ![u] = WithSource(files[u], None)]
          BY <2>5, <3>1, <4>2 DEF EvictSource, Over, Rebuildable
        <5>2. WithSource(files[u], None) \in ModuleInfo
          BY <5>1, EntryUpdate
        <5>3. QED
          BY <3>1, <5>1, <5>2
      <4>3. QED
        BY <4>1, <4>2
    <3> HIDE DEF u
    <3>4. kept' \in [Thread -> Seq(Uri)]
      BY <2>5, <3>2 DEF EvictSource, Over, Rebuildable, u
    <3>5. QED
      BY <2>5, <3>1, <3>3, <3>4 DEF EvictSource, Over, Rebuildable
  <2>6. ASSUME NEW t \in Thread, EvictSourcesDone(t) PROVE TypeOK'
    <3>1. source_lru' \in Seq(Uri) /\ <<>> \in Seq(Uri)
      BY <2>6, ConcatFacts DEF EvictSourcesDone
    <3>2. QED
      BY <2>6, <3>1 DEF EvictSourcesDone
  <2>7. ASSUME NEW t \in Thread, NEW u \in Uri, NEW text \in Text,
               IndexFile(t, u, text)
        PROVE  TypeOK'
    BY <2>7 DEF IndexFile, NewEntry, ModuleInfo, Tree, ParserOf
  <2>8. ASSUME NEW t \in Thread, NEW u \in Uri, RemoveFile(t, u) PROVE TypeOK'
    BY <2>8 DEF RemoveFile
  <2>9. ASSUME NEW t \in Thread, ForgetTree(t) PROVE TypeOK'
    <3>1. tree_lru' \in Seq(Uri)
      BY <2>9, RemoveFirstFacts DEF ForgetTree
    <3>2. QED
      BY <2>9, <3>1 DEF ForgetTree
  <2>10. ASSUME NEW t \in Thread, ForgetSource(t) PROVE TypeOK'
    <3>1. source_lru' \in Seq(Uri)
      BY <2>10, RemoveFirstFacts DEF ForgetSource
    <3>2. QED
      BY <2>10, <3>1 DEF ForgetSource
  <2>11. ASSUME NEW t \in Thread, NEW u \in Uri, ReadGreenMiss(t, u)
         PROVE  TypeOK'
    BY <2>11 DEF ReadGreenMiss, ModuleInfo
  <2>12. ASSUME NEW t \in Thread, StoreGreen(t) PROVE TypeOK'
    BY <2>12, EntryUpdate DEF StoreGreen, Tree, CallOK
  <2>13. ASSUME NEW t \in Thread, ReparsePanics(t) PROVE TypeOK'
    BY <2>13 DEF ReparsePanics
  <2>14. ASSUME NEW t \in Thread, NEW u \in Uri, ReadSymbols(t, u)
         PROVE  TypeOK'
    BY <2>14 DEF ReadSymbols, ModuleInfo, Location, NoLocation
  <2>15. ASSUME NEW t \in Thread, ReadLineIndex(t) PROVE TypeOK'
    <3>1. CASE files[arg[t]] = None
      BY <2>15, <3>1 DEF ReadLineIndex
    <3>2. CASE files[arg[t]] # None
      <4>1. AtLineIndex(location[t], files[arg[t]].symbols) \in Location
        BY <3>2, EntryFields, LocationUpdate
      <4>2. location' \in [Thread -> Location]
        BY <2>15, <3>2, <4>1 DEF ReadLineIndex
      <4>3. QED
        BY <2>15, <3>2, <4>2 DEF ReadLineIndex
    <3>3. QED
      BY <3>1, <3>2
  <2>16. ASSUME NEW t \in Thread, ReadSource(t) PROVE TypeOK'
    <3>1. CASE location' = location
      BY <2>16, <3>1 DEF ReadSource
    <3>2. CASE location' # location
      <4>1. /\ files[arg[t]] \in ModuleInfo
            /\ location' = [location EXCEPT ![t] =
                               AtSource(location[t], files[arg[t]].source_text)]
        BY <2>16, <3>2 DEF ReadSource
      <4>2. AtSource(location[t], files[arg[t]].source_text) \in Location
        BY <4>1, EntryFields, LocationUpdate
      <4>3. QED
        BY <2>16, <4>1, <4>2 DEF ReadSource
    <3>3. QED
      BY <3>1, <3>2
  <2>17. ASSUME NEW t \in Thread, Reconstruct(t) PROVE TypeOK'
    <3> DEFINE info == files[arg[t]]
    <3>1. CASE location' = location /\ files' = files
      BY <2>17, <3>1 DEF Reconstruct
    <3>2. CASE info # None /\ info.source_text # None
      <4>1. AtSource(location[t], info.source_text) \in Location
        BY <3>2, EntryFields, LocationUpdate
      <4>2. /\ files' = files
            /\ location' = [location EXCEPT ![t] =
                               AtSource(location[t], info.source_text)]
        BY <2>17, <3>2 DEF Reconstruct
      <4>3. location' \in [Thread -> Location]
        BY <4>1, <4>2
      <4>4. QED
        BY <2>17, <4>2, <4>3 DEF Reconstruct
    <3>3. CASE info # None /\ info.source_text = None /\ info.green # None
      <4>1. info \in ModuleInfo /\ info.green.text \in Text
        BY <3>3, EntryFields
      <4>2. /\ AtSource(location[t], info.green.text) \in Location
            /\ WithSource(info, info.green.text) \in ModuleInfo
        BY <4>1, EntryUpdate, LocationUpdate
      <4>3. /\ location' = [location EXCEPT ![t] =
                               AtSource(location[t], info.green.text)]
            /\ files' = [files EXCEPT ![arg[t]] =
                            WithSource(info, info.green.text)]
        BY <2>17, <3>3 DEF Reconstruct
      <4>4. location' \in [Thread -> Location]
        BY <4>2, <4>3
      <4>5. files' \in [Uri -> ModuleInfo \cup {None}]
        BY <4>2, <4>3
      <4>6. QED
        BY <2>17, <4>4, <4>5 DEF Reconstruct
    <3>4. QED
      BY <2>17, <3>1, <3>2, <3>3 DEF Reconstruct
  <2>18. CASE UNCHANGED vars
    BY <2>18 DEF vars
  <2>19. QED
    BY <2>1, <2>2, <2>3, <2>4, <2>5, <2>6, <2>7, <2>8, <2>9, <2>10, <2>11,
       <2>12, <2>13, <2>14, <2>15, <2>16, <2>17, <2>18
       DEF Next, Eviction, WorkerCall, GetGreen, Locate
<1>3. TypeOK /\ CallOK /\ [Next]_vars => CallOK'
  \* It is about four of the variables, which a stuttering step leaves alone.
  <2> SUFFICES ASSUME TypeOK, CallOK, Next PROVE CallOK'
    BY DEF CallOK, vars
  <2> USE DEF TypeOK, CallOK, Goto, Thread
  <2>1. ASSUME NEW t \in Thread, Eviction(t) PROVE CallOK'
    BY <2>1 DEF Eviction, TouchTree, TouchSource, EvictTree, Over, Reparsable, EvictTreesDone,
                EvictSource, Over, Rebuildable, EvictSourcesDone
  <2>2. ASSUME NEW t \in Thread, WorkerCall(t) PROVE CallOK'
    BY <2>2 DEF WorkerCall, IndexFile, NewEntry, RemoveFile, ForgetTree, ForgetSource
  <2>3. ASSUME NEW t \in Thread, GetGreen(t) PROVE CallOK'
    <3>1. ASSUME NEW u \in Uri, ReadGreenMiss(t, u) PROVE CallOK'
      <4>1. held'[t] \in Text /\ t \in Reader
        BY <3>1, EntryFields DEF ReadGreenMiss
      <4>2. QED
        BY <3>1, <4>1 DEF ReadGreenMiss
    <3>2. CASE StoreGreen(t)
      BY <3>2 DEF StoreGreen
    <3>3. CASE ReparsePanics(t)
      BY <3>3 DEF ReparsePanics
    <3>4. QED
      BY <2>3, <3>1, <3>2, <3>3 DEF GetGreen
  <2>4. ASSUME NEW t \in Thread, Locate(t) PROVE CallOK'
    <3>1. ASSUME NEW u \in Uri, ReadSymbols(t, u) PROVE CallOK'
      BY <3>1 DEF ReadSymbols
    <3>2. CASE ReadLineIndex(t)
      BY <3>2 DEF ReadLineIndex
    <3>3. CASE ReadSource(t)
      BY <3>3 DEF ReadSource
    <3>4. CASE Reconstruct(t)
      BY <3>4 DEF Reconstruct
    <3>5. QED
      BY <2>4, <3>1, <3>2, <3>3, <3>4 DEF Locate
  <2>5. QED
    BY <2>1, <2>2, <2>3, <2>4 DEF Next
<1>4. QED
  BY <1>1, <1>2, <1>3, PTL DEF Spec

-----------------------------------------------------------------------------
(* What each step does to the entries.  Only these steps change `files`, and  *)
(* each changes one entry.                                                   *)

\* evict_trees drops the tree of an entry that keeps its text.
LEMMA EvictTreeEffect ==
    ASSUME TypeOK, NEW t \in Thread, EvictTree(t)
    PROVE  \/ files' = files
           \/ \E u \in Uri :
                 /\ files[u] \in ModuleInfo
                 /\ files[u].source_text # None
                 /\ files' = [files EXCEPT ![u] = WithGreen(files[u], None)]
<1>1. Last(tree_lru) \in Uri
  BY CacheConstants, FrontLastFacts DEF TypeOK, EvictTree, Over, Reparsable
<1>2. QED
  BY <1>1, NoneIsNoValue DEF TypeOK, EvictTree, Over, Reparsable

\* evict_sources drops the text of an entry that keeps its tree.
LEMMA EvictSourceEffect ==
    ASSUME TypeOK, NEW t \in Thread, EvictSource(t)
    PROVE  \/ files' = files
           \/ \E u \in Uri :
                 /\ files[u] \in ModuleInfo
                 /\ files[u].green # None
                 /\ files' = [files EXCEPT ![u] = WithSource(files[u], None)]
<1>1. Last(source_lru) \in Uri
  BY CacheConstants, FrontLastFacts DEF TypeOK, EvictSource, Over, Rebuildable
<1>2. QED
  BY <1>1, NoneIsNoValue DEF TypeOK, EvictSource, Over, Rebuildable

\* A re-parse stores the tree of the text it copied, if the entry is there.
LEMMA StoreGreenEffect ==
    ASSUME TypeOK, CallOK, NEW t \in Thread, StoreGreen(t)
    PROVE  /\ t \in Reader /\ held[t] \in Text /\ pc[t] = "reparse"
           /\ \/ files' = files
              \/ /\ files[arg[t]] \in ModuleInfo
                 /\ files' = [files EXCEPT ![arg[t]] =
                        WithGreen(files[arg[t]],
                                  [text |-> held[t], parser |-> "scss"])]
BY DEF TypeOK, CallOK, StoreGreen

\* source_text caches the text of the tree.
LEMMA ReconstructEffect ==
    ASSUME TypeOK, NEW t \in Thread, Reconstruct(t)
    PROVE  \/ files' = files
           \/ /\ files[arg[t]] \in ModuleInfo
              /\ files[arg[t]].green \in Tree
              /\ files' = [files EXCEPT ![arg[t]] =
                     WithSource(files[arg[t]], files[arg[t]].green.text)]
<1> DEFINE info == files[arg[t]]
<1>1. arg[t] \in Uri /\ info \in ModuleInfo \cup {None}
  BY DEF TypeOK
<1>2. CASE info # None /\ info.source_text = None /\ info.green # None
  <2>1. info \in ModuleInfo /\ info.green \in Tree
    BY <1>1, <1>2, EntryFields
  <2>2. files' = [files EXCEPT ![arg[t]] = WithSource(info, info.green.text)]
    BY <1>2 DEF Reconstruct
  <2>3. QED
    BY <2>1, <2>2
<1>3. CASE ~ (info # None /\ info.source_text = None /\ info.green # None)
  BY <1>3 DEF Reconstruct
<1>4. QED
  BY <1>2, <1>3

\* No other step touches an entry.
LEMMA OtherStepsKeepFiles ==
    ASSUME NEW t \in Thread,
           \/ TouchTree(t) \/ TouchSource(t)
           \/ EvictTreesDone(t) \/ EvictSourcesDone(t)
           \/ ForgetTree(t) \/ ForgetSource(t)
           \/ \E u \in Uri : ReadGreenMiss(t, u)
           \/ ReparsePanics(t)
           \/ \E u \in Uri : ReadSymbols(t, u)
           \/ ReadLineIndex(t) \/ ReadSource(t)
    PROVE  files' = files
BY DEF TouchTree, TouchSource, EvictTreesDone, EvictSourcesDone, ForgetTree,
       ForgetSource, ReadGreenMiss, ReparsePanics, ReadSymbols, ReadLineIndex,
       ReadSource

-----------------------------------------------------------------------------
\* The invariant documented at ModuleInfo: an indexed file always has its tree
\* or its text, so that get_or_reparse_green can re-parse an evicted tree and
\* source_text rebuild an evicted text.  It holds because every eviction looks
\* at the other part under the entry's lock, for any number of handler threads
\* and any limits.
THEOREM FilesRecoverable == Spec => []Recoverable
<1> USE CacheConstants, NoneIsNoValue
<1>1. Init => Recoverable
  BY DEF Init, Recoverable
<1>2. TypeOK /\ CallOK /\ Recoverable /\ [Next]_vars => Recoverable'
  <2> SUFFICES ASSUME TypeOK, CallOK, Recoverable, [Next]_vars
               PROVE  Recoverable'
    OBVIOUS
  <2>0. files \in [Uri -> ModuleInfo \cup {None}] /\ arg \in [Thread -> Uri]
    BY DEF TypeOK
  <2>1. ASSUME NEW t \in Thread, EvictTree(t) PROVE Recoverable'
    <3>1. CASE files' = files
      BY <3>1 DEF Recoverable
    <3>2. ASSUME NEW u \in Uri, files[u] \in ModuleInfo,
                 files[u].source_text # None,
                 files' = [files EXCEPT ![u] = WithGreen(files[u], None)]
          PROVE  Recoverable'
      <4>1. WithGreen(files[u], None).source_text # None
        BY <3>2, EntryUpdate
      <4>2. QED
        BY <2>0, <3>2, <4>1 DEF Recoverable
    <3>3. QED
      BY <2>1, <3>1, <3>2, EvictTreeEffect
  <2>2. ASSUME NEW t \in Thread, EvictSource(t) PROVE Recoverable'
    <3>1. CASE files' = files
      BY <3>1 DEF Recoverable
    <3>2. ASSUME NEW u \in Uri, files[u] \in ModuleInfo,
                 files[u].green # None,
                 files' = [files EXCEPT ![u] = WithSource(files[u], None)]
          PROVE  Recoverable'
      <4>1. WithSource(files[u], None).green # None
        BY <3>2, EntryUpdate
      <4>2. QED
        BY <2>0, <3>2, <4>1 DEF Recoverable
    <3>3. QED
      BY <2>2, <3>1, <3>2, EvictSourceEffect
  <2>3. ASSUME NEW t \in Thread, NEW u \in Uri, NEW text \in Text,
               IndexFile(t, u, text)
        PROVE  Recoverable'
    BY <2>0, <2>3 DEF IndexFile, NewEntry, Recoverable
  <2>4. ASSUME NEW t \in Thread, NEW u \in Uri, RemoveFile(t, u)
        PROVE  Recoverable'
    BY <2>0, <2>4 DEF RemoveFile, Recoverable
  <2>5. ASSUME NEW t \in Thread, StoreGreen(t) PROVE Recoverable'
    <3> DEFINE g == [text |-> held[t], parser |-> "scss"]
    <3>1. CASE files' = files
      BY <3>1 DEF Recoverable
    <3>2. CASE files' # files
      <4>1. /\ held[t] \in Text /\ arg[t] \in Uri
            /\ files[arg[t]] \in ModuleInfo
            /\ files' = [files EXCEPT ![arg[t]] = WithGreen(files[arg[t]], g)]
        BY <2>0, <2>5, <3>2, StoreGreenEffect
      <4>2. g \in Tree /\ g # None
        BY <4>1 DEF Tree
      <4> HIDE DEF g
      <4>3. WithGreen(files[arg[t]], g).green # None
        BY <4>1, <4>2, EntryUpdate
      <4>4. QED
        BY <2>0, <4>1, <4>3 DEF Recoverable
    <3>3. QED
      BY <3>1, <3>2
  <2>6. ASSUME NEW t \in Thread, Reconstruct(t) PROVE Recoverable'
    <3> DEFINE info == files[arg[t]]
    <3>1. CASE files' = files
      BY <3>1 DEF Recoverable
    <3>2. CASE files' # files
      <4>1. /\ arg[t] \in Uri /\ info \in ModuleInfo /\ info.green \in Tree
            /\ files' = [files EXCEPT ![arg[t]] =
                            WithSource(info, info.green.text)]
        BY <2>0, <2>6, <3>2, ReconstructEffect
      <4>2. info.green.text \in Text /\ info.green.text # None
        BY <4>1, EntryFields
      <4>3. WithSource(info, info.green.text).source_text # None
        BY <4>1, <4>2, EntryUpdate
      <4>4. QED
        BY <2>0, <4>1, <4>3 DEF Recoverable
    <3>3. QED
      BY <3>1, <3>2
  <2>7. CASE files' = files
    BY <2>7 DEF Recoverable
  <2>8. QED
    BY <2>1, <2>2, <2>3, <2>4, <2>5, <2>6, <2>7, OtherStepsKeepFiles
       DEF Next, Eviction, WorkerCall, GetGreen, Locate, vars
<1>3. QED
  BY <1>1, <1>2, TypeCorrect, PTL DEF Spec

-----------------------------------------------------------------------------
(* Coherence, but for the files overtaken.                                  *)

\* Coherent, for one entry.
EntryCoherent(info) ==
    /\ info.green # None => info.green.text = info.symbols
    /\ info.source_text # None => info.source_text = info.symbols

\* The store is coherent when each of its entries, but for those of the files
\* overtaken, is.
LEMMA CoherentByEntry ==
    Coherent <=> \A u \in Uri : (files[u] # None /\ u \notin overtaken)
                    => EntryCoherent(files[u])
BY DEF Coherent, EntryCoherent, Indexed

\* An entry update that keeps an entry coherent keeps the store coherent.
LEMMA CoherentUpdate ==
    ASSUME TypeOK, Coherent, NEW u \in Uri, NEW info,
           info = None \/ u \in overtaken' \/ EntryCoherent(info),
           files' = [files EXCEPT ![u] = info],
           \A v \in Uri \ {u} : v \in overtaken => v \in overtaken'
    PROVE  Coherent'
<1>1. \A v \in Uri : (files'[v] # None /\ v \notin overtaken')
         => EntryCoherent(files'[v])
  BY CoherentByEntry DEF TypeOK
<1>2. QED
  BY <1>1 DEF Coherent, EntryCoherent, Indexed

\* The history changes only when the worker indexes a file.
LEMMA OthersOvertakeNothing ==
    ASSUME [Next]_vars,
           ~ \E t \in Thread, u \in Uri, text \in Text : IndexFile(t, u, text)
    PROVE  overtaken' = overtaken
<1>1. ASSUME NEW t \in Thread,
             Eviction(t) \/ WorkerCall(t) \/ GetGreen(t) \/ Locate(t)
      PROVE  overtaken' = overtaken
  <2>1. CASE Eviction(t)
    BY <2>1 DEF Eviction, TouchTree, TouchSource, EvictTree, EvictTreesDone,
       EvictSource, EvictSourcesDone
  <2>2. CASE WorkerCall(t)
    BY <2>2 DEF WorkerCall, RemoveFile, ForgetTree, ForgetSource
  <2>3. CASE GetGreen(t)
    BY <2>3 DEF GetGreen, ReadGreenMiss, StoreGreen, ReparsePanics
  <2>4. CASE Locate(t)
    BY <2>4 DEF Locate, ReadSymbols, ReadLineIndex, ReadSource, Reconstruct
  <2>5. QED
    BY <1>1, <2>1, <2>2, <2>3, <2>4
<1>2. QED
  BY <1>1 DEF Next, vars

\* An entry's symbols change only when the worker indexes the file: the other
\* steps replace a cached tree or text of the entry, or remove it.
LEMMA OthersKeepSymbols ==
    ASSUME TypeOK, CallOK, [Next]_vars, NEW u \in Uri, files'[u] # None,
           ~ \E t \in Thread, v \in Uri, text \in Text : IndexFile(t, v, text)
    PROVE  files[u] # None /\ files'[u].symbols = files[u].symbols
<1> USE CacheConstants, NoneIsNoValue
<1>0. /\ files \in [Uri -> ModuleInfo \cup {None}] /\ arg \in [Thread -> Uri]
      /\ held \in [Thread -> Text \cup {None}]
  BY DEF TypeOK
<1>1. ASSUME NEW v \in Uri, files[v] \in ModuleInfo,
             NEW info, info.symbols = files[v].symbols,
             files' = [files EXCEPT ![v] = info]
      PROVE  files[u] # None /\ files'[u].symbols = files[u].symbols
  <2>1. files[v] # None
    BY <1>1 DEF ModuleInfo
  <2>2. QED
    BY <1>0, <1>1, <2>1
<1>2. ASSUME NEW t \in Thread, EvictTree(t)
      PROVE  files[u] # None /\ files'[u].symbols = files[u].symbols
  BY <1>1, <1>2, EvictTreeEffect, EntryUpdate
<1>3. ASSUME NEW t \in Thread, EvictSource(t)
      PROVE  files[u] # None /\ files'[u].symbols = files[u].symbols
  BY <1>1, <1>3, EvictSourceEffect, EntryUpdate
<1>4. ASSUME NEW t \in Thread, StoreGreen(t)
      PROVE  files[u] # None /\ files'[u].symbols = files[u].symbols
  <2> DEFINE g == [text |-> held[t], parser |-> "scss"]
  <2>1. CASE files' = files
    BY <2>1
  <2>2. CASE files' # files
    <3>1. /\ held[t] \in Text /\ arg[t] \in Uri /\ files[arg[t]] \in ModuleInfo
          /\ files' = [files EXCEPT ![arg[t]] = WithGreen(files[arg[t]], g)]
      BY <1>0, <1>4, <2>2, StoreGreenEffect
    <3>2. g \in Tree
      BY <3>1 DEF Tree
    <3> HIDE DEF g
    <3>3. WithGreen(files[arg[t]], g).symbols = files[arg[t]].symbols
      BY <3>1, <3>2, EntryUpdate
    <3>4. QED
      BY <1>1, <3>1, <3>3
  <2>3. QED
    BY <2>1, <2>2
<1>5. ASSUME NEW t \in Thread, Reconstruct(t)
      PROVE  files[u] # None /\ files'[u].symbols = files[u].symbols
  <2> DEFINE info == files[arg[t]]
  <2>1. CASE files' = files
    BY <2>1
  <2>2. CASE files' # files
    <3>1. /\ arg[t] \in Uri /\ info \in ModuleInfo /\ info.green \in Tree
          /\ files' = [files EXCEPT ![arg[t]] = WithSource(info, info.green.text)]
      BY <1>0, <1>5, <2>2, ReconstructEffect
    <3>2. info.green.text \in Text
      BY <3>1, EntryFields
    <3> HIDE DEF info
    <3>3. WithSource(info, info.green.text).symbols = info.symbols
      BY <3>1, <3>2, EntryUpdate
    <3>4. QED
      BY <1>1, <3>1, <3>3 DEF info
  <2>3. QED
    BY <2>1, <2>2
<1>6. ASSUME NEW t \in Thread, NEW v \in Uri, RemoveFile(t, v)
      PROVE  files[u] # None /\ files'[u].symbols = files[u].symbols
  BY <1>0, <1>6 DEF RemoveFile
<1>7. CASE files' = files
  BY <1>7
<1>8. QED
  BY <1>2, <1>3, <1>4, <1>5, <1>6, <1>7, OtherStepsKeepFiles
     DEF Next, Eviction, WorkerCall, GetGreen, Locate, vars

\* In every behaviour, trees, texts and symbols of a file belong to one
\* version of it, unless index_file replaced the file while a handler was
\* between copying another text and storing its tree: the unguarded store of
\* get_or_reparse_green is the only way to mix versions, and the next
\* undisturbed index_file mends it.
THEOREM CoherentUnlessOvertaken == Spec => [](Coherent /\ HeldCurrent)
<1> USE CacheConstants, NoneIsNoValue
<1>1. Init => Coherent /\ HeldCurrent
  BY DEF Init, Coherent, HeldCurrent, Indexed, Thread
<1>2. TypeOK /\ CallOK /\ Coherent /\ HeldCurrent /\ [Next]_vars => Coherent'
  <2> SUFFICES ASSUME TypeOK, CallOK, Coherent, HeldCurrent, [Next]_vars
               PROVE  Coherent'
    OBVIOUS
  <2>0. /\ files \in [Uri -> ModuleInfo \cup {None}] /\ arg \in [Thread -> Uri]
        /\ overtaken \subseteq Uri
    BY DEF TypeOK
  <2>00. \A u \in Uri : (files[u] # None /\ u \notin overtaken)
            => EntryCoherent(files[u])
    BY CoherentByEntry
  <2>1. ASSUME NEW t \in Thread, EvictTree(t), overtaken' = overtaken
        PROVE  Coherent'
    <3>1. CASE files' = files
      BY <2>1, <3>1 DEF Coherent, Indexed
    <3>2. ASSUME NEW u \in Uri, files[u] \in ModuleInfo,
                 files' = [files EXCEPT ![u] = WithGreen(files[u], None)]
          PROVE  Coherent'
      <4>1. u \in overtaken' \/ EntryCoherent(WithGreen(files[u], None))
        BY <2>00, <2>1, <3>2, EntryUpdate DEF EntryCoherent
      <4>2. QED
        BY <2>1, <3>2, <4>1, CoherentUpdate
    <3>3. QED
      BY <2>1, <3>1, <3>2, EvictTreeEffect
  <2>2. ASSUME NEW t \in Thread, EvictSource(t), overtaken' = overtaken
        PROVE  Coherent'
    <3>1. CASE files' = files
      BY <2>2, <3>1 DEF Coherent, Indexed
    <3>2. ASSUME NEW u \in Uri, files[u] \in ModuleInfo,
                 files' = [files EXCEPT ![u] = WithSource(files[u], None)]
          PROVE  Coherent'
      <4>1. u \in overtaken' \/ EntryCoherent(WithSource(files[u], None))
        BY <2>00, <2>2, <3>2, EntryUpdate DEF EntryCoherent
      <4>2. QED
        BY <2>2, <3>2, <4>1, CoherentUpdate
    <3>3. QED
      BY <2>2, <3>1, <3>2, EvictSourceEffect
  <2>3. ASSUME NEW t \in Thread, NEW u \in Uri, NEW text \in Text,
               IndexFile(t, u, text)
        PROVE  Coherent'
    <3> DEFINE info == [symbols     |-> text,
                        green       |-> [text |-> text, parser |-> ParserOf(u)],
                        source_text |-> text]
    <3>1. files' = [files EXCEPT ![u] = info]
      BY <2>3 DEF IndexFile, NewEntry
    <3>2. EntryCoherent(info)
      BY DEF EntryCoherent
    <3>3. \A v \in Uri \ {u} : v \in overtaken => v \in overtaken'
      BY <2>3 DEF IndexFile
    <3> HIDE DEF info
    <3>4. QED
      BY <3>1, <3>2, <3>3, CoherentUpdate
  <2>4. ASSUME NEW t \in Thread, NEW u \in Uri, RemoveFile(t, u)
        PROVE  Coherent'
    BY <2>4, CoherentUpdate DEF RemoveFile
  <2>5. ASSUME NEW t \in Thread, StoreGreen(t), overtaken' = overtaken
        PROVE  Coherent'
    <3> DEFINE g == [text |-> held[t], parser |-> "scss"]
    <3>1. CASE files' = files
      BY <2>5, <3>1 DEF Coherent, Indexed
    <3>2. CASE files' # files
      <4>1. /\ t \in Reader /\ held[t] \in Text /\ arg[t] \in Uri
            /\ files[arg[t]] \in ModuleInfo /\ pc[t] = "reparse"
            /\ files' = [files EXCEPT ![arg[t]] = WithGreen(files[arg[t]], g)]
        BY <2>0, <2>5, <3>2, StoreGreenEffect
      <4>2. CASE arg[t] \in overtaken
        BY <2>5, <4>1, <4>2, CoherentUpdate
      <4>3. CASE arg[t] \notin overtaken
        <5>0. files[arg[t]] # None
          BY <4>1 DEF ModuleInfo
        <5>1. held[t] = files[arg[t]].symbols
          BY <4>1, <4>3, <5>0 DEF HeldCurrent, Indexed
        <5>2. g \in Tree /\ g.text = files[arg[t]].symbols
          BY <4>1, <5>1 DEF Tree
        <5>3. EntryCoherent(files[arg[t]])
          BY <2>00, <4>1, <4>3, <5>0
        <5> HIDE DEF g
        <5>4. EntryCoherent(WithGreen(files[arg[t]], g))
          BY <4>1, <5>2, <5>3, EntryUpdate DEF EntryCoherent
        <5>5. QED
          BY <2>5, <4>1, <5>4, CoherentUpdate
      <4>4. QED
        BY <4>2, <4>3
    <3>3. QED
      BY <3>1, <3>2
  <2>6. ASSUME NEW t \in Thread, Reconstruct(t), overtaken' = overtaken
        PROVE  Coherent'
    <3> DEFINE info == files[arg[t]]
    <3>1. CASE files' = files
      BY <2>6, <3>1 DEF Coherent, Indexed
    <3>2. CASE files' # files
      <4>1. /\ arg[t] \in Uri /\ info \in ModuleInfo /\ info.green \in Tree
            /\ files' = [files EXCEPT ![arg[t]] =
                            WithSource(info, info.green.text)]
        BY <2>0, <2>6, <3>2, ReconstructEffect
      <4>2. CASE arg[t] \in overtaken
        BY <2>6, <4>1, <4>2, CoherentUpdate
      <4>3. CASE arg[t] \notin overtaken
        <5>1. EntryCoherent(info) /\ info.green.text \in Text
          BY <2>00, <4>1, <4>3, EntryFields
        <5> HIDE DEF info
        <5>2. /\ WithSource(info, info.green.text).green = info.green
              /\ WithSource(info, info.green.text).symbols = info.symbols
              /\ WithSource(info, info.green.text).source_text = info.green.text
          BY <4>1, <5>1, EntryUpdate
        <5>3. info.green.text = info.symbols
          BY <4>1, <5>1, NoneIsNoValue DEF EntryCoherent
        <5>4. EntryCoherent(WithSource(info, info.green.text))
          BY <5>2, <5>3 DEF EntryCoherent
        <5>5. QED
          BY <2>6, <4>1, <5>4, CoherentUpdate
      <4>4. QED
        BY <4>2, <4>3
    <3>3. QED
      BY <3>1, <3>2
  <2>7. CASE files' = files /\ overtaken' = overtaken
    BY <2>7 DEF Coherent, Indexed
  <2>8. CASE \E t \in Thread, u \in Uri, text \in Text : IndexFile(t, u, text)
    BY <2>3, <2>8
  <2>9. CASE ~ \E t \in Thread, u \in Uri, text \in Text : IndexFile(t, u, text)
    <3>1. overtaken' = overtaken
      BY <2>9, OthersOvertakeNothing
    <3>2. QED
      BY <3>1, <2>1, <2>2, <2>4, <2>5, <2>6, <2>7, <2>9, OtherStepsKeepFiles
         DEF Next, Eviction, WorkerCall, GetGreen, Locate, vars
  <2>10. QED
    BY <2>8, <2>9
<1>3. TypeOK /\ CallOK /\ Coherent /\ HeldCurrent /\ [Next]_vars => HeldCurrent'
  <2> SUFFICES ASSUME TypeOK, CallOK, Coherent, HeldCurrent, [Next]_vars,
                      NEW r \in Reader, pc'[r] = "reparse",
                      files'[arg'[r]] # None, arg'[r] \notin overtaken'
               PROVE  held'[r] = files'[arg'[r]].symbols
    BY DEF HeldCurrent, Indexed
  <2>0. /\ files \in [Uri -> ModuleInfo \cup {None}] /\ arg \in [Thread -> Uri]
        /\ pc \in [Thread -> Step] /\ held \in [Thread -> Text \cup {None}]
        /\ r \in Thread /\ overtaken \subseteq Uri
    BY DEF TypeOK, Thread
  <2>1. CASE UNCHANGED vars
    BY <2>0, <2>1 DEF vars, HeldCurrent, Indexed
  <2>2. CASE pc[r] = "reparse" /\ arg'[r] = arg[r] /\ held'[r] = held[r]
    <3> DEFINE v == arg[r]
    <3>0. v \in Uri
      BY <2>0
    <3>1. CASE \E t \in Thread, u \in Uri, text \in Text : IndexFile(t, u, text)
      <4>1. PICK t \in Thread, u \in Uri, text \in Text : IndexFile(t, u, text)
        BY <3>1
      <4>2. files' = [files EXCEPT ![u] = NewEntry(u, text)]
        BY <4>1 DEF IndexFile
      <4>3. CASE u = v
        <5>1. ~Overtakes(u, text)
          BY <2>2, <4>1, <4>3 DEF IndexFile
        <5>2. held[r] = text
          BY <2>2, <4>3, <5>1 DEF Overtakes
        <5>3. files'[v].symbols = text
          BY <2>0, <4>2, <4>3 DEF NewEntry
        <5>4. QED
          BY <2>2, <5>2, <5>3
      <4>4. CASE u # v
        <5>1. v \notin overtaken /\ files'[v] = files[v]
          BY <2>0, <2>2, <4>1, <4>2, <4>4 DEF IndexFile
        <5>2. QED
          BY <2>2, <5>1, <3>0 DEF HeldCurrent, Indexed
      <4>5. QED
        BY <4>3, <4>4
    <3>2. CASE ~ \E t \in Thread, u \in Uri, text \in Text : IndexFile(t, u, text)
      <4>1. overtaken' = overtaken
        BY <3>2, OthersOvertakeNothing
      <4>2. files[v] # None /\ files'[v].symbols = files[v].symbols
        BY <2>0, <2>2, <3>0, <3>2, OthersKeepSymbols
      <4>3. QED
        BY <2>2, <3>0, <4>1, <4>2 DEF HeldCurrent, Indexed
    <3>3. QED
      BY <3>1, <3>2
  <2>3. CASE \E u \in Uri : ReadGreenMiss(r, u)
    <3>1. PICK u \in Uri : ReadGreenMiss(r, u)
      BY <2>3
    <3>2. /\ files' = files /\ arg'[r] = u /\ files[u] # None
          /\ held'[r] = files[u].source_text /\ files[u].source_text # None
          /\ overtaken' = overtaken
      BY <2>0, <3>1 DEF ReadGreenMiss
    <3>3. files[u].source_text = files[u].symbols
      BY <3>2 DEF Coherent, Indexed
    <3>4. QED
      BY <3>2, <3>3
  <2>4. CASE Next
    <3>1. PICK t \in Thread :
             Eviction(t) \/ WorkerCall(t) \/ GetGreen(t) \/ Locate(t)
      BY <2>4 DEF Next
    <3> USE DEF Goto
    <3>2. \/ pc[r] = "reparse" /\ arg'[r] = arg[r] /\ held'[r] = held[r]
          \/ \E u \in Uri : ReadGreenMiss(r, u)
      <4>2. CASE Eviction(t)
        BY <2>0, <4>2 DEF Eviction, TouchTree, TouchSource, EvictTree, Over, Reparsable,
           EvictTreesDone, EvictSource, Over, Rebuildable, EvictSourcesDone
      <4>3. CASE WorkerCall(t)
        BY <2>0, <4>3 DEF WorkerCall, IndexFile, NewEntry, RemoveFile, ForgetTree,
           ForgetSource
      <4>4. CASE GetGreen(t)
        BY <2>0, <4>4 DEF GetGreen, ReadGreenMiss, StoreGreen, ReparsePanics
      <4>5. CASE Locate(t)
        BY <2>0, <4>5 DEF Locate, ReadSymbols, ReadLineIndex, ReadSource,
           Reconstruct
      <4>6. QED
        BY <3>1, <4>2, <4>3, <4>4, <4>5
    <3>3. QED
      BY <2>2, <2>3, <3>2
  <2>5. QED
    BY <2>1, <2>4
<1>4. QED
  BY <1>1, <1>2, <1>3, TypeCorrect, PTL DEF Spec

-----------------------------------------------------------------------------
(* The LRU list of trees.                                                   *)

\* max_cached_trees can act on every cached tree: whatever the handlers'
\* re-parses and the worker's evictions, insertions and removals interleave to,
\* a file that holds a tree is in tree_lru or on its way into it.
THEOREM TreesStayTracked == Spec => []TreesTracked
<1> USE CacheConstants, NoneIsNoValue
<1>1. Init => TreesTracked
  BY DEF Init, TreesTracked, Indexed
<1>2. TypeOK /\ CallOK /\ TreesTracked /\ [Next]_vars => TreesTracked'
  <2> SUFFICES ASSUME TypeOK, CallOK, TreesTracked, [Next]_vars,
                      NEW v \in Uri, files'[v] # None, files'[v].green # None
               PROVE  \/ v \in ToSet(tree_lru')
                      \/ \E t \in Thread :
                            pc'[t] = "evict_trees" /\ v \in ToSet(kept'[t])
                      \/ \E t \in Thread : pc'[t] = "touch_tree" /\ v = arg'[t]
    BY DEF TreesTracked, Indexed
  <2> DEFINE Tracked == \/ v \in ToSet(tree_lru)
                        \/ \E t \in Thread :
                              pc[t] = "evict_trees" /\ v \in ToSet(kept[t])
                        \/ \E t \in Thread : pc[t] = "touch_tree" /\ v = arg[t]
             Tracked1 == \/ v \in ToSet(tree_lru')
                         \/ \E t \in Thread :
                               pc'[t] = "evict_trees" /\ v \in ToSet(kept'[t])
                         \/ \E t \in Thread : pc'[t] = "touch_tree" /\ v = arg'[t]
  <2>0. /\ files \in [Uri -> ModuleInfo \cup {None}] /\ arg \in [Thread -> Uri]
        /\ pc \in [Thread -> Step] /\ kept \in [Thread -> Seq(Uri)]
        /\ tree_lru \in Seq(Uri)
    BY DEF TypeOK
  <2>00. files[v] # None /\ files[v].green # None => Tracked
    BY DEF TreesTracked, Indexed
  <2> HIDE DEF Tracked
  <2> USE DEF Goto
  <2>1. ASSUME NEW t \in Thread, TouchTree(t) PROVE Tracked1
    <3>1. ToSet(tree_lru) \cup {arg[t]} \subseteq ToSet(tree_lru')
      BY <2>0, <2>1, TouchedFacts DEF TouchTree
    <3>2. Tracked
      BY <2>1, <2>00 DEF TouchTree
    <3>3. QED
      BY <2>0, <2>1, <3>1, <3>2 DEF TouchTree, Tracked
  <2>2. ASSUME NEW t \in Thread,
               TouchSource(t) \/ EvictSourcesDone(t) \/ ForgetSource(t)
        PROVE  Tracked1
    <3>1. Tracked
      BY <2>2, <2>00 DEF TouchSource, EvictSourcesDone, ForgetSource
    <3>2. QED
      BY <2>0, <2>2, <3>1 DEF TouchSource, EvictSourcesDone, ForgetSource, Tracked
  <2>3. ASSUME NEW t \in Thread, EvictTree(t) PROVE Tracked1
    <3> DEFINE u == Last(tree_lru)
    <3>1. /\ ToSet(tree_lru) \subseteq ToSet(tree_lru') \cup {u} /\ u \in Uri
      BY <2>0, <2>3, FrontLastFacts DEF EvictTree, Over, Reparsable
    <3>2. /\ pc' = pc /\ arg' = arg /\ pc[t] = "evict_trees"
      BY <2>3 DEF EvictTree, Over, Reparsable
    <3>3. \A s \in Thread : ToSet(kept[s]) \subseteq ToSet(kept'[s])
      <4>1. ToSet(kept[t]) \subseteq ToSet(Append(kept[t], u))
        BY <2>0, <3>1, AppendFacts
      <4>2. kept' = kept \/ kept' = [kept EXCEPT ![t] = Append(kept[t], u)]
        BY <2>3 DEF EvictTree, Over, Reparsable
      <4> HIDE DEF u
      <4>3. QED
        BY <2>0, <4>1, <4>2
    <3>4. Tracked
      <4>1. CASE files' = files
        BY <2>00, <4>1
      <4>2. CASE files' # files
        <5>1. PICK x \in Uri : /\ files[x] \in ModuleInfo
                               /\ files' = [files EXCEPT ![x] =
                                              WithGreen(files[x], None)]
          BY <2>3, <4>2, EvictTreeEffect
        <5>2. WithGreen(files[x], None).green = None
          BY <5>1, EntryUpdate
        <5>3. v # x /\ files'[v] = files[v]
          BY <2>0, <5>1, <5>2
        <5>4. QED
          BY <2>00, <5>3
      <4>3. QED
        BY <4>1, <4>2
    <3>5. v = u => v \in ToSet(kept'[t])
      <4> SUFFICES ASSUME v = u PROVE v \in ToSet(kept'[t])
        OBVIOUS
      <4>1. CASE files[u] # None /\ files[u].source_text = None
        <5>1. kept' = [kept EXCEPT ![t] = Append(kept[t], u)]
          BY <2>3, <4>1 DEF EvictTree, Over, Reparsable
        <5>2. u \in ToSet(Append(kept[t], u))
          BY <2>0, <3>1, AppendFacts
        <5> HIDE DEF u
        <5>3. QED
          BY <2>0, <5>1, <5>2
      <4>2. CASE files[u] # None /\ files[u].source_text # None
        <5>1. files' = [files EXCEPT ![u] = WithGreen(files[u], None)]
          BY <2>3, <4>2 DEF EvictTree, Over, Reparsable
        <5>2. WithGreen(files[u], None).green = None
          BY <2>0, <3>1, <4>2, EntryUpdate
        <5> HIDE DEF u
        <5>3. QED
          BY <2>0, <5>1, <5>2
      <4>3. CASE files[u] = None
        BY <2>3, <4>3 DEF EvictTree, Over, Reparsable
      <4>4. QED
        BY <4>1, <4>2, <4>3
    <3> HIDE DEF u
    <3>6. QED
      BY <3>1, <3>2, <3>3, <3>4, <3>5 DEF Tracked
  <2>4. ASSUME NEW t \in Thread, EvictTreesDone(t) PROVE Tracked1
    <3>1. ToSet(tree_lru) \cup ToSet(kept[t]) \subseteq ToSet(tree_lru')
      BY <2>0, <2>4, ConcatFacts DEF EvictTreesDone
    <3>2. Tracked
      BY <2>4, <2>00 DEF EvictTreesDone
    <3>3. QED
      BY <2>0, <2>4, <3>1, <3>2 DEF EvictTreesDone, Tracked
  <2>5. ASSUME NEW t \in Thread, EvictSource(t) PROVE Tracked1
    <3> DEFINE u == Last(source_lru)
    <3>1. u \in Uri
      BY <2>5, FrontLastFacts DEF EvictSource, Over, Rebuildable, TypeOK
    <3>2. pc' = pc /\ arg' = arg /\ tree_lru' = tree_lru /\ pc[t] = "evict_sources"
      BY <2>5 DEF EvictSource, Over, Rebuildable
    <3>3. kept' = kept \/ kept' = [kept EXCEPT ![t] = Append(kept[t], u)]
      BY <2>5 DEF EvictSource, Over, Rebuildable
    <3> HIDE DEF u
    <3>4. \A s \in Thread : pc[s] = "evict_trees" => kept'[s] = kept[s]
      BY <2>0, <3>2, <3>3
    <3>5. Tracked
      <4>1. CASE files' = files
        BY <2>00, <4>1
      <4>2. CASE files' # files
        <5>1. PICK x \in Uri : /\ files[x] \in ModuleInfo
                               /\ files[x].green # None
                               /\ files' = [files EXCEPT ![x] =
                                              WithSource(files[x], None)]
          BY <2>5, <4>2, EvictSourceEffect
        <5>2. v = x \/ files'[v] = files[v]
          BY <2>0, <5>1
        <5>3. QED
          BY <2>00, <5>1, <5>2
      <4>3. QED
        BY <4>1, <4>2
    <3>6. QED
      BY <3>2, <3>4, <3>5 DEF Tracked
  <2>6. ASSUME NEW t \in Thread, NEW u \in Uri, NEW text \in Text,
               IndexFile(t, u, text)
        PROVE  Tracked1
    <3>1. CASE v = u
      BY <2>0, <2>6, <3>1 DEF IndexFile, NewEntry
    <3>2. CASE v # u
      <4>1. Tracked
        BY <2>0, <2>00, <2>6, <3>2 DEF IndexFile, NewEntry
      <4>2. QED
        BY <2>0, <2>6, <4>1 DEF IndexFile, NewEntry, Tracked
    <3>3. QED
      BY <3>1, <3>2
  <2>7. ASSUME NEW t \in Thread, NEW u \in Uri, RemoveFile(t, u) PROVE Tracked1
    <3>1. Tracked
      BY <2>0, <2>00, <2>7 DEF RemoveFile
    <3>2. QED
      BY <2>0, <2>7, <3>1 DEF RemoveFile, Tracked
  <2>8. ASSUME NEW t \in Thread, ForgetTree(t) PROVE Tracked1
    <3>1. ToSet(tree_lru) \ {arg[t]} \subseteq ToSet(tree_lru')
      BY <2>0, <2>8, RemoveFirstFacts DEF ForgetTree
    <3>2. files' = files /\ files[arg[t]] = None
      BY <2>8 DEF ForgetTree, CallOK
    <3>3. Tracked /\ v # arg[t]
      BY <2>00, <3>2
    <3>4. QED
      BY <2>0, <2>8, <3>1, <3>3 DEF ForgetTree, Tracked
  <2>9. ASSUME NEW t \in Thread, NEW u \in Uri,
               ReadGreenMiss(t, u) \/ ReadSymbols(t, u)
        PROVE  Tracked1
    <3>1. Tracked
      BY <2>00, <2>9 DEF ReadGreenMiss, ReadSymbols
    <3>2. QED
      BY <2>0, <2>9, <3>1 DEF ReadGreenMiss, ReadSymbols, Tracked
  <2>10. ASSUME NEW t \in Thread, StoreGreen(t) PROVE Tracked1
    <3>1. CASE v = arg[t]
      BY <2>0, <2>10, <3>1 DEF StoreGreen
    <3>2. CASE v # arg[t]
      <4>1. Tracked
        BY <2>0, <2>00, <2>10, <3>2 DEF StoreGreen
      <4>2. QED
        BY <2>0, <2>10, <4>1 DEF StoreGreen, Tracked
    <3>3. QED
      BY <3>1, <3>2
  <2>11. ASSUME NEW t \in Thread,
                ReparsePanics(t) \/ ReadLineIndex(t) \/ ReadSource(t)
         PROVE  Tracked1
    <3>1. Tracked
      BY <2>00, <2>11 DEF ReparsePanics, ReadLineIndex, ReadSource
    <3>2. QED
      BY <2>0, <2>11, <3>1 DEF ReparsePanics, ReadLineIndex, ReadSource, Tracked
  <2>12. ASSUME NEW t \in Thread, Reconstruct(t) PROVE Tracked1
    <3>1. Tracked
      <4>1. CASE files' = files
        BY <2>00, <4>1
      <4>2. CASE files' # files
        <5>1. /\ files[arg[t]] \in ModuleInfo /\ files[arg[t]].green \in Tree
              /\ arg[t] \in Uri
              /\ files' = [files EXCEPT ![arg[t]] =
                     WithSource(files[arg[t]], files[arg[t]].green.text)]
          BY <2>0, <2>12, <4>2, ReconstructEffect
        <5>2. v = arg[t] \/ files'[v] = files[v]
          BY <2>0, <5>1
        <5>3. QED
          BY <2>00, <5>1, <5>2
      <4>3. QED
        BY <4>1, <4>2
    <3>2. QED
      BY <2>0, <2>12, <3>1 DEF Reconstruct, Tracked
  <2>13. CASE UNCHANGED vars
    BY <2>13, <2>00 DEF vars, Tracked
  <2>14. QED
    BY <2>1, <2>2, <2>3, <2>4, <2>5, <2>6, <2>7, <2>8, <2>9, <2>10, <2>11,
       <2>12, <2>13 DEF Next, Eviction, WorkerCall, GetGreen, Locate
<1>3. QED
  BY <1>1, <1>2, TypeCorrect, PTL DEF Spec

-----------------------------------------------------------------------------
(* The LRU list of trees is bounded.                                        *)

Distinct(s) == \A i, j \in 1 .. Len(s) : s[i] = s[j] => i = j

\* A list without duplicates has as many elements as its length, and no list
\* has more.
LEMMA ListCardinality ==
    ASSUME NEW S, NEW s \in Seq(S)
    PROVE  /\ IsFiniteSet(ToSet(s))
           /\ Cardinality(ToSet(s)) \in Nat
           /\ Cardinality(ToSet(s)) <= Len(s)
           /\ Distinct(s) => Cardinality(ToSet(s)) = Len(s)
<1>1. Len(s) \in Nat /\ DOMAIN s = 1 .. Len(s)
  OBVIOUS
<1>2. IsFiniteSet(1 .. Len(s)) /\ Cardinality(1 .. Len(s)) = Len(s)
  BY <1>1, FS_Interval
<1>3. s \in Surjection(1 .. Len(s), ToSet(s))
  <2>1. s \in [1 .. Len(s) -> ToSet(s)]
    BY <1>1 DEF ToSet
  <2>2. \A x \in ToSet(s) : \E i \in 1 .. Len(s) : s[i] = x
    BY <1>1 DEF ToSet
  <2>3. QED
    BY <2>1, <2>2 DEF Surjection
<1>4. /\ IsFiniteSet(ToSet(s)) /\ Cardinality(ToSet(s)) <= Len(s)
      /\ Cardinality(ToSet(s)) = Len(s) <=> s \in Injection(1 .. Len(s), ToSet(s))
  BY <1>2, <1>3, FS_Surjection
<1>5. Distinct(s) => s \in Injection(1 .. Len(s), ToSet(s))
  BY <1>1, <1>3 DEF Distinct, Surjection, Injection, IsInjective
<1>6. QED
  BY <1>4, <1>5, FS_CardinalityType

\* A removal from a list without duplicates takes the uri out of it.
LEMMA RemoveFirstDistinct ==
    ASSUME NEW S, NEW s \in Seq(S), NEW e, Distinct(s)
    PROVE  /\ Distinct(RemoveFirst(s, e))
           /\ ToSet(RemoveFirst(s, e)) \subseteq ToSet(s) \ {e}
<1>1. CASE RemoveFirst(s, e) = s /\ \A i \in 1 .. Len(s) : s[i] # e
  BY <1>1, ToSetByIndex
<1>2. ASSUME NEW k \in 1 .. Len(s),
             s[k] = e,
             RemoveFirst(s, e) \in Seq(S),
             Len(RemoveFirst(s, e)) = Len(s) - 1,
             \A i \in 1 .. Len(s) - 1 :
                RemoveFirst(s, e)[i] = IF i < k THEN s[i] ELSE s[i + 1]
      PROVE  /\ Distinct(RemoveFirst(s, e))
             /\ ToSet(RemoveFirst(s, e)) \subseteq ToSet(s) \ {e}
  <2>1. PICK r : r = RemoveFirst(s, e)
    OBVIOUS
  <2> DEFINE at(i) == IF i < k THEN i ELSE i + 1
  <2>2. ASSUME NEW i \in 1 .. Len(s) - 1
        PROVE  at(i) \in 1 .. Len(s) /\ at(i) # k /\ r[i] = s[at(i)]
    <3>1. CASE i < k
      <4>1. i \in 1 .. Len(s) /\ i # k
        BY <3>1
      <4>2. r[i] = s[i]
        BY <3>1, <1>2, <2>1
      <4>3. QED
        BY <3>1, <4>1, <4>2
    <3>2. CASE ~(i < k)
      <4>1. i + 1 \in 1 .. Len(s) /\ i + 1 # k
        BY <3>2
      <4>2. r[i] = s[i + 1]
        BY <3>2, <1>2, <2>1
      <4>3. QED
        BY <3>2, <4>1, <4>2
    <3>3. QED
      BY <3>1, <3>2
  <2>3. ASSUME NEW i \in 1 .. Len(s) - 1, NEW j \in 1 .. Len(s) - 1, at(i) = at(j)
        PROVE  i = j
    BY <2>3
  <2>4. r \in Seq(S) /\ Len(r) = Len(s) - 1
    BY <1>2, <2>1
  <2> HIDE DEF at
  <2>5. Distinct(r)
    BY <2>2, <2>3, <2>4 DEF Distinct
  <2>6. ASSUME NEW x \in ToSet(r) PROVE x \in ToSet(s) \ {e}
    <3>1. PICK i \in 1 .. Len(s) - 1 : x = r[i]
      BY <2>4 DEF ToSet
    <3>2. x = s[at(i)] /\ at(i) \in 1 .. Len(s) /\ at(i) # k
      BY <2>2, <3>1
    <3>3. x # e
      BY <3>2, <1>2 DEF Distinct
    <3>4. QED
      BY <3>2, <3>3 DEF ToSet
  <2>7. QED
    BY <2>1, <2>5, <2>6
<1>3. QED
  BY <1>1, <1>2, RemoveFirstCases

\* Two lists that share nothing, put one after the other.
LEMMA ConcatDistinct ==
    ASSUME NEW S, NEW s \in Seq(S), NEW z \in Seq(S)
    PROVE  /\ ToSet(s \o z) = ToSet(s) \cup ToSet(z)
           /\ Distinct(s) /\ Distinct(z) /\ ToSet(s) \cap ToSet(z) = {}
                => Distinct(s \o z)
<1>1. PICK c : c = s \o z
  OBVIOUS
<1>2. /\ c \in Seq(S) /\ Len(c) = Len(s) + Len(z)
      /\ \A i \in 1 .. Len(s) + Len(z) :
            c[i] = IF i <= Len(s) THEN s[i] ELSE z[i - Len(s)]
  BY <1>1, ConcatProperties
<1>3. Len(s) \in Nat /\ Len(z) \in Nat
  OBVIOUS
<1>4. /\ ToSet(c) = {c[i] : i \in 1 .. Len(c)}
      /\ ToSet(s) = {s[i] : i \in 1 .. Len(s)}
      /\ ToSet(z) = {z[i] : i \in 1 .. Len(z)}
  BY <1>2, ToSetByIndex
<1>5. ASSUME NEW i \in 1 .. Len(c)
      PROVE  \/ i \in 1 .. Len(s) /\ c[i] = s[i]
             \/ i - Len(s) \in 1 .. Len(z) /\ c[i] = z[i - Len(s)]
  BY <1>2, <1>3
<1>6. ToSet(c) \subseteq ToSet(s) \cup ToSet(z)
  BY <1>4, <1>5
<1>7. ToSet(s) \cup ToSet(z) \subseteq ToSet(c)
  BY <1>1, ConcatFacts
<1>8. ASSUME Distinct(s), Distinct(z), ToSet(s) \cap ToSet(z) = {},
             NEW i \in 1 .. Len(c), NEW j \in 1 .. Len(c), c[i] = c[j]
      PROVE  i = j
  <2>1. CASE i \in 1 .. Len(s) /\ c[i] = s[i] /\ j \in 1 .. Len(s) /\ c[j] = s[j]
    BY <2>1, <1>8 DEF Distinct
  <2>2. CASE /\ i - Len(s) \in 1 .. Len(z) /\ c[i] = z[i - Len(s)]
             /\ j - Len(s) \in 1 .. Len(z) /\ c[j] = z[j - Len(s)]
    <3>1. i - Len(s) = j - Len(s)
      BY <2>2, <1>8 DEF Distinct
    <3>2. QED
      BY <3>1, <1>3
  <2>3. CASE /\ i \in 1 .. Len(s) /\ c[i] = s[i]
             /\ j - Len(s) \in 1 .. Len(z) /\ c[j] = z[j - Len(s)]
    <3>1. c[i] \in ToSet(s) /\ c[j] \in ToSet(z)
      BY <2>3, <1>4
    <3>2. QED
      BY <3>1, <1>8
  <2>4. CASE /\ j \in 1 .. Len(s) /\ c[j] = s[j]
             /\ i - Len(s) \in 1 .. Len(z) /\ c[i] = z[i - Len(s)]
    <3>1. c[j] \in ToSet(s) /\ c[i] \in ToSet(z)
      BY <2>4, <1>4
    <3>2. QED
      BY <3>1, <1>8
  <2>5. QED
    BY <1>5, <2>1, <2>2, <2>3, <2>4
<1>9. QED
  BY <1>1, <1>6, <1>7, <1>8 DEF Distinct

\* A touch leaves the uri in the list once.
LEMMA TouchedDistinct ==
    ASSUME NEW S, NEW s \in Seq(S), NEW u \in S, Distinct(s)
    PROVE  /\ Distinct(Touched(s, u))
           /\ ToSet(Touched(s, u)) = ToSet(s) \cup {u}
<1>1. PICK r : r = RemoveFirst(s, u)
  OBVIOUS
<1>2. r \in Seq(S) /\ Distinct(r) /\ ToSet(r) \subseteq ToSet(s) \ {u}
  BY <1>1, RemoveFirstFacts, RemoveFirstDistinct
<1>3. Touched(s, u) = <<u>> \o r
  BY <1>1 DEF Touched, Cons
<1>4. <<u>> \in Seq(S) /\ Distinct(<<u>>) /\ ToSet(<<u>>) = {u}
  BY DEF Distinct, ToSet
<1>5. PICK p : p = <<u>>
  OBVIOUS
<1>6. Distinct(p \o r) /\ ToSet(p \o r) = {u} \cup ToSet(r)
  <2>1. p \in Seq(S) /\ Distinct(p) /\ ToSet(p) = {u}
    BY <1>4, <1>5
  <2>2. ToSet(p) \cap ToSet(r) = {}
    BY <1>2, <2>1
  <2>3. QED
    BY <1>2, <2>1, <2>2, ConcatDistinct
<1>7. ToSet(s) \cup {u} \subseteq ToSet(Touched(s, u))
  BY TouchedFacts
<1>8. QED
  BY <1>2, <1>3, <1>5, <1>7, <1>6

\* The uri popped from the end is not elsewhere in the list.
LEMMA PopDistinct ==
    ASSUME NEW S, NEW s \in Seq(S), Len(s) > 0, Distinct(s)
    PROVE  /\ Distinct(Front(s))
           /\ Last(s) \in ToSet(s)
           /\ ToSet(Front(s)) = ToSet(s) \ {Last(s)}
<1>1. Len(s) \in Nat /\ Len(s) \in 1 .. Len(s)
  OBVIOUS
<1>2. PICK f : f = Front(s)
  OBVIOUS
<1>3. f \in Seq(S) /\ ToSet(s) \subseteq ToSet(f) \cup {Last(s)}
  BY <1>2, FrontLastFacts
<1>4. Len(f) = Len(s) - 1 /\ \A i \in 1 .. Len(s) - 1 : f[i] = s[i]
  BY <1>2, FrontLastFacts
<1>5. Distinct(f)
  BY <1>1, <1>4 DEF Distinct
<1>6. ASSUME NEW x \in ToSet(f) PROVE x \in ToSet(s) /\ x # Last(s)
  <2>1. PICK i \in 1 .. Len(s) - 1 : x = s[i]
    BY <1>3, <1>4 DEF ToSet
  <2>2. i \in 1 .. Len(s) /\ i # Len(s)
    BY <1>1
  <2>3. QED
    BY <2>1, <2>2, <1>1 DEF ToSet, Last, Distinct
<1>7. Last(s) \in ToSet(s)
  BY <1>1 DEF ToSet, Last
<1>8. QED
  BY <1>2, <1>3, <1>5, <1>6, <1>7

\* A uri kept aside.
LEMMA AppendDistinct ==
    ASSUME NEW S, NEW s \in Seq(S), NEW e \in S
    PROVE  /\ ToSet(Append(s, e)) = ToSet(s) \cup {e}
           /\ Distinct(s) /\ e \notin ToSet(s) => Distinct(Append(s, e))
<1>1. PICK c : c = Append(s, e)
  OBVIOUS
<1>2. /\ c \in Seq(S) /\ Len(c) = Len(s) + 1 /\ c[Len(s) + 1] = e
      /\ \A i \in 1 .. Len(s) : c[i] = s[i]
  BY <1>1, AppendProperties
<1>3. Len(s) \in Nat
  OBVIOUS
<1>4. /\ ToSet(c) = {c[i] : i \in 1 .. Len(c)}
      /\ ToSet(s) = {s[i] : i \in 1 .. Len(s)}
  BY <1>2, ToSetByIndex
<1>5. ASSUME NEW i \in 1 .. Len(c)
      PROVE  \/ i \in 1 .. Len(s) /\ c[i] = s[i]
             \/ i = Len(s) + 1 /\ c[i] = e
  BY <1>2, <1>3
<1>6. ToSet(c) \subseteq ToSet(s) \cup {e}
  BY <1>4, <1>5
<1>7. ToSet(s) \cup {e} \subseteq ToSet(c)
  BY <1>1, AppendFacts
<1>8. ASSUME Distinct(s), e \notin ToSet(s),
             NEW i \in 1 .. Len(c), NEW j \in 1 .. Len(c), c[i] = c[j]
      PROVE  i = j
  <2>1. \A k \in 1 .. Len(s) : s[k] # e
    BY <1>4, <1>8
  <2>2. QED
    BY <1>5, <1>8, <2>1 DEF Distinct
<1>9. QED
  BY <1>1, <1>6, <1>7, <1>8 DEF Distinct

\* Which threads take which steps, and who may hold uris aside: only a thread
\* within an eviction, and for trees only the one that holds their mutex.
Phases ==
    \A t \in Thread :
        /\ pc[t] \in {"touch_source", "evict_sources", "forget_source"}
             => t = Worker
        /\ pc[t] \notin {"evict_trees", "evict_sources"} => kept[t] = <<>>
        /\ pc[t] = "evict_trees" /\ kept[t] # <<>> => tree_mutex = t

Apart(lru, aside) == Distinct(aside) /\ ToSet(lru) \cap ToSet(aside) = {}

\* No uri is twice in a list, or in the list and among those kept aside.
NoDuplicates ==
    /\ Distinct(tree_lru) /\ Distinct(source_lru)
    /\ \A t \in Thread :
        /\ pc[t] = "evict_trees" => Apart(tree_lru, kept[t])
        /\ pc[t] = "evict_sources" => Apart(source_lru, kept[t])

ListTypes ==
    /\ tree_lru \in Seq(Uri) /\ source_lru \in Seq(Uri)
    /\ pc \in [Thread -> Step] /\ arg \in [Thread -> Uri]
    /\ kept \in [Thread -> Seq(Uri)]

LEMMA EmptyApart ==
    ASSUME NEW lru
    PROVE  Apart(lru, <<>>)
BY DEF Apart, Distinct, ToSet

\* Every step keeps the phases.
LEMMA PhasesKept ==
    ASSUME TypeOK, CallOK, Phases, [Next]_vars
    PROVE  Phases'
<1> USE CacheConstants, NoneIsNoValue DEF Goto
<1>types. ListTypes
  BY DEF TypeOK, ListTypes
<1>1. CASE UNCHANGED vars
  BY <1>1 DEF vars, Phases
<1>2. ASSUME NEW t \in Thread, Eviction(t) PROVE Phases'
  <2>1. CASE TouchTree(t)
    BY <2>1, <1>types DEF TouchTree, Phases, ListTypes
  <2>2. CASE TouchSource(t)
    BY <2>2, <1>types DEF TouchSource, Phases, ListTypes
  <2>3. CASE EvictTree(t)
    BY <2>3, <1>types DEF EvictTree, Phases, ListTypes, Thread
  <2>4. CASE EvictTreesDone(t)
    BY <2>4, <1>types DEF EvictTreesDone, Phases, ListTypes
  <2>5. CASE EvictSource(t)
    BY <2>5, <1>types DEF EvictSource, Phases, ListTypes
  <2>6. CASE EvictSourcesDone(t)
    BY <2>6, <1>types DEF EvictSourcesDone, Phases, ListTypes
  <2>7. QED
    BY <1>2, <2>1, <2>2, <2>3, <2>4, <2>5, <2>6 DEF Eviction
<1>3. ASSUME NEW t \in Thread, WorkerCall(t) \/ GetGreen(t) \/ Locate(t)
      PROVE  Phases'
  <2>1. /\ tree_mutex' = tree_mutex /\ kept' = kept
        /\ \E step \in Step \ {"touch_source", "evict_sources", "evict_trees"} :
             /\ pc' = [pc EXCEPT ![t] = step]
             /\ step = "forget_source" => pc[t] = "forget_tree"
        /\ pc[t] \notin {"evict_trees", "evict_sources"}
    BY <1>3 DEF WorkerCall, IndexFile, RemoveFile, ForgetTree, ForgetSource,
       GetGreen, ReadGreenMiss, StoreGreen, ReparsePanics,
       Locate, ReadSymbols, ReadLineIndex, ReadSource, Reconstruct, Step
  <2>2. QED
    BY <2>1, <1>types DEF Phases, CallOK, ListTypes
<1>4. QED
  BY <1>1, <1>2, <1>3 DEF Next

\* Every step keeps the lists free of duplicates.
LEMMA NoDuplicatesKept ==
    ASSUME TypeOK, CallOK, Phases, NoDuplicates, [Next]_vars
    PROVE  NoDuplicates'
<1> USE CacheConstants, NoneIsNoValue DEF Goto
<1>types. ListTypes
  BY DEF TypeOK, ListTypes
<1>free. tree_mutex = None =>
         \A s \in Thread : pc[s] = "evict_trees" => kept[s] = <<>>
  BY DEF Phases
<1>1. CASE UNCHANGED vars
  BY <1>1 DEF vars, NoDuplicates
<1>2. ASSUME NEW t \in Thread, TouchTree(t) PROVE NoDuplicates'
  <2>1. Distinct(tree_lru')
    BY <1>2, <1>types, TouchedDistinct DEF TouchTree, NoDuplicates, ListTypes
  <2>2. /\ source_lru' = source_lru /\ kept' = kept
        /\ \A s \in Thread : pc'[s] = "evict_trees" => kept[s] = <<>>
        /\ \A s \in Thread : pc'[s] = "evict_sources" => pc[s] = "evict_sources"
    BY <1>2, <1>types, <1>free DEF TouchTree, Phases, ListTypes
  <2>3. QED
    BY <2>1, <2>2, EmptyApart DEF NoDuplicates
<1>3. ASSUME NEW t \in Thread, TouchSource(t) PROVE NoDuplicates'
  <2>1. Distinct(source_lru')
    BY <1>3, <1>types, TouchedDistinct DEF TouchSource, NoDuplicates, ListTypes
  <2>2. /\ tree_lru' = tree_lru /\ kept' = kept
        /\ t = Worker /\ kept[t] = <<>>
        /\ pc' = [pc EXCEPT ![t] = "evict_trees"]
        /\ \A s \in Thread : pc[s] = "evict_sources" => s = Worker
    BY <1>3 DEF TouchSource, Phases
  <2>3. QED
    BY <2>1, <2>2, <1>types, EmptyApart DEF NoDuplicates, ListTypes
<1>4. ASSUME NEW t \in Thread, EvictTree(t) PROVE NoDuplicates'
  <2>1. PICK u : u = Last(tree_lru)
    OBVIOUS
  <2>2. PICK rest : rest = Front(tree_lru)
    OBVIOUS
  <2>3. Len(tree_lru) > 0 /\ pc[t] = "evict_trees"
    BY <1>4, <1>types DEF EvictTree, Over, ListTypes
  <2>4. /\ Distinct(rest) /\ u \in ToSet(tree_lru) /\ u \in Uri
        /\ ToSet(rest) = ToSet(tree_lru) \ {u}
    BY <2>1, <2>2, <2>3, <1>types, PopDistinct, FrontLastFacts
    DEF NoDuplicates, ListTypes
  <2>5. Apart(tree_lru, kept[t]) /\ kept[t] \in Seq(Uri)
    BY <2>3, <1>types DEF NoDuplicates, ListTypes
  <2>6. PICK k : k = Append(kept[t], u)
    OBVIOUS
  <2>7. Apart(rest, kept[t]) /\ Apart(rest, k)
    <3>1. ToSet(k) = ToSet(kept[t]) \cup {u} /\ Distinct(k)
      BY <2>4, <2>5, <2>6, AppendDistinct DEF Apart
    <3>2. QED
      BY <2>4, <2>5, <3>1 DEF Apart
  <2>8. /\ tree_lru' = rest /\ source_lru' = source_lru /\ pc' = pc
        /\ kept' = kept \/ kept' = [kept EXCEPT ![t] = k]
        /\ tree_mutex \in {None, t}
    BY <1>4, <2>1, <2>2, <2>6 DEF EvictTree
  <2>9. \A s \in Thread : s # t /\ pc[s] = "evict_trees" => kept[s] = <<>>
    BY <2>8 DEF Phases
  <2>10. \A s \in Thread : pc[s] = "evict_trees" => Apart(rest, kept'[s])
    BY <2>7, <2>8, <2>9, <1>types, EmptyApart DEF ListTypes
  <2>11. \A s \in Thread : pc[s] = "evict_sources" => kept'[s] = kept[s]
    BY <2>3, <2>8, <1>types DEF ListTypes
  <2>12. QED
    BY <2>4, <2>8, <2>10, <2>11 DEF NoDuplicates
<1>5. ASSUME NEW t \in Thread, EvictTreesDone(t) PROVE NoDuplicates'
  <2>1. Apart(tree_lru, kept[t]) /\ kept[t] \in Seq(Uri)
    BY <1>5, <1>types DEF EvictTreesDone, NoDuplicates, ListTypes
  <2>2. Distinct(tree_lru')
    BY <1>5, <2>1, <1>types, ConcatDistinct
    DEF EvictTreesDone, NoDuplicates, ListTypes, Apart
  <2>3. /\ source_lru' = source_lru
        /\ tree_mutex \in {None, t}
        /\ kept' = [kept EXCEPT ![t] = <<>>]
        /\ pc' = [pc EXCEPT ![t] = IF t = Worker THEN "evict_sources" ELSE "idle"]
    BY <1>5 DEF EvictTreesDone
  <2>4. \A s \in Thread : pc'[s] = "evict_trees" => kept'[s] = <<>>
    BY <2>3, <1>types DEF Phases, ListTypes
  <2>5. \A s \in Thread : pc'[s] = "evict_sources" =>
           kept'[s] = <<>> \/ (pc[s] = "evict_sources" /\ kept'[s] = kept[s])
    BY <2>3, <1>types DEF ListTypes
  <2>6. QED
    BY <2>2, <2>3, <2>4, <2>5, EmptyApart DEF NoDuplicates
<1>6. ASSUME NEW t \in Thread, EvictSource(t) PROVE NoDuplicates'
  <2>1. PICK u : u = Last(source_lru)
    OBVIOUS
  <2>2. PICK rest : rest = Front(source_lru)
    OBVIOUS
  <2>3. Len(source_lru) > 0 /\ pc[t] = "evict_sources" /\ t = Worker
    BY <1>6, <1>types DEF EvictSource, Over, ListTypes, Phases
  <2>4. /\ Distinct(rest) /\ u \in ToSet(source_lru) /\ u \in Uri
        /\ ToSet(rest) = ToSet(source_lru) \ {u}
    BY <2>1, <2>2, <2>3, <1>types, PopDistinct, FrontLastFacts
    DEF NoDuplicates, ListTypes
  <2>5. Apart(source_lru, kept[t]) /\ kept[t] \in Seq(Uri)
    BY <2>3, <1>types DEF NoDuplicates, ListTypes
  <2>6. PICK k : k = Append(kept[t], u)
    OBVIOUS
  <2>7. Apart(rest, kept[t]) /\ Apart(rest, k)
    <3>1. ToSet(k) = ToSet(kept[t]) \cup {u} /\ Distinct(k)
      BY <2>4, <2>5, <2>6, AppendDistinct DEF Apart
    <3>2. QED
      BY <2>4, <2>5, <3>1 DEF Apart
  <2>8. /\ source_lru' = rest /\ tree_lru' = tree_lru /\ pc' = pc
        /\ kept' = kept \/ kept' = [kept EXCEPT ![t] = k]
    BY <1>6, <2>1, <2>2, <2>6 DEF EvictSource
  <2>9. \A s \in Thread : pc[s] = "evict_sources" => s = t /\ Apart(rest, kept'[s])
    BY <2>3, <2>7, <2>8, <1>types DEF ListTypes, Phases
  <2>10. \A s \in Thread : pc[s] = "evict_trees" => kept'[s] = kept[s]
    BY <2>3, <2>8, <1>types DEF ListTypes
  <2>11. QED
    BY <2>4, <2>8, <2>9, <2>10 DEF NoDuplicates
<1>7. ASSUME NEW t \in Thread, EvictSourcesDone(t) PROVE NoDuplicates'
  <2>1. Apart(source_lru, kept[t]) /\ kept[t] \in Seq(Uri) /\ t = Worker
    BY <1>7, <1>types DEF EvictSourcesDone, NoDuplicates, ListTypes, Phases
  <2>2. Distinct(source_lru')
    BY <1>7, <2>1, <1>types, ConcatDistinct
    DEF EvictSourcesDone, NoDuplicates, ListTypes, Apart
  <2>3. /\ tree_lru' = tree_lru
        /\ kept' = [kept EXCEPT ![t] = <<>>]
        /\ pc' = [pc EXCEPT ![t] = "idle"]
    BY <1>7 DEF EvictSourcesDone
  <2>4. \A s \in Thread : pc'[s] # "evict_sources"
    BY <2>1, <2>3, <1>types DEF Phases, ListTypes
  <2>5. \A s \in Thread : pc'[s] = "evict_trees" =>
           pc[s] = "evict_trees" /\ kept'[s] = kept[s]
    BY <2>3, <1>types DEF ListTypes
  <2>6. QED
    BY <2>2, <2>3, <2>4, <2>5 DEF NoDuplicates
<1>8. ASSUME NEW t \in Thread, ForgetTree(t) PROVE NoDuplicates'
  <2>1. Distinct(tree_lru')
    BY <1>8, <1>types, RemoveFirstDistinct DEF ForgetTree, NoDuplicates, ListTypes
  <2>2. /\ source_lru' = source_lru /\ kept' = kept
        /\ \A s \in Thread : pc'[s] = "evict_trees" => kept[s] = <<>>
        /\ \A s \in Thread : pc'[s] = "evict_sources" => pc[s] = "evict_sources"
    BY <1>8, <1>types, <1>free DEF ForgetTree, ListTypes
  <2>3. QED
    BY <2>1, <2>2, EmptyApart DEF NoDuplicates
<1>9. ASSUME NEW t \in Thread, ForgetSource(t) PROVE NoDuplicates'
  <2>1. Distinct(source_lru')
    BY <1>9, <1>types, RemoveFirstDistinct DEF ForgetSource, NoDuplicates, ListTypes
  <2>2. /\ tree_lru' = tree_lru /\ kept' = kept
        /\ \A s \in Thread : pc'[s] = "evict_trees" => pc[s] = "evict_trees"
        /\ \A s \in Thread : pc'[s] # "evict_sources"
    BY <1>9, <1>types DEF ForgetSource, ListTypes, Phases
  <2>3. QED
    BY <2>1, <2>2 DEF NoDuplicates
<1>10. ASSUME NEW t \in Thread, GetGreen(t) \/ Locate(t)
              \/ (\E u \in Uri, text \in Text : IndexFile(t, u, text))
              \/ (\E u \in Uri : RemoveFile(t, u))
       PROVE  NoDuplicates'
  <2>1. /\ tree_lru' = tree_lru /\ source_lru' = source_lru /\ kept' = kept
        /\ \E step \in Step \ {"evict_sources", "evict_trees"} :
             pc' = [pc EXCEPT ![t] = step]
    BY <1>10 DEF IndexFile, RemoveFile,
       GetGreen, ReadGreenMiss, StoreGreen, ReparsePanics,
       Locate, ReadSymbols, ReadLineIndex, ReadSource, Reconstruct, Step
  <2>2. QED
    BY <2>1, <1>types DEF NoDuplicates, ListTypes
<1>11. QED
  BY <1>1, <1>2, <1>3, <1>4, <1>5, <1>6, <1>7, <1>8, <1>9, <1>10
  DEF Next, Eviction, WorkerCall

\* The uris in the list of sources, or for the moment held aside from it.
SourceListed ==
    ToSet(source_lru)
      \cup (IF pc[Worker] = "evict_sources" THEN ToSet(kept[Worker]) ELSE {})

HasText(u) == files[u] # None /\ files[u].source_text # None

\* A file in the list of sources has its text, unless it has been removed; so
\* has the one the worker is about to put there.  The files whose trees an
\* eviction keeps are in neither position.
Texts ==
    /\ \A u \in SourceListed : files[u] # None => HasText(u)
    /\ pc[Worker] \in {"touch_tree", "touch_source"} => HasText(arg[Worker])
    /\ \A t \in Thread : pc[t] = "evict_trees" =>
         \A u \in ToSet(kept[t]) :
            /\ u \notin SourceListed
            /\ ~(pc[Worker] = "touch_source" /\ arg[Worker] = u)

Unevicted == \A v \in Uri : /\ HasText(v) => HasText(v)'
                            /\ files[v] = None => files'[v] = None

\* No step but an eviction of sources takes a text from an indexed file, and
\* none but index_file adds a file.
LEMMA TextsStay ==
    ASSUME TypeOK, CallOK, NEW t \in Thread,
           \/ TouchTree(t) \/ TouchSource(t) \/ EvictTree(t)
           \/ EvictTreesDone(t) \/ EvictSourcesDone(t)
           \/ ForgetTree(t) \/ ForgetSource(t) \/ GetGreen(t) \/ Locate(t)
    PROVE  Unevicted
<1> USE CacheConstants, NoneIsNoValue
<1>types. files \in [Uri -> ModuleInfo \cup {None}] /\ arg \in [Thread -> Uri]
  BY DEF TypeOK
<1>1. CASE files' = files
  BY <1>1 DEF Unevicted, HasText
<1>2. ASSUME NEW u \in Uri, NEW info, info # None, files[u] # None,
             files' = [files EXCEPT ![u] = info],
             files[u].source_text # None => info.source_text # None
      PROVE  Unevicted
  BY <1>types, <1>2 DEF Unevicted, HasText
<1>3. CASE EvictTree(t)
  <2>1. ASSUME NEW u \in Uri, files[u] \in ModuleInfo,
               files' = [files EXCEPT ![u] = WithGreen(files[u], None)]
        PROVE  Unevicted
    <3>1. PICK info : info = WithGreen(files[u], None)
      OBVIOUS
    <3>2. info \in ModuleInfo /\ info.source_text = files[u].source_text
      BY <2>1, <3>1, EntryUpdate
    <3>3. info # None /\ files[u] # None
      BY <2>1, <3>2
    <3>4. QED
      BY <2>1, <3>1, <3>2, <3>3, <1>2
  <2>2. QED
    BY <1>1, <1>3, <2>1, EvictTreeEffect
<1>4. CASE StoreGreen(t)
  <2>1. PICK g : g = [text |-> held[t], parser |-> "scss"]
    OBVIOUS
  <2>2. held[t] \in Text
    BY <1>4, StoreGreenEffect
  <2>3. g \in Tree
    BY <2>1, <2>2 DEF Tree
  <2>4. ASSUME files[arg[t]] \in ModuleInfo,
               files' = [files EXCEPT ![arg[t]] = WithGreen(files[arg[t]], g)]
        PROVE  Unevicted
    <3>1. PICK info : info = WithGreen(files[arg[t]], g)
      OBVIOUS
    <3>2. info \in ModuleInfo /\ info.source_text = files[arg[t]].source_text
      BY <2>3, <2>4, <3>1, EntryUpdate
    <3>3. info # None /\ files[arg[t]] # None /\ arg[t] \in Uri
      BY <2>4, <3>2, <1>types
    <3>4. QED
      BY <2>4, <3>1, <3>2, <3>3, <1>2
  <2>5. QED
    BY <1>1, <1>4, <2>1, <2>4, StoreGreenEffect
<1>5. CASE Reconstruct(t)
  <2>1. ASSUME files[arg[t]] \in ModuleInfo, files[arg[t]].green \in Tree,
               files' = [files EXCEPT ![arg[t]] =
                           WithSource(files[arg[t]], files[arg[t]].green.text)]
        PROVE  Unevicted
    <3>1. PICK x : x = files[arg[t]].green.text
      OBVIOUS
    <3>2. PICK info : info = WithSource(files[arg[t]], x)
      OBVIOUS
    <3>3. x \in Text
      BY <2>1, <3>1, EntryFields
    <3>4. info \in ModuleInfo /\ info.source_text = x
      BY <2>1, <3>2, <3>3, EntryUpdate
    <3>5. info # None /\ x # None /\ files[arg[t]] # None /\ arg[t] \in Uri
      BY <2>1, <3>3, <3>4, <1>types
    <3>6. QED
      BY <2>1, <3>1, <3>2, <3>4, <3>5, <1>2
  <2>2. QED
    BY <1>1, <1>5, <2>1, ReconstructEffect
<1>6. QED
  BY <1>1, <1>3, <1>4, <1>5, OtherStepsKeepFiles DEF GetGreen, Locate

\* Every step keeps the texts of the listed files.
LEMMA TextsKept ==
    ASSUME TypeOK, CallOK, Phases, NoDuplicates, Texts, [Next]_vars
    PROVE  Texts'
<1> USE CacheConstants, NoneIsNoValue DEF Goto
<1>types. ListTypes /\ Worker \in Thread
  BY DEF TypeOK, ListTypes, Thread
<1>free. tree_mutex = None =>
         \A s \in Thread : pc[s] = "evict_trees" => kept[s] = <<>>
  BY DEF Phases
<1>empty. ToSet(<<>>) = {}
  BY DEF ToSet
<1>listed. SourceListed \subseteq Uri
  <2>1. ToSet(source_lru) \subseteq Uri /\ ToSet(kept[Worker]) \subseteq Uri
    BY <1>types DEF ToSet, ListTypes
  <2>2. QED
    BY <2>1 DEF SourceListed
<1>1. CASE UNCHANGED vars
  BY <1>1 DEF vars, Texts, SourceListed, HasText
<1>2. ASSUME NEW t \in Thread, TouchTree(t) PROVE Texts'
  <2>1. Unevicted
    BY <1>2, TextsStay
  <2>2. /\ source_lru' = source_lru /\ kept' = kept /\ arg' = arg
        /\ pc' = [pc EXCEPT ![t] = IF t = Worker THEN "touch_source"
                                                 ELSE "evict_trees"]
        /\ pc[t] = "touch_tree" /\ kept[t] = <<>>
        /\ \A s \in Thread : pc'[s] = "evict_trees" => kept[s] = <<>>
    BY <1>2, <1>types, <1>free DEF TouchTree, Phases, ListTypes
  <2>3. SourceListed' = SourceListed
    BY <2>2, <1>types DEF SourceListed, ListTypes
  <2>4. QED
    BY <2>1, <2>2, <2>3, <1>types, <1>empty, <1>listed DEF Texts, Unevicted, HasText, ListTypes
<1>3. ASSUME NEW t \in Thread, TouchSource(t) PROVE Texts'
  <2>1. /\ files' = files /\ kept' = kept /\ arg' = arg
        /\ pc' = [pc EXCEPT ![t] = "evict_trees"]
        /\ pc[t] = "touch_source" /\ kept[t] = <<>> /\ t = Worker
    BY <1>3 DEF TouchSource, Phases
  <2>2. ToSet(source_lru') = ToSet(source_lru) \cup {arg[t]}
    BY <1>3, <1>types, TouchedDistinct DEF TouchSource, NoDuplicates, ListTypes
  <2>3. SourceListed' = SourceListed \cup {arg[t]}
    BY <2>1, <2>2, <1>types DEF SourceListed, ListTypes
  <2>4. HasText(arg[t])
    BY <2>1 DEF Texts
  <2>5. QED
    BY <2>1, <2>3, <2>4, <1>types, <1>empty DEF Texts, HasText, ListTypes
<1>4. ASSUME NEW t \in Thread, EvictTree(t) PROVE Texts'
  <2>1. Unevicted
    BY <1>4, TextsStay
  <2>2. PICK u : u = Last(tree_lru)
    OBVIOUS
  <2>3. /\ source_lru' = source_lru /\ arg' = arg /\ pc' = pc
        /\ pc[t] = "evict_trees"
    BY <1>4 DEF EvictTree
  <2>4. u \in Uri
    BY <2>2, <1>types, <1>4, FrontLastFacts DEF EvictTree, Over, ListTypes
  <2>5. PICK k : k = Append(kept[t], u)
    OBVIOUS
  <2>6. \/ kept' = kept
        \/ /\ kept' = [kept EXCEPT ![t] = k]
           /\ files[u] # None /\ ~HasText(u)
    BY <1>4, <2>2, <2>5 DEF EvictTree, Reparsable, HasText
  <2>7. SourceListed' = SourceListed
    BY <2>3, <2>6, <1>types DEF SourceListed, ListTypes
  <2>8. ToSet(k) = ToSet(kept[t]) \cup {u}
    BY <2>4, <2>5, <1>types, AppendDistinct DEF ListTypes
  <2>9. ASSUME NEW s \in Thread, pc[s] = "evict_trees", NEW v \in ToSet(kept'[s])
        PROVE  v \notin SourceListed /\ ~(pc[Worker] = "touch_source" /\ arg[Worker] = v)
    <3>1. CASE v \in ToSet(kept[s])
      BY <3>1, <2>9 DEF Texts
    <3>2. CASE v \notin ToSet(kept[s])
      <4>1. v = u /\ files[u] # None /\ ~HasText(u)
        <5>1. kept'[s] # kept[s]
          BY <3>2, <2>9
        <5>2. kept' = [kept EXCEPT ![t] = k] /\ files[u] # None /\ ~HasText(u)
          BY <5>1, <2>6
        <5>3. s = t /\ kept'[s] = k
          BY <5>1, <5>2, <1>types DEF ListTypes
        <5>4. v \in ToSet(kept[s]) \cup {u}
          BY <5>3, <2>8, <2>9
        <5>5. QED
          BY <3>2, <5>2, <5>4
      <4>2. QED
        BY <4>1 DEF Texts
    <3>3. QED
      BY <3>1, <3>2
  <2>10. QED
    BY <2>1, <2>3, <2>7, <2>9, <1>types, <1>listed DEF Texts, Unevicted, HasText, ListTypes
<1>5. ASSUME NEW t \in Thread, EvictTreesDone(t) PROVE Texts'
  <2>1. /\ files' = files /\ source_lru' = source_lru /\ arg' = arg
        /\ kept' = [kept EXCEPT ![t] = <<>>] /\ pc[t] = "evict_trees"
        /\ pc' = [pc EXCEPT ![t] = IF t = Worker THEN "evict_sources" ELSE "idle"]
    BY <1>5 DEF EvictTreesDone
  <2>2. SourceListed' = SourceListed
    BY <2>1, <1>types, <1>empty DEF SourceListed, ListTypes
  <2>3. QED
    BY <2>1, <2>2, <1>types DEF Texts, HasText, ListTypes
<1>6. ASSUME NEW t \in Thread, EvictSource(t) PROVE Texts'
  <2>1. PICK u : u = Last(source_lru)
    OBVIOUS
  <2>2. PICK rest : rest = Front(source_lru)
    OBVIOUS
  <2>3. Len(source_lru) > 0 /\ pc[t] = "evict_sources" /\ t = Worker
    BY <1>6, <1>types DEF EvictSource, Over, ListTypes, Phases
  <2>4. /\ u \in ToSet(source_lru) /\ u \in Uri
        /\ ToSet(rest) = ToSet(source_lru) \ {u}
    BY <2>1, <2>2, <2>3, <1>types, PopDistinct, FrontLastFacts
    DEF NoDuplicates, ListTypes
  <2>5. u \notin ToSet(kept[t])
    BY <2>3, <2>4 DEF NoDuplicates, Apart
  <2>6. PICK k : k = Append(kept[t], u)
    OBVIOUS
  <2>7. ToSet(k) = ToSet(kept[t]) \cup {u}
    BY <2>4, <2>6, <1>types, AppendDistinct DEF ListTypes
  <2>8. /\ source_lru' = rest /\ pc' = pc /\ arg' = arg
        /\ \/ kept' = kept
           \/ kept' = [kept EXCEPT ![t] = k] /\ files' = files
    BY <1>6, <2>1, <2>2, <2>6 DEF EvictSource
  <2>9. SourceListed' \subseteq SourceListed
    BY <2>3, <2>4, <2>7, <2>8, <1>types DEF SourceListed, ListTypes
  <2>10. files' = files \/ u \notin SourceListed'
    <3>1. files' # files => kept' = kept
      BY <2>8
    <3>2. QED
      BY <3>1, <2>3, <2>4, <2>5, <2>8 DEF SourceListed
  <2>11. \A v \in Uri : v # u => files'[v] = files[v]
    <3>1. files' = files \/ files' = [files EXCEPT ![u] = WithSource(@, None)]
      BY <1>6, <2>1 DEF EvictSource
    <3>2. files \in [Uri -> ModuleInfo \cup {None}]
      BY DEF TypeOK
    <3>3. QED
      BY <3>1, <3>2
  <2>12. ASSUME NEW v \in SourceListed', files'[v] # None PROVE HasText(v)'
    <3>1. v \in SourceListed /\ v \in Uri /\ files'[v] = files[v]
      BY <2>9, <2>10, <2>11, <2>12, <1>listed
    <3>2. QED
      BY <3>1, <2>12 DEF Texts, HasText
  <2>13. \A s \in Thread : pc'[s] = "evict_trees" =>
            pc[s] = "evict_trees" /\ kept'[s] = kept[s]
    BY <2>3, <2>8, <1>types DEF ListTypes
  <2>14. pc'[Worker] = "evict_sources"
    BY <2>3, <2>8
  <2>15. QED
    BY <2>9, <2>12, <2>13, <2>14 DEF Texts
<1>7. ASSUME NEW t \in Thread, EvictSourcesDone(t) PROVE Texts'
  <2>1. /\ files' = files /\ arg' = arg
        /\ kept' = [kept EXCEPT ![t] = <<>>] /\ pc[t] = "evict_sources"
        /\ pc' = [pc EXCEPT ![t] = "idle"] /\ t = Worker
    BY <1>7 DEF EvictSourcesDone, Phases
  <2>2. ToSet(source_lru') = ToSet(source_lru) \cup ToSet(kept[t])
    BY <1>7, <1>types, ConcatDistinct DEF EvictSourcesDone, ListTypes
  <2>3. SourceListed' = SourceListed
    BY <2>1, <2>2, <1>types DEF SourceListed, ListTypes
  <2>4. QED
    BY <2>1, <2>3, <1>types DEF Texts, HasText, ListTypes
<1>8. ASSUME NEW t \in Thread, ForgetTree(t) PROVE Texts'
  <2>1. /\ files' = files /\ arg' = arg /\ kept' = kept
        /\ source_lru' = source_lru
        /\ pc' = [pc EXCEPT ![t] = "forget_source"] /\ pc[t] = "forget_tree"
    BY <1>8 DEF ForgetTree
  <2>2. SourceListed' = SourceListed
    BY <2>1, <1>types DEF SourceListed, ListTypes
  <2>3. QED
    BY <2>1, <2>2, <1>types DEF Texts, HasText, ListTypes
<1>9. ASSUME NEW t \in Thread, ForgetSource(t) PROVE Texts'
  <2>1. /\ files' = files /\ arg' = arg /\ kept' = kept
        /\ pc' = [pc EXCEPT ![t] = "idle"] /\ pc[t] = "forget_source"
    BY <1>9 DEF ForgetSource
  <2>2. ToSet(source_lru') \subseteq ToSet(source_lru)
    BY <1>9, <1>types, RemoveFirstDistinct DEF ForgetSource, NoDuplicates, ListTypes
  <2>3. SourceListed' \subseteq SourceListed
    BY <2>1, <2>2, <1>types DEF SourceListed, ListTypes
  <2>4. QED
    BY <2>1, <2>3, <1>types DEF Texts, HasText, ListTypes
<1>10. ASSUME NEW t \in Thread, NEW u \in Uri, NEW text \in Text,
              IndexFile(t, u, text)
       PROVE  Texts'
  <2>1. /\ t = Worker /\ kept' = kept /\ source_lru' = source_lru
        /\ arg' = [arg EXCEPT ![t] = u]
        /\ pc' = [pc EXCEPT ![t] = "touch_tree"] /\ pc[t] = "idle"
    BY <1>10 DEF IndexFile
  <2>2. SourceListed' = SourceListed
    BY <2>1, <1>types DEF SourceListed, ListTypes
  <2>3. PICK entry : entry = NewEntry(u, text)
    OBVIOUS
  <2>4. entry.source_text = text /\ entry # None
    BY <2>3 DEF NewEntry, ModuleInfo, Tree, ParserOf
  <2>5. files' = [files EXCEPT ![u] = entry] /\ DOMAIN files = Uri
    BY <1>10, <2>3 DEF IndexFile, TypeOK
  <2>6. HasText(u)' /\ \A v \in Uri \ {u} : files'[v] = files[v]
    BY <2>4, <2>5 DEF HasText
  <2>7. ASSUME NEW v \in SourceListed, files'[v] # None PROVE HasText(v)'
    <3>1. CASE v = u
      BY <3>1, <2>6
    <3>2. CASE v # u
      <4>1. files'[v] = files[v]
        BY <3>2, <2>6, <1>listed
      <4>2. QED
        BY <4>1, <2>7 DEF Texts, HasText
    <3>3. QED
      BY <3>1, <3>2
  <2>8. arg'[Worker] = u /\ pc'[Worker] = "touch_tree"
    BY <2>1, <1>types DEF ListTypes
  <2>9. \A s \in Thread : pc'[s] = "evict_trees" => pc[s] = "evict_trees"
    BY <2>1, <1>types DEF ListTypes
  <2>10. QED
    BY <2>1, <2>2, <2>6, <2>7, <2>8, <2>9 DEF Texts
<1>11. ASSUME NEW t \in Thread, NEW u \in Uri, RemoveFile(t, u) PROVE Texts'
  <2>1. /\ t = Worker /\ kept' = kept /\ source_lru' = source_lru
        /\ pc' = [pc EXCEPT ![t] = "forget_tree"] /\ pc[t] = "idle"
    BY <1>11 DEF RemoveFile
  <2>2. SourceListed' = SourceListed
    BY <2>1, <1>types DEF SourceListed, ListTypes
  <2>3. files' = [files EXCEPT ![u] = None] /\ DOMAIN files = Uri
    BY <1>11 DEF RemoveFile, TypeOK
  <2>4. \A v \in Uri : files'[v] = None \/ files'[v] = files[v]
    BY <2>3
  <2>5. \A v \in SourceListed : files'[v] # None => HasText(v)'
    BY <2>4, <1>listed DEF Texts, HasText
  <2>6. pc'[Worker] = "forget_tree"
    BY <2>1, <1>types DEF ListTypes
  <2>7. \A s \in Thread : pc'[s] = "evict_trees" => pc[s] = "evict_trees"
    BY <2>1, <1>types DEF ListTypes
  <2>8. QED
    BY <2>1, <2>2, <2>5, <2>6, <2>7 DEF Texts
<1>12. ASSUME NEW t \in Thread, GetGreen(t) \/ Locate(t) PROVE Texts'
  <2>1. Unevicted
    BY <1>12, TextsStay
  <2>2. /\ source_lru' = source_lru /\ kept' = kept
        /\ \A s \in Thread : s # t => arg'[s] = arg[s] /\ pc'[s] = pc[s]
        /\ pc'[t] \notin {"evict_sources", "evict_trees", "touch_source"}
        /\ pc[t] \notin {"evict_sources", "evict_trees", "touch_source"}
        /\ t = Worker => pc'[t] # "touch_tree"
    BY <1>12, <1>types DEF ListTypes, CallOK,
       GetGreen, ReadGreenMiss, StoreGreen, ReparsePanics,
       Locate, ReadSymbols, ReadLineIndex, ReadSource, Reconstruct
  <2>3. SourceListed' = SourceListed
    BY <2>2, <1>types DEF SourceListed
  <2>4. \A v \in SourceListed : files'[v] # None => HasText(v)'
    BY <2>1, <1>listed DEF Texts, Unevicted
  <2>5. pc'[Worker] \in {"touch_tree", "touch_source"} => HasText(arg[Worker])'
    BY <2>1, <2>2, <1>types DEF Texts, Unevicted, HasText, ListTypes
  <2>6. \A s \in Thread : pc'[s] = "evict_trees" => s # t /\ pc[s] = "evict_trees"
    BY <2>2
  <2>7. pc'[Worker] = "touch_source" =>
           pc[Worker] = "touch_source" /\ arg'[Worker] = arg[Worker]
    BY <2>2, <1>types
  <2>8. QED
    BY <2>1, <2>2, <2>3, <2>4, <2>5, <2>6, <2>7, <1>types DEF Texts, HasText
<1>13. QED
  BY <1>1, <1>2, <1>3, <1>4, <1>5, <1>6, <1>7, <1>8, <1>9, <1>10, <1>11, <1>12
  DEF Next, Eviction, WorkerCall

Owes(t) == pc[t] \in {"touch_source", "evict_trees"}

\* Unless a thread has touched a list and not evicted trees since, the listed
\* trees that may be dropped are within the limit.
Bound ==
    \/ \E t \in Thread : Owes(t)
    \/ Cardinality(ToSet(tree_lru) \cap SourceListed) <= MaxTrees

\* A finite bounded set stays bounded when it shrinks.
LEMMA BoundedSubset ==
    ASSUME NEW A, NEW B, IsFiniteSet(B), A \subseteq B,
           NEW n \in Nat, Cardinality(B) <= n
    PROVE  Cardinality(A) <= n
<1>1. IsFiniteSet(A) /\ Cardinality(A) <= Cardinality(B)
  BY FS_Subset
<1>2. Cardinality(A) \in Nat /\ Cardinality(B) \in Nat
  BY <1>1, FS_CardinalityType
<1>3. QED
  BY <1>1, <1>2

\* Every step keeps the bound.
LEMMA BoundKept ==
    ASSUME TypeOK, CallOK, Phases, NoDuplicates, Texts, Bound, [Next]_vars
    PROVE  Bound'
<1> USE CacheConstants, NoneIsNoValue DEF Goto
<1>types. ListTypes /\ Worker \in Thread
  BY DEF TypeOK, ListTypes, Thread
<1>1. CASE UNCHANGED vars
  BY <1>1 DEF vars, Bound, Owes, SourceListed
<1>2. ASSUME NEW t \in Thread, TouchTree(t) \/ TouchSource(t) \/ EvictTree(t)
      PROVE  Bound'
  <2>1. pc'[t] \in {"touch_source", "evict_trees"}
    BY <1>2, <1>types DEF TouchTree, TouchSource, EvictTree, ListTypes
  <2>2. QED
    BY <2>1 DEF Bound, Owes
<1>3. ASSUME NEW t \in Thread, EvictTreesDone(t) PROVE Bound'
  <2>1. /\ tree_lru' = tree_lru \o kept[t] /\ source_lru' = source_lru
        /\ kept' = [kept EXCEPT ![t] = <<>>] /\ pc[t] = "evict_trees"
        /\ pc' = [pc EXCEPT ![t] = IF t = Worker THEN "evict_sources" ELSE "idle"]
        /\ ~(Len(tree_lru) > MaxTrees)
    BY <1>3 DEF EvictTreesDone, Over
  <2>2. ToSet(tree_lru') = ToSet(tree_lru) \cup ToSet(kept[t])
    BY <2>1, <1>types, ConcatDistinct DEF ListTypes
  <2>3. SourceListed' = SourceListed
    <3>1. ToSet(<<>>) = {}
      BY DEF ToSet
    <3>2. QED
      BY <2>1, <3>1, <1>types DEF SourceListed, ListTypes
  <2>4. \A u \in ToSet(kept[t]) : u \notin SourceListed
    BY <2>1 DEF Texts
  <2>5. ToSet(tree_lru') \cap SourceListed' \subseteq ToSet(tree_lru)
    BY <2>2, <2>3, <2>4
  <2>6. /\ IsFiniteSet(ToSet(tree_lru))
        /\ Cardinality(ToSet(tree_lru)) \in Nat
        /\ Cardinality(ToSet(tree_lru)) <= Len(tree_lru)
    BY <1>types, ListCardinality DEF ListTypes
  <2>7. Cardinality(ToSet(tree_lru)) <= MaxTrees
    <3>1. Len(tree_lru) \in Nat
      BY <1>types DEF ListTypes
    <3>2. QED
      BY <2>1, <2>6, <3>1
  <2>8. Cardinality(ToSet(tree_lru') \cap SourceListed') <= MaxTrees
    BY <2>5, <2>6, <2>7, BoundedSubset
  <2>9. QED
    BY <2>8 DEF Bound
<1>4. ASSUME ToSet(tree_lru') \subseteq ToSet(tree_lru),
             SourceListed' \subseteq SourceListed,
             \A s \in Thread : Owes(s) => Owes(s)'
      PROVE  Bound'
  <2>1. CASE \E s \in Thread : Owes(s)
    BY <2>1, <1>4 DEF Bound
  <2>2. CASE Cardinality(ToSet(tree_lru) \cap SourceListed) <= MaxTrees
    <3>1. IsFiniteSet(ToSet(tree_lru))
      BY <1>types, ListCardinality DEF ListTypes
    <3>2. IsFiniteSet(ToSet(tree_lru) \cap SourceListed)
      BY <3>1, FS_Intersection
    <3>3. ToSet(tree_lru') \cap SourceListed' \subseteq ToSet(tree_lru) \cap SourceListed
      BY <1>4
    <3>4. Cardinality(ToSet(tree_lru') \cap SourceListed') <= MaxTrees
      BY <2>2, <3>2, <3>3, BoundedSubset
    <3>5. QED
      BY <3>4 DEF Bound
  <2>3. QED
    BY <2>1, <2>2 DEF Bound
<1>5. ASSUME NEW t \in Thread, EvictSource(t) PROVE Bound'
  <2>1. PICK u : u = Last(source_lru)
    OBVIOUS
  <2>2. Len(source_lru) > 0 /\ pc[t] = "evict_sources" /\ t = Worker
    BY <1>5, <1>types DEF EvictSource, Over, ListTypes, Phases
  <2>3. /\ u \in ToSet(source_lru) /\ u \in Uri
        /\ ToSet(Front(source_lru)) = ToSet(source_lru) \ {u}
    BY <2>1, <2>2, <1>types, PopDistinct, FrontLastFacts DEF NoDuplicates, ListTypes
  <2>4. PICK k : k = Append(kept[t], u)
    OBVIOUS
  <2>5. ToSet(k) = ToSet(kept[t]) \cup {u}
    BY <2>3, <2>4, <1>types, AppendDistinct DEF ListTypes
  <2>6. /\ source_lru' = Front(source_lru) /\ pc' = pc /\ tree_lru' = tree_lru
        /\ kept' = kept \/ kept' = [kept EXCEPT ![t] = k]
    BY <1>5, <2>1, <2>4 DEF EvictSource
  <2>7. SourceListed' \subseteq SourceListed
    BY <2>2, <2>3, <2>5, <2>6, <1>types DEF SourceListed, ListTypes
  <2>8. QED
    BY <2>6, <2>7, <1>4 DEF Owes
<1>6. ASSUME NEW t \in Thread, EvictSourcesDone(t) PROVE Bound'
  <2>1. /\ kept' = [kept EXCEPT ![t] = <<>>] /\ pc[t] = "evict_sources"
        /\ pc' = [pc EXCEPT ![t] = "idle"] /\ t = Worker /\ tree_lru' = tree_lru
    BY <1>6 DEF EvictSourcesDone, Phases
  <2>2. ToSet(source_lru') = ToSet(source_lru) \cup ToSet(kept[t])
    BY <1>6, <1>types, ConcatDistinct DEF EvictSourcesDone, ListTypes
  <2>3. SourceListed' = SourceListed
    BY <2>1, <2>2, <1>types DEF SourceListed, ListTypes
  <2>4. \A s \in Thread : Owes(s) => Owes(s)'
    BY <2>1, <1>types DEF Owes, ListTypes
  <2>5. QED
    BY <2>1, <2>3, <2>4, <1>4
<1>7. ASSUME NEW t \in Thread,
             WorkerCall(t) \/ GetGreen(t) \/ Locate(t)
      PROVE  Bound'
  <2>1. /\ kept' = kept
        /\ pc[t] \notin {"evict_sources", "evict_trees", "touch_source"}
        /\ \E step \in Step \ {"evict_sources", "evict_trees", "touch_source"} :
             pc' = [pc EXCEPT ![t] = step]
        /\ tree_lru' = tree_lru \/ ForgetTree(t)
        /\ source_lru' = source_lru \/ ForgetSource(t)
    BY <1>7 DEF WorkerCall, IndexFile, RemoveFile, ForgetTree, ForgetSource,
       GetGreen, ReadGreenMiss, StoreGreen, ReparsePanics,
       Locate, ReadSymbols, ReadLineIndex, ReadSource, Reconstruct, Step
  <2>2. ToSet(tree_lru') \subseteq ToSet(tree_lru)
    BY <2>1, <1>types, RemoveFirstDistinct DEF ForgetTree, NoDuplicates, ListTypes
  <2>3. ToSet(source_lru') \subseteq ToSet(source_lru)
    BY <2>1, <1>types, RemoveFirstDistinct DEF ForgetSource, NoDuplicates, ListTypes
  <2>4. SourceListed' \subseteq SourceListed
    BY <2>1, <2>3, <1>types DEF SourceListed, ListTypes
  <2>5. \A s \in Thread : Owes(s) => Owes(s)'
    BY <2>1, <1>types DEF Owes, ListTypes
  <2>6. QED
    BY <2>2, <2>4, <2>5, <1>4
<1>8. QED
  BY <1>1, <1>2, <1>3, <1>5, <1>6, <1>7 DEF Next, Eviction

\* max_cached_trees bounds the list of trees: between calls it exceeds the
\* limit only by files that are not in the list of sources, for any number of
\* files and threads and any limits.
THEOREM TreeListStaysBounded == Spec => []TreeListBounded
<1> USE CacheConstants, NoneIsNoValue
<1>1. Init => Phases /\ NoDuplicates /\ Texts /\ Bound
  <2> SUFFICES ASSUME Init PROVE Phases /\ NoDuplicates /\ Texts /\ Bound
    OBVIOUS
  <2>1. \A t \in Thread : pc[t] = "idle" /\ kept[t] = <<>>
    BY DEF Init
  <2>2. Worker \in Thread /\ ToSet(<<>>) = {} /\ Distinct(<<>>)
    BY DEF Thread, ToSet, Distinct
  <2>3. SourceListed = {} /\ ToSet(tree_lru) = {}
    BY <2>1, <2>2 DEF Init, SourceListed
  <2>4. Bound
    BY <2>3, FS_EmptySet DEF Bound
  <2>5. Phases /\ NoDuplicates /\ Texts
    BY <2>1, <2>2, <2>3 DEF Init, Phases, NoDuplicates, Texts
  <2>6. QED
    BY <2>4, <2>5
<1>2. TypeOK /\ CallOK /\ Phases /\ NoDuplicates /\ Texts /\ Bound /\ [Next]_vars
        => Phases' /\ NoDuplicates' /\ Texts' /\ Bound'
  BY PhasesKept, NoDuplicatesKept, TextsKept, BoundKept
<1>3. TypeOK /\ NoDuplicates /\ Bound => TreeListBounded
  <2> SUFFICES ASSUME TypeOK, NoDuplicates, Bound, Quiet
               PROVE  Len(tree_lru) <= MaxTrees
                        + Cardinality(ToSet(tree_lru) \ ToSet(source_lru))
    BY DEF TreeListBounded
  <2>1. SourceListed = ToSet(source_lru) /\ \A t \in Thread : ~Owes(t)
    BY DEF Quiet, SourceListed, Owes, Thread
  <2>2. Cardinality(ToSet(tree_lru) \cap ToSet(source_lru)) <= MaxTrees
    BY <2>1 DEF Bound
  <2>3. PICK T, S : T = ToSet(tree_lru) /\ S = ToSet(source_lru)
    OBVIOUS
  <2>4. IsFiniteSet(T) /\ Cardinality(T) = Len(tree_lru) /\ Cardinality(T) \in Nat
    BY <2>3, ListCardinality DEF TypeOK, NoDuplicates
  <2>5. Cardinality(T \ S) = Cardinality(T) - Cardinality(T \cap S)
    BY <2>4, FS_Difference
  <2>6. Cardinality(T \cap S) \in Nat /\ Cardinality(T \cap S) <= MaxTrees
    BY <2>2, <2>3, <2>4, FS_Intersection, FS_CardinalityType
  <2>7. Len(tree_lru) <= MaxTrees + Cardinality(T \ S)
    BY <2>4, <2>5, <2>6
  <2>8. QED
    BY <2>3, <2>7
<1>4. QED
  BY <1>1, <1>2, <1>3, TypeCorrect, PTL DEF Spec
=============================================================================
