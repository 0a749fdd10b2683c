-------------------------- MODULE ConversionProofs --------------------------
(***************************************************************************)
(* Proofs about positions and offsets, for every text: that they are each  *)
(* other's inverses, that whatever the client asks for is a place in the   *)
(* text, and that positions grow with offsets.                             *)
(***************************************************************************)
EXTENDS Conversion, SequencesExt, SequenceTheorems, FiniteSetTheorems,
        WellFoundedInduction, TLAPS

-----------------------------------------------------------------------------
(* Induction.                                                               *)

\* A nonempty set of numbers has a least one.
LEMMA LeastNumber ==
    ASSUME NEW S, S \subseteq Nat, S # {}
    PROVE  \E i \in S : \A j \in S : i <= j
  <1>1. PICK i \in S : \A j \in S : ~(<<j, i>> \in OpToRel(<, Nat))
    BY WFMin, NatLessThanWellFounded
  <1>2. \A j \in S : ~(j < i)
    BY <1>1 DEF OpToRel
  <1> QED
    BY <1>2

\* Induction from 1 to n, for a property given as the set of numbers that have it.
LEMMA Induction ==
    ASSUME NEW n \in Nat, NEW P, n >= 1 => 1 \in P,
           \A k \in 1 .. n - 1 : k \in P => k + 1 \in P
    PROVE  1 .. n \subseteq P
  <1> SUFFICES ASSUME (1 .. n) \ P # {} PROVE FALSE
    OBVIOUS
  <1>1. PICK i \in (1 .. n) \ P : \A j \in (1 .. n) \ P : i <= j
    <2> DEFINE S == (1 .. n) \ P
    <2>1. S \subseteq Nat /\ S # {}
      OBVIOUS
    <2> HIDE DEF S
    <2>2. \E i \in S : \A j \in S : i <= j
      BY <2>1, LeastNumber
    <2> QED
      BY <2>2 DEF S
  <1>2. i # 1
    BY <1>1
  <1>3. i - 1 \in 1 .. n - 1 /\ i - 1 \in P
    BY <1>1, <1>2
  <1> QED
    BY <1>1, <1>3

-----------------------------------------------------------------------------
(* Texts.                                                                   *)

Place == [byte : Nat, unit : Nat, line : BOOLEAN]

-----------------------------------------------------------------------------
(* Least and greatest numbers.                                              *)

LEMMA MinOf ==
    ASSUME NEW S, S \subseteq Nat, S # {}
    PROVE  Min(S) \in S /\ \A i \in S : Min(S) <= i
  <1>1. \E i \in S : \A j \in S : i <= j
    BY LeastNumber
  <1> QED
    BY <1>1 DEF Min

LEMMA MaxOf ==
    ASSUME NEW n \in Nat, NEW S, S \subseteq 1 .. n, S # {}
    PROVE  Max(S) \in S /\ \A i \in S : i <= Max(S)
  <1> DEFINE T == {j \in 0 .. n : n - j \in S}
  <1>1. T \subseteq Nat /\ T # {}
    <2>1. PICK i \in S : i \in 1 .. n
      OBVIOUS
    <2>2. n - i \in 0 .. n /\ n - (n - i) = i
      BY <2>1
    <2>3. n - i \in T
      <3>1. n - (n - i) \in S
        BY <2>1, <2>2
      <3> QED
        BY <2>2, <3>1
    <2>4. T \subseteq Nat
      OBVIOUS
    <2> QED
      BY <2>3, <2>4
  <1>2. PICK j \in T : \A k \in T : j <= k
    <2> HIDE DEF T
    <2> QED
      BY <1>1, LeastNumber
  <1>3. n - j \in S
    BY <1>2
  <1>4. ASSUME NEW i \in S PROVE i <= n - j
    <2>1. i \in 1 .. n
      OBVIOUS
    <2>2. n - i \in 0 .. n /\ n - (n - i) = i
      BY <2>1
    <2>3. j <= n - i
      BY <1>2, <2>2
    <2> QED
      BY <2>1, <2>2, <2>3
  <1>5. \E m \in S : \A i \in S : m >= i
    <2>1. \A i \in S : n - j >= i
      BY <1>4
    <2> QED
      BY <1>3, <2>1
  <1>6. Max(S) \in S /\ \A i \in S : Max(S) >= i
    BY <1>5 DEF Max
  <1> QED
    BY <1>6

-----------------------------------------------------------------------------
(* The places of a text.                                                    *)

Grown(s, c) == Append(s, Past(Last(s), c))

\* f is the recursive function PlacesOf takes its value from: what is folded of
\* the characters at each set of indices.
Folded(chars, D, f) ==
    f = [s \in SUBSET D |-> IF s = {} THEN <<Origin>>
                            ELSE Grown(f[s \ {Max(s)}], chars[Max(s)])]

LEMMA PlacesFolded ==
    ASSUME NEW chars
    PROVE  PlacesOf(chars) = (CHOOSE f : Folded(chars, DOMAIN chars, f))[DOMAIN chars]
  BY DEF PlacesOf, PlacesFrom, FoldLeft, MapThenFoldSet, Folded, Grown

LEMMA FoldMeans ==
    ASSUME NEW chars, NEW D, NEW f
    PROVE  Folded(chars, D, f) <=>
              /\ f = [s \in SUBSET D |-> f[s]]
              /\ f[{}] = <<Origin>>
              /\ \A s \in SUBSET D :
                    s # {} => f[s] = Grown(f[s \ {Max(s)}], chars[Max(s)])
  <1> DEFINE Body(s) == IF s = {} THEN <<Origin>>
                        ELSE Grown(f[s \ {Max(s)}], chars[Max(s)])
  <1>1. Body({}) = <<Origin>>
    OBVIOUS
  <1>2. ASSUME NEW s, s # {} PROVE Body(s) = Grown(f[s \ {Max(s)}], chars[Max(s)])
    BY <1>2, Zenon
  <1>3. {} \in SUBSET D
    OBVIOUS
  <1>4. Folded(chars, D, f) <=> f = [s \in SUBSET D |-> Body(s)]
    BY DEF Folded
  <1> HIDE DEF Body
  <1>5. f = [s \in SUBSET D |-> Body(s)] <=>
           f = [s \in SUBSET D |-> f[s]] /\ \A s \in SUBSET D : f[s] = Body(s)
    BY Zenon
  <1>6. (\A s \in SUBSET D : f[s] = Body(s)) <=>
           /\ f[{}] = <<Origin>>
           /\ \A s \in SUBSET D :
                 s # {} => f[s] = Grown(f[s \ {Max(s)}], chars[Max(s)])
    BY <1>1, <1>2, <1>3, Zenon
  <1> QED
    BY <1>4, <1>5, <1>6, Zenon

\* There is such a function: by induction.
LEMMA FoldExists ==
    ASSUME NEW chars, NEW n \in Nat
    PROVE  \E f : Folded(chars, 1 .. n, f)
  <1> DEFINE P == {k \in 1 .. n + 1 : \E f : Folded(chars, 1 .. k - 1, f)}
  <1>1. 1 \in P
    <2> DEFINE f == [s \in SUBSET {} |-> <<Origin>>]
    <2>1. 1 .. 1 - 1 = {}
      OBVIOUS
    <2>2. f = [s \in SUBSET {} |-> f[s]] /\ f[{}] = <<Origin>> /\ \A s \in SUBSET {} : s = {}
      OBVIOUS
    <2> HIDE DEF f
    <2>3. Folded(chars, {}, f)
      BY <2>2, FoldMeans, Zenon
    <2>4. 1 \in 1 .. n + 1
      OBVIOUS
    <2> QED
      BY <2>1, <2>3, <2>4
  <1>2. ASSUME NEW k \in 1 .. (n + 1) - 1, k \in P PROVE k + 1 \in P
    <2>1. PICK f : Folded(chars, 1 .. k - 1, f)
      BY <1>2
    <2>2. /\ f[{}] = <<Origin>>
          /\ \A s \in SUBSET (1 .. k - 1) :
                s # {} => f[s] = Grown(f[s \ {Max(s)}], chars[Max(s)])
      BY <2>1, FoldMeans, Zenon
    <2> DEFINE Value(s) == IF k \in s THEN Grown(f[s \ {k}], chars[k]) ELSE f[s]
               g == [s \in SUBSET (1 .. k) |-> Value(s)]
    <2>3. \A s \in SUBSET (1 .. k) : g[s] = Value(s)
      OBVIOUS
    <2>4. g = [s \in SUBSET (1 .. k) |-> g[s]]
      BY Zenon
    <2>5. /\ \A s \in SUBSET (1 .. k) : k \notin s => g[s] = f[s] /\ s \in SUBSET (1 .. k - 1)
          /\ \A s \in SUBSET (1 .. k) : k \in s => g[s] = Grown(f[s \ {k}], chars[k])
      <3>1. \A s \in SUBSET (1 .. k) : k \notin s => s \in SUBSET (1 .. k - 1)
        OBVIOUS
      <3> QED
        BY <2>3, <3>1, Zenon
    <2> HIDE DEF Value, g
    <2>6. g[{}] = <<Origin>>
      BY <2>2, <2>5, Zenon
    <2>7. ASSUME NEW s \in SUBSET (1 .. k), s # {}
          PROVE  g[s] = Grown(g[s \ {Max(s)}], chars[Max(s)])
      <3>0. k \in Nat /\ s \subseteq 1 .. k
        OBVIOUS
      <3>1. Max(s) \in s /\ \A i \in s : i <= Max(s)
        BY <2>7, <3>0, MaxOf
      <3>2. s \ {Max(s)} \in SUBSET (1 .. k) /\ k \notin s \ {Max(s)}
        <4>1. k \in s => k <= Max(s) /\ Max(s) \in 1 .. k
          BY <3>0, <3>1
        <4>2. k \in s => k = Max(s)
          BY <4>1
        <4> QED
          BY <4>2
      <3>3. g[s \ {Max(s)}] = f[s \ {Max(s)}]
        BY <2>5, <3>2, Zenon
      <3>4. CASE k \in s
        <4>1. Max(s) = k
          BY <3>2, <3>4
        <4> QED
          BY <2>5, <3>3, <3>4, <4>1, Zenon
      <3>5. CASE k \notin s
        BY <2>2, <2>5, <2>7, <3>3, <3>5, Zenon
      <3> QED
        BY <3>4, <3>5
    <2>8. Folded(chars, 1 .. k, g)
      BY <2>4, <2>6, <2>7, FoldMeans, Zenon
    <2>9. k + 1 \in 1 .. n + 1 /\ (k + 1) - 1 = k
      OBVIOUS
    <2> QED
      BY <2>8, <2>9
  <1> HIDE DEF P
  <1>3. 1 .. n + 1 \subseteq P
    BY <1>1, <1>2, Induction
  <1>4. n + 1 \in P /\ (n + 1) - 1 = n
    BY <1>3
  <1> QED
    BY <1>4 DEF P

LEMMA PlaceAfter ==
    ASSUME NEW p \in Place, NEW c \in Characters
    PROVE  /\ Past(p, c) \in Place
           /\ Past(p, c).byte > p.byte /\ Past(p, c).unit > p.unit
           /\ Past(p, c).line => Past(p, c).byte = p.byte + 1
  <1>1. /\ c.bytes \in Nat /\ c.bytes >= 1 /\ c.units \in Nat /\ c.units >= 1
        /\ c.newline \in BOOLEAN /\ (c.newline => c.bytes = 1)
    BY DEF Characters, LineFeed
  <1>2. p.byte \in Nat /\ p.unit \in Nat
    BY DEF Place
  <1> QED
    BY <1>1, <1>2 DEF Past, Place

\* The places of a text begin at its origin and follow each other.
LEMMA PlacesFollow ==
    ASSUME NEW chars \in Seq(Characters)
    PROVE  /\ PlacesOf(chars) \in Seq(Place)
           /\ Len(PlacesOf(chars)) = Len(chars) + 1
           /\ PlacesOf(chars)[1] = Origin
           /\ \A i \in 1 .. Len(chars) :
                 PlacesOf(chars)[i + 1] = Past(PlacesOf(chars)[i], chars[i])
  <1> DEFINE n == Len(chars)
             f == CHOOSE f : Folded(chars, 1 .. n, f)
             at(k) == f[1 .. k]
             Good(k) == /\ at(k) \in Seq(Place) /\ Len(at(k)) = k + 1
                        /\ at(k)[1] = Origin
                        /\ \A i \in 1 .. k : at(k)[i + 1] = Past(at(k)[i], chars[i])
  <1>1. n \in Nat /\ DOMAIN chars = 1 .. n /\ \A i \in 1 .. n : chars[i] \in Characters
    OBVIOUS
  <1>2. Folded(chars, 1 .. n, f)
    BY <1>1, FoldExists
  <1>3. PlacesOf(chars) = at(n)
    BY <1>1, PlacesFolded
  <1> HIDE DEF n, f
  <1>4. at(0) = <<Origin>>
    <2>1. 1 .. 0 = {}
      OBVIOUS
    <2> QED
      BY <1>2, <2>1, FoldMeans, Zenon
  <1>5. ASSUME NEW k \in 1 .. n
        PROVE  at(k) = Grown(at(k - 1), chars[k])
    <2>1. 1 .. k \in SUBSET (1 .. n) /\ 1 .. k # {} /\ k \in Nat
      BY <1>1
    <2>2. Max(1 .. k) \in 1 .. k /\ k <= Max(1 .. k)
      <3>1. k \in 1 .. k /\ 1 .. k \subseteq 1 .. k
        BY <2>1
      <3> QED
        BY <2>1, <3>1, MaxOf
    <2>3. Max(1 .. k) = k
      BY <2>1, <2>2
    <2>4. (1 .. k) \ {k} = 1 .. k - 1
      BY <2>1
    <2> QED
      BY <1>2, <2>1, <2>3, <2>4, FoldMeans, Zenon
  <1> HIDE DEF at
  <1> DEFINE P == {k \in 1 .. n + 1 : Good(k - 1)}
  <1>6. 1 \in P
    <2>1. Origin \in Place
      BY DEF Origin, Place
    <2>2. /\ <<Origin>> \in Seq(Place) /\ Len(<<Origin>>) = 0 + 1 /\ <<Origin>>[1] = Origin
          /\ \A i \in 1 .. 0 : FALSE
      BY <2>1
    <2>3. Good(1 - 1)
      <3>1. 1 - 1 = 0
        OBVIOUS
      <3>2. Good(0)
        BY <1>4, <2>2, Zenon
      <3> QED
        BY <3>1, <3>2, Zenon
    <2> QED
      BY <1>1, <2>3
  <1>7. ASSUME NEW k \in 1 .. (n + 1) - 1, k \in P PROVE k + 1 \in P
    <2>0. k \in 1 .. n /\ k \in Nat /\ k - 1 \in Nat /\ (k + 1) - 1 = k /\ (k - 1) + 1 = k
      BY <1>1
    <2>1. Good(k - 1)
      BY <1>7
    <2> DEFINE s == at(k - 1)
               p == Past(Last(s), chars[k])
    <2>2. s \in Seq(Place) /\ Len(s) = k /\ s # <<>> /\ s[1] = Origin
          /\ \A i \in 1 .. k - 1 : s[i + 1] = Past(s[i], chars[i])
      <3>1. s \in Seq(Place) /\ Len(s) = k
        BY <2>0, <2>1
      <3>2. s # <<>>
        BY <2>0, <3>1
      <3> QED
        BY <2>1, <3>1, <3>2
    <2>3. at(k) = Append(s, p)
      BY <1>5, <2>0 DEF Grown
    <2> HIDE DEF s
    <2>4. Last(s) = s[k] /\ s[k] \in Place
      BY <2>0, <2>2 DEF Last
    <2>5. p \in Place /\ p = Past(s[k], chars[k])
      BY <1>1, <2>0, <2>4, PlaceAfter
    <2> HIDE DEF p
    <2>6. /\ at(k) \in Seq(Place) /\ Len(at(k)) = k + 1
          /\ \A i \in 1 .. k : at(k)[i] = s[i]
          /\ at(k)[k + 1] = p
      BY <2>0, <2>2, <2>3, <2>5, AppendProperties
    <2>7. at(k)[1] = Origin
      BY <2>0, <2>2, <2>6
    <2>8. ASSUME NEW i \in 1 .. k PROVE at(k)[i + 1] = Past(at(k)[i], chars[i])
      <3>1. CASE i = k
        BY <2>0, <2>5, <2>6, <3>1
      <3>2. CASE i \in 1 .. k - 1
        <4>1. i + 1 \in 1 .. k /\ i \in 1 .. k
          BY <2>0, <3>2
        <4> QED
          BY <2>2, <2>6, <3>2, <4>1
      <3> QED
        BY <2>0, <3>1, <3>2
    <2>9. Good(k)
      BY <2>6, <2>7, <2>8
    <2>10. k + 1 \in 1 .. n + 1
      BY <1>1, <2>0
    <2> QED
      BY <2>0, <2>9, <2>10
  <1> HIDE DEF P
  <1>8. 1 .. n + 1 \subseteq P
    BY <1>1, <1>6, <1>7, Induction
  <1>9. Good(n)
    <2>1. n + 1 \in P /\ (n + 1) - 1 = n
      BY <1>1, <1>8
    <2> QED
      BY <2>1 DEF P
  <1> QED
    BY <1>3, <1>9 DEF n

\* Bytes and units grow from place to place.
LEMMA PlacesGrow ==
    ASSUME NEW chars \in Seq(Characters)
    PROVE  LET P == PlacesOf(chars) IN
           \A j \in 1 .. Len(P) : \A i \in 1 .. j - 1 :
               P[i].byte < P[j].byte /\ P[i].unit < P[j].unit
  <1> DEFINE P == PlacesOf(chars)
             n == Len(chars)
             Ahead(j) == \A i \in 1 .. j - 1 : P[i].byte < P[j].byte /\ P[i].unit < P[j].unit
             Q == {j \in 1 .. n + 1 : Ahead(j)}
  <1>1. /\ n \in Nat /\ Len(P) = n + 1 /\ \A i \in 1 .. n : chars[i] \in Characters
        /\ \A i \in 1 .. n + 1 : P[i] \in Place
        /\ \A i \in 1 .. n : P[i + 1] = Past(P[i], chars[i])
    <2>1. P \in Seq(Place) /\ Len(P) = n + 1 /\ n \in Nat
      BY PlacesFollow
    <2>2. \A i \in 1 .. n : P[i + 1] = Past(P[i], chars[i])
      BY PlacesFollow
    <2> QED
      BY <2>1, <2>2
  <1> HIDE DEF P, n
  <1>2. 1 \in Q
    BY <1>1
  <1>3. ASSUME NEW k \in 1 .. (n + 1) - 1, k \in Q PROVE k + 1 \in Q
    <2>1. k \in 1 .. n /\ k \in 1 .. n + 1 /\ k + 1 \in 1 .. n + 1 /\ (k + 1) - 1 = k
      BY <1>1
    <2>2. P[k].byte < P[k + 1].byte /\ P[k].unit < P[k + 1].unit
      BY <1>1, <2>1, PlaceAfter
    <2>3. ASSUME NEW i \in 1 .. k
          PROVE  P[i].byte < P[k + 1].byte /\ P[i].unit < P[k + 1].unit
      <3>1. CASE i = k
        BY <2>2, <3>1
      <3>2. CASE i \in 1 .. k - 1
        <4>1. P[i].byte < P[k].byte /\ P[i].unit < P[k].unit
          BY <1>3, <3>2
        <4>2. i \in 1 .. n + 1
          BY <1>1, <2>1, <3>2
        <4>3. /\ P[i].byte \in Nat /\ P[k].byte \in Nat /\ P[k + 1].byte \in Nat
              /\ P[i].unit \in Nat /\ P[k].unit \in Nat /\ P[k + 1].unit \in Nat
          BY <1>1, <2>1, <4>2 DEF Place
        <4> QED
          BY <2>2, <4>1, <4>3
      <3> QED
        BY <2>1, <3>1, <3>2
    <2> QED
      BY <2>1, <2>3
  <1> HIDE DEF Q
  <1>4. 1 .. n + 1 \subseteq Q
    <2>1. n + 1 \in Nat
      BY <1>1
    <2> QED
      BY <2>1, <1>2, <1>3, Induction
  <1> QED
    BY <1>1, <1>4 DEF Q, P

\* What the conversions need to know of the places of a text and of its end.
WellPlaced(in, end) ==
    /\ in \subseteq Place
    /\ Origin \in in
    /\ \A p \in in : \A q \in in : p.byte = q.byte => p = q
    /\ \A p \in in : \A q \in in : p.byte < q.byte => p.unit < q.unit
    /\ \A p \in in : p.byte <= end
    /\ \E p \in in : p.byte = end
    /\ \A p \in in : p.line => p = Origin \/ \E q \in in : q.byte = p.byte - 1

LEMMA TextWellPlaced ==
    ASSUME NEW chars \in Seq(Characters)
    PROVE  WellPlaced(Range(PlacesOf(chars)), Last(PlacesOf(chars)).byte)
  <1> DEFINE P == PlacesOf(chars)
             n == Len(chars)
             in == Range(P)
  <1>1. n \in Nat /\ \A i \in 1 .. n : chars[i] \in Characters
    OBVIOUS
  <1>2. P \in Seq(Place) /\ Len(P) = n + 1 /\ P[1] = Origin
    BY PlacesFollow
  <1>3. \A i \in 1 .. n : P[i + 1] = Past(P[i], chars[i])
    BY PlacesFollow
  <1>4. \A j \in 1 .. n + 1 : \A i \in 1 .. j - 1 :
            P[i].byte < P[j].byte /\ P[i].unit < P[j].unit
    BY <1>2, PlacesGrow
  <1> HIDE DEF P, n
  <1>5. in = {P[i] : i \in 1 .. n + 1} /\ \A i \in 1 .. n + 1 : P[i] \in Place
    BY <1>1, <1>2 DEF Range
  <1>6. Last(P) = P[n + 1]
    BY <1>2 DEF Last
  <1> HIDE DEF in
  <1>7. \A i \in 1 .. n + 1 : P[i].byte \in Nat /\ P[i].unit \in Nat
    BY <1>5 DEF Place
  <1>8. \A i \in 1 .. n + 1 : \A j \in 1 .. n + 1 :
            /\ i < j => P[i].byte < P[j].byte /\ P[i].unit < P[j].unit
            /\ i = j \/ i < j \/ j < i
    BY <1>1, <1>4
  <1>9. ASSUME NEW p \in in, NEW q \in in
        PROVE  /\ p.byte = q.byte => p = q
               /\ p.byte < q.byte => p.unit < q.unit
    <2>1. PICK i \in 1 .. n + 1 : p = P[i]
      BY <1>5
    <2>2. PICK j \in 1 .. n + 1 : q = P[j]
      BY <1>5
    <2>3. CASE i = j
      BY <1>7, <2>1, <2>2, <2>3
    <2>4. CASE i < j
      BY <1>7, <1>8, <2>1, <2>2, <2>4
    <2>5. CASE j < i
      BY <1>7, <1>8, <2>1, <2>2, <2>5
    <2> QED
      BY <1>8, <2>3, <2>4, <2>5
  <1>10. ASSUME NEW p \in in PROVE p.byte <= P[n + 1].byte
    <2>1. PICK i \in 1 .. n + 1 : p = P[i]
      BY <1>5
    <2>2. i = n + 1 \/ i < n + 1
      BY <1>1
    <2>3. n + 1 \in 1 .. n + 1
      BY <1>1
    <2> QED
      BY <1>7, <1>8, <2>1, <2>2, <2>3
  <1>11. Origin \in in /\ P[n + 1] \in in
    <2>1. 1 \in 1 .. n + 1 /\ n + 1 \in 1 .. n + 1
      BY <1>1
    <2> QED
      BY <1>2, <1>5, <2>1
  <1>12. ASSUME NEW p \in in, p.line
         PROVE  p = Origin \/ \E q \in in : q.byte = p.byte - 1
    <2>1. PICK i \in 1 .. n + 1 : p = P[i]
      BY <1>5
    <2>2. CASE i = 1
      BY <1>2, <2>1, <2>2
    <2>3. CASE i # 1
      <3>1. i - 1 \in 1 .. n /\ i - 1 \in 1 .. n + 1 /\ (i - 1) + 1 = i
        BY <1>1, <2>3
      <3>2. p = Past(P[i - 1], chars[i - 1])
        BY <1>3, <2>1, <3>1
      <3>3. p.byte = P[i - 1].byte + 1
        BY <1>1, <1>5, <1>12, <3>1, <3>2, PlaceAfter
      <3>4. P[i - 1] \in in /\ P[i - 1].byte \in Nat
        BY <1>5, <1>7, <3>1
      <3> QED
        BY <3>3, <3>4
    <2> QED
      BY <2>2, <2>3
  <1>13. in \subseteq Place
    BY <1>5
  <1> QED
    BY <1>6, <1>9, <1>10, <1>11, <1>12, <1>13 DEF WellPlaced, in, P

-----------------------------------------------------------------------------
(* Lines.                                                                   *)

Upto(lines, o) == {s \in lines : s <= o}

LEMMA UptoFinite ==
    ASSUME NEW end \in Nat, NEW lines, lines \subseteq 0 .. end, NEW o \in Nat
    PROVE  /\ IsFiniteSet(lines) /\ IsFiniteSet(Upto(lines, o))
           /\ Cardinality(lines) \in Nat /\ Cardinality(Upto(lines, o)) \in Nat
           /\ Cardinality(Upto(lines, o)) <= Cardinality(lines)
           /\ LineOf(lines, o) = Cardinality(Upto(lines, o)) - 1
  <1>1. IsFiniteSet(0 .. end)
    BY FS_Interval
  <1>2. IsFiniteSet(lines)
    BY <1>1, FS_Subset
  <1>3. Upto(lines, o) \subseteq lines
    BY DEF Upto
  <1>4. IsFiniteSet(Upto(lines, o)) /\ Cardinality(Upto(lines, o)) <= Cardinality(lines)
    BY <1>2, <1>3, FS_Subset
  <1>5. LineOf(lines, o) = Cardinality(Upto(lines, o)) - 1
    BY DEF LineOf, Upto
  <1> QED
    BY <1>2, <1>4, <1>5, FS_CardinalityType

\* A later offset is in the same line or a later one; in a later one if a line
\* begins there.
LEMMA LinesGrow ==
    ASSUME NEW end \in Nat, NEW lines, lines \subseteq 0 .. end, 0 \in lines,
           NEW a \in Nat, NEW b \in Nat
    PROVE  /\ LineOf(lines, a) \in Nat
           /\ LineOf(lines, a) < Cardinality(lines)
           /\ a <= b => LineOf(lines, a) <= LineOf(lines, b)
           /\ a < b /\ b \in lines => LineOf(lines, a) < LineOf(lines, b)
  <1> DEFINE A == Upto(lines, a)
             B == Upto(lines, b)
  <1>1. /\ IsFiniteSet(A) /\ IsFiniteSet(B)
        /\ Cardinality(A) \in Nat /\ Cardinality(B) \in Nat /\ Cardinality(lines) \in Nat
        /\ LineOf(lines, a) = Cardinality(A) - 1 /\ LineOf(lines, b) = Cardinality(B) - 1
        /\ Cardinality(A) <= Cardinality(lines)
    BY UptoFinite
  <1>2. 0 \in A
    BY DEF Upto
  <1>3. Cardinality(A) # 0
    BY <1>1, <1>2, FS_EmptySet
  <1>0. \A s \in lines : s \in Nat
    OBVIOUS
  <1>4. a <= b => A \subseteq B
    <2> SUFFICES ASSUME a <= b, NEW s \in lines, s <= a PROVE s <= b
      BY DEF Upto
    <2> QED
      BY <1>0
  <1>5. a <= b => Cardinality(A) <= Cardinality(B)
    BY <1>1, <1>4, FS_Subset
  <1>6. a < b /\ b \in lines => Cardinality(A) < Cardinality(B)
    <2> SUFFICES ASSUME a < b, b \in lines PROVE Cardinality(A) < Cardinality(B)
      OBVIOUS
    <2>1. A \subseteq B
      BY <1>4
    <2>2. b <= b /\ ~(b <= a)
      OBVIOUS
    <2>3. b \in B /\ b \notin A
      BY <2>2 DEF Upto
    <2> QED
      BY <1>1, <2>1, <2>3, FS_Subset
  <1> HIDE DEF A, B
  <1> QED
    BY <1>1, <1>3, <1>5, <1>6

\* Every number below that of the lines is that of a line.
LEMMA LineExists ==
    ASSUME NEW end \in Nat, NEW lines, lines \subseteq 0 .. end, 0 \in lines,
           NEW l \in Nat, l < Cardinality(lines)
    PROVE  \E s \in lines : LineOf(lines, s) = l
  <1> DEFINE c == Cardinality(lines)
             Q == {k \in 1 .. c : \E s \in lines : LineOf(lines, s) = k - 1}
  <1>1. c \in Nat /\ c >= 1 /\ \A s \in lines : s \in Nat
    <2>1. c \in Nat
      BY UptoFinite
    <2> HIDE DEF c
    <2>2. l < c
      BY DEF c
    <2> QED
      BY <2>1, <2>2
  <1>2. 1 \in Q
    <2>1. Upto(lines, 0) = {0}
      <3>1. \A s \in lines : s <= 0 <=> s = 0
        BY <1>1
      <3> QED
        BY <3>1 DEF Upto
    <2>2. LineOf(lines, 0) = Cardinality(Upto(lines, 0)) - 1
      BY UptoFinite
    <2>3. Cardinality({0}) = 1
      BY FS_Singleton
    <2>4. LineOf(lines, 0) = 1 - 1
      BY <2>1, <2>2, <2>3
    <2> QED
      BY <1>1, <2>4
  <1>3. ASSUME NEW k \in 1 .. c - 1, k \in Q PROVE k + 1 \in Q
    <2>1. PICK s \in lines : LineOf(lines, s) = k - 1
      BY <1>3
    <2> DEFINE later == {t \in lines : s < t}
    <2>2. later # {}
      <3> SUFFICES ASSUME later = {} PROVE FALSE
        OBVIOUS
      <3>1. \A t \in lines : t <= s
        BY <1>1
      <3>2. Upto(lines, s) = lines
        BY <3>1 DEF Upto
      <3>3. LineOf(lines, s) = Cardinality(Upto(lines, s)) - 1
        BY <1>1, UptoFinite
      <3>4. k - 1 = c - 1
        BY <2>1, <3>2, <3>3
      <3> HIDE DEF c
      <3> QED
        BY <1>1, <3>4
    <2>3. PICK t \in later : \A u \in later : t <= u
      <3>1. later \subseteq Nat
        BY <1>1
      <3> HIDE DEF later
      <3> QED
        BY <2>2, <3>1, LeastNumber
    <2>4. t \in lines /\ s < t
      OBVIOUS
    <2>5. Upto(lines, t) = Upto(lines, s) \cup {t} /\ t \notin Upto(lines, s)
      <3>1. \A u \in lines : u <= t => u <= s \/ u = t
        <4> SUFFICES ASSUME NEW u \in lines, u <= t, ~(u <= s) PROVE u = t
          OBVIOUS
        <4>1. u \in later
          BY <1>1
        <4>2. t <= u
          BY <2>3, <4>1
        <4> QED
          BY <1>1, <2>4, <4>2
      <3>2. \A u \in lines : u <= s => u <= t
        BY <1>1, <2>4
      <3>3. t <= t /\ ~(t <= s)
        BY <1>1, <2>4
      <3> HIDE DEF later
      <3> QED
        BY <2>4, <3>1, <3>2, <3>3 DEF Upto
    <2> HIDE DEF later, c
    <2>6. Cardinality(Upto(lines, t)) = Cardinality(Upto(lines, s)) + 1
      <3>1. IsFiniteSet(Upto(lines, s))
        BY <1>1, UptoFinite
      <3> QED
        BY <2>5, <3>1, FS_AddElement
    <2>7. /\ LineOf(lines, s) = Cardinality(Upto(lines, s)) - 1
          /\ LineOf(lines, t) = Cardinality(Upto(lines, t)) - 1
          /\ Cardinality(Upto(lines, s)) \in Nat
      BY <1>1, <2>4, UptoFinite
    <2>8. LineOf(lines, t) = (k + 1) - 1 /\ k + 1 \in 1 .. c
      BY <1>1, <2>1, <2>6, <2>7
    <2> QED
      BY <2>4, <2>8
  <1> HIDE DEF Q, c
  <1>4. 1 .. c \subseteq Q
    BY <1>1, <1>2, <1>3, Induction
  <1>5. l + 1 \in 1 .. c /\ (l + 1) - 1 = l
    BY <1>1 DEF c
  <1> QED
    BY <1>4, <1>5 DEF Q

LEMMA LineBegins ==
    ASSUME NEW end \in Nat, NEW lines, lines \subseteq 0 .. end, 0 \in lines,
           NEW l \in Nat, l < Cardinality(lines)
    PROVE  LineBegin(lines, l) \in lines /\ LineOf(lines, LineBegin(lines, l)) = l
  BY LineExists DEF LineBegin

-----------------------------------------------------------------------------
(* Conversion.                                                              *)

LEMMA Lines ==
    ASSUME NEW in, NEW end, WellPlaced(in, end)
    PROVE  /\ end \in Nat /\ LineIndex(in) \subseteq 0 .. end /\ 0 \in LineIndex(in)
           /\ \A p \in in : /\ p.byte \in 0 .. end /\ p.unit \in Nat
                            /\ UnitAt(in, p.byte) = p.unit
           /\ \A s \in LineIndex(in) : /\ \E p \in in : p.byte = s
                                       /\ s # 0 => \E q \in in : q.byte = s - 1
  <1>1. \A p \in in : p.byte \in Nat /\ p.unit \in Nat /\ p.byte <= end
    BY DEF WellPlaced, Place
  <1>2. end \in Nat
    BY <1>1 DEF WellPlaced
  <1>3. \A p \in in : p.byte \in 0 .. end
    BY <1>1, <1>2
  <1>4. ASSUME NEW p \in in PROVE UnitAt(in, p.byte) = p.unit
    <2>1. p = CHOOSE q \in in : q.byte = p.byte
      BY DEF WellPlaced
    <2> QED
      BY <2>1 DEF UnitAt
  <1>5. 0 \in LineIndex(in)
    <2>1. Origin \in in /\ Origin.line /\ Origin.byte = 0
      BY DEF WellPlaced, Origin
    <2> QED
      BY <2>1 DEF LineIndex
  <1>6. ASSUME NEW s \in LineIndex(in)
        PROVE  /\ s \in 0 .. end /\ \E p \in in : p.byte = s
               /\ s # 0 => \E q \in in : q.byte = s - 1
    <2>1. PICK p \in in : p.line /\ p.byte = s
      BY DEF LineIndex
    <2>2. p = Origin \/ \E q \in in : q.byte = p.byte - 1
      BY <2>1 DEF WellPlaced
    <2> QED
      BY <1>3, <2>1, <2>2 DEF Origin
  <1> QED
    BY <1>1, <1>2, <1>3, <1>4, <1>5, <1>6

\* A line's begin comes before every offset in it.
LEMMA LineOfOffset ==
    ASSUME NEW end \in Nat, NEW lines, lines \subseteq 0 .. end, 0 \in lines,
           NEW o \in Nat
    PROVE  /\ LineBegin(lines, LineOf(lines, o)) \in lines
           /\ LineBegin(lines, LineOf(lines, o)) \in Nat
           /\ LineBegin(lines, LineOf(lines, o)) <= o
  <1> DEFINE l == LineOf(lines, o)
             b == LineBegin(lines, l)
  <1>1. l \in Nat /\ l < Cardinality(lines)
    BY LinesGrow
  <1>2. b \in lines /\ LineOf(lines, b) = l
    BY <1>1, LineBegins
  <1>3. b \in Nat
    <2> HIDE DEF b
    <2> QED
      BY <1>2
  <1>4. o < b => l < LineOf(lines, b)
    BY <1>2, <1>3, LinesGrow
  <1> HIDE DEF b, l
  <1>5. ~(o < b)
    BY <1>1, <1>2, <1>4
  <1> QED
    BY <1>2, <1>3, <1>5 DEF b, l

\* The end of a line, as lsp_position_to_offset has it.
Stop(lines, end, l) ==
    IF l + 1 < Cardinality(lines) THEN LineBegin(lines, l + 1) - 1 ELSE end

\* It is a place of that line, and none of the line comes after it.
LEMMA LineStops ==
    ASSUME NEW in, NEW end, WellPlaced(in, end),
           NEW l \in Nat, l < Cardinality(LineIndex(in))
    PROVE  LET lines == LineIndex(in)
               stop == Stop(lines, end, l)
           IN  /\ \E p \in in : p.byte = stop
               /\ LineOf(lines, stop) = l
               /\ \A p \in in : LineOf(lines, p.byte) = l => p.byte <= stop
  <1> DEFINE lines == LineIndex(in)
             stop == Stop(lines, end, l)
  <1>1. /\ end \in Nat /\ lines \subseteq 0 .. end /\ 0 \in lines
        /\ \A p \in in : p.byte \in 0 .. end
        /\ \A s \in lines : s # 0 => \E q \in in : q.byte = s - 1
    BY Lines
  <1>2. Cardinality(lines) \in Nat
    BY <1>1, UptoFinite
  <1>3. CASE l + 1 < Cardinality(lines)
    <2> DEFINE t == LineBegin(lines, l + 1)
    <2>1. t \in lines /\ LineOf(lines, t) = l + 1
      BY <1>1, <1>3, LineBegins
    <2>2. stop = t - 1
      BY <1>3 DEF Stop
    <2> HIDE DEF t, stop, lines
    <2>3. t \in Nat
      BY <1>1, <2>1
    <2>4. t # 0
      <3>1. LineOf(lines, 0) = 0
        <4>1. Upto(lines, 0) = {0}
          <5>1. \A s \in lines : s <= 0 <=> s = 0
            BY <1>1
          <5> QED
            BY <1>1, <5>1 DEF Upto
        <4>2. LineOf(lines, 0) = Cardinality(Upto(lines, 0)) - 1
          BY <1>1, UptoFinite
        <4>3. Cardinality({0}) = 1
          BY FS_Singleton
        <4> QED
          BY <4>1, <4>2, <4>3
      <3> QED
        BY <2>1, <3>1
    <2>5. stop \in Nat /\ stop < t
      BY <2>2, <2>3, <2>4
    <2>6. \E p \in in : p.byte = stop
      BY <1>1, <2>1, <2>2, <2>4
    <2>7. ASSUME NEW p \in in, LineOf(lines, p.byte) = l PROVE p.byte <= stop
      <3>1. p.byte \in Nat
        BY <1>1
      <3>2. t <= p.byte => LineOf(lines, t) <= LineOf(lines, p.byte)
        BY <1>1, <2>3, <3>1, LinesGrow
      <3> QED
        BY <2>1, <2>2, <2>3, <2>7, <3>1, <3>2
    <2>8. LineOf(lines, stop) = l
      <3>1. LineOf(lines, stop) < l + 1 /\ LineOf(lines, stop) \in Nat
        BY <1>1, <2>1, <2>3, <2>5, LinesGrow
      <3>2. PICK s \in lines : LineOf(lines, s) = l
        BY <1>1, LineExists DEF lines
      <3>3. s \in Nat
        BY <1>1
      <3>4. s < t
        <4>1. t <= s => LineOf(lines, t) <= LineOf(lines, s)
          BY <1>1, <2>3, <3>3, LinesGrow
        <4> QED
          BY <2>1, <2>3, <3>2, <3>3, <4>1
      <3>5. s <= stop
        BY <2>2, <2>3, <3>3, <3>4
      <3>6. LineOf(lines, s) <= LineOf(lines, stop)
        BY <1>1, <2>5, <3>3, <3>5, LinesGrow
      <3> QED
        BY <3>1, <3>2, <3>6
    <2> QED
      BY <2>6, <2>7, <2>8 DEF lines, stop
  <1>4. CASE ~(l + 1 < Cardinality(lines))
    <2>1. stop = end
      BY <1>4 DEF Stop
    <2>2. Upto(lines, end) = lines
      BY <1>1 DEF Upto
    <2>3. LineOf(lines, end) = Cardinality(lines) - 1
      BY <1>1, <2>2, UptoFinite
    <2>4. l = Cardinality(lines) - 1
      BY <1>2, <1>4
    <2>5. \A p \in in : p.byte <= end
      BY DEF WellPlaced
    <2>6. \E p \in in : p.byte = end
      BY DEF WellPlaced
    <2> QED
      BY <2>1, <2>3, <2>4, <2>5, <2>6
  <1> QED
    BY <1>3, <1>4

Reached(in, start, stop, target) ==
    {p.byte : p \in {p \in in : /\ start <= p.byte /\ p.byte <= stop
                               /\ p.unit >= target}}

LEMMA Converted ==
    ASSUME NEW in, NEW end, NEW lines, NEW offset, offset <= end
    PROVE  LET position == ToPosition(in, end, lines, offset)
           IN  /\ position.line = LineOf(lines, offset)
               /\ position.character =
                     UnitAt(in, offset)
                       - UnitAt(in, LineBegin(lines, LineOf(lines, offset)))
  BY DEF ToPosition, Column

\* Places and positions are each other's inverses.
LEMMA RoundTrip ==
    ASSUME NEW in, NEW end, WellPlaced(in, end), NEW p \in in
    PROVE  LET lines == LineIndex(in) IN
           ToOffset(in, end, lines, ToPosition(in, end, lines, p.byte)) = <<p.byte>>
  <1> DEFINE lines == LineIndex(in)
             o == p.byte
             l == LineOf(lines, o)
             position == ToPosition(in, end, lines, o)
             start == LineBegin(lines, l)
             stop == Stop(lines, end, l)
             reached == Reached(in, start, stop, p.unit)
  <1>1. /\ end \in Nat /\ lines \subseteq 0 .. end /\ 0 \in lines
        /\ \A q \in in : q.byte \in 0 .. end /\ q.unit \in Nat /\ UnitAt(in, q.byte) = q.unit
        /\ \A s \in lines : \E q \in in : q.byte = s
    BY Lines
  <1>2. o \in Nat /\ o <= end /\ p.unit \in Nat
    BY <1>1
  <1>3. Cardinality(lines) \in Nat
    BY <1>1, UptoFinite
  <1>4. l \in Nat /\ l < Cardinality(lines)
    BY <1>1, <1>2, LinesGrow
  <1>5. start \in lines /\ start \in Nat /\ start <= o
    BY <1>1, <1>2, LineOfOffset
  <1>6. UnitAt(in, start) \in Nat
    <2> HIDE DEF start, lines
    <2>1. PICK q \in in : q.byte = start
      BY <1>1, <1>5
    <2> QED
      BY <1>1, <2>1
  <1>7. position.line = l /\ position.character = p.unit - UnitAt(in, start)
    <2>1. UnitAt(in, o) = p.unit
      BY <1>1
    <2> QED
      BY <1>2, <2>1, Converted
  <1>8. UnitAt(in, start) + position.character = p.unit
    <2> HIDE DEF position, start
    <2> QED
      BY <1>2, <1>6, <1>7
  <1>9. (\E q \in in : q.byte = stop) /\ o <= stop
    BY <1>4, LineStops
  <1> HIDE DEF start, stop, position, lines, l
  <1>10. stop \in Nat
    BY <1>1, <1>9
  <1>11. o \in reached
    BY <1>2, <1>5, <1>9 DEF Reached
  <1>12. ASSUME NEW m \in reached \cup {stop} PROVE m \in Nat /\ o <= m
    <2>1. CASE m = stop
      BY <1>9, <1>10, <2>1
    <2>2. CASE m \in reached
      <3>1. PICK q \in in : m = q.byte /\ q.unit >= p.unit
        BY <2>2 DEF Reached
      <3>2. q.byte \in Nat /\ q.unit \in Nat
        BY <1>1
      <3>3. q.byte < o => q.unit < p.unit
        BY DEF WellPlaced
      <3> QED
        BY <1>2, <3>1, <3>2, <3>3
    <2> QED
      BY <1>12, <2>1, <2>2
  <1> HIDE DEF reached, o
  <1>13. Min(reached \cup {stop}) = o
    <2> DEFINE M == reached \cup {stop}
    <2>1. M \subseteq Nat /\ M # {} /\ o \in M /\ \A m \in M : o <= m
      BY <1>11, <1>12
    <2> HIDE DEF M
    <2>2. Min(M) \in M /\ Min(M) <= o /\ o <= Min(M)
      BY <2>1, MinOf
    <2>3. Min(M) = o
      <3>1. Min(M) \in Nat
        BY <2>1, <2>2
      <3>2. o \in Nat
        BY <1>2
      <3> QED
        BY <2>2, <3>1, <3>2
    <2> QED
      BY <2>3 DEF M
  <1>14. ~(position.line >= Cardinality(lines))
    BY <1>3, <1>4, <1>7
  <1>15. ToOffset(in, end, lines, position) =
            <<Min(Reached(in, start, stop, UnitAt(in, start) + position.character)
                    \cup {stop})>>
    <2>1. ToOffset(in, end, lines, position) =
             <<Min(Reached(in, LineBegin(lines, position.line),
                           Stop(lines, end, position.line),
                           UnitAt(in, LineBegin(lines, position.line)) + position.character)
                     \cup {Stop(lines, end, position.line)})>>
      BY <1>14 DEF ToOffset, Stop, Reached
    <2>2. LineBegin(lines, position.line) = start /\ Stop(lines, end, position.line) = stop
      BY <1>7, Zenon DEF start, stop
    <2> QED
      BY <2>1, <2>2, Zenon
  <1>16. ToOffset(in, end, lines, position) = <<o>>
    BY <1>8, <1>13, <1>15, Zenon DEF reached
  <1> QED
    BY <1>16, Zenon DEF position, lines, o

\* Every place of every text comes back from the client as it went.
THEOREM PositionsInvert ==
    \A chars \in Seq(Characters) :
        RoundTrips(Range(PlacesOf(chars)), Last(PlacesOf(chars)).byte)
  <1> SUFFICES ASSUME NEW chars \in Seq(Characters)
               PROVE  RoundTrips(Range(PlacesOf(chars)), Last(PlacesOf(chars)).byte)
    OBVIOUS
  <1> DEFINE in == Range(PlacesOf(chars))
             end == Last(PlacesOf(chars)).byte
  <1>1. WellPlaced(in, end)
    BY TextWellPlaced
  <1> HIDE DEF in, end
  <1>2. RoundTrips(in, end)
    BY <1>1, RoundTrip DEF RoundTrips
  <1> QED
    BY <1>2 DEF in, end

LEMMA Lands ==
    ASSUME NEW in, NEW end, WellPlaced(in, end),
           NEW position \in [line : Nat, character : Nat]
    PROVE  LandsInLine(in, end, position)
  <1> DEFINE lines == LineIndex(in)
             l == position.line
             start == LineBegin(lines, l)
             stop == Stop(lines, end, l)
             reached == Reached(in, start, stop, UnitAt(in, start) + position.character)
             m == Min(reached \cup {stop})
  <1>1. /\ end \in Nat /\ lines \subseteq 0 .. end /\ 0 \in lines
        /\ \A q \in in : q.byte \in 0 .. end
    BY Lines
  <1>2. Cardinality(lines) \in Nat /\ l \in Nat
    BY <1>1, UptoFinite
  <1>3. CASE l >= Cardinality(lines)
    <2>1. ToOffset(in, end, lines, position) = <<>>
      BY <1>3 DEF ToOffset
    <2> QED
      BY <2>1 DEF LandsInLine
  <1>4. CASE ~(l >= Cardinality(lines))
    <2>0. l < Cardinality(lines)
      BY <1>2, <1>4
    <2>1. start \in lines /\ LineOf(lines, start) = l
      BY <1>1, <1>2, <2>0, LineBegins
    <2>2. (\E q \in in : q.byte = stop) /\ LineOf(lines, stop) = l
      BY <1>2, <2>0, LineStops
    <2>3. ToOffset(in, end, lines, position) = <<m>>
      BY <1>4 DEF ToOffset, Stop, Reached
    <2> HIDE DEF lines, start, stop
    <2>4. start \in Nat /\ stop \in Nat
      BY <1>1, <2>1, <2>2
    <2>5. ASSUME NEW x \in reached \cup {stop}
          PROVE  x \in Nat /\ (\E q \in in : q.byte = x) /\ LineOf(lines, x) = l
      <3>1. CASE x = stop
        BY <2>2, <2>4, <3>1
      <3>2. CASE x \in reached
        <4>1. PICK q \in in : x = q.byte /\ start <= q.byte /\ q.byte <= stop
          BY <3>2 DEF Reached
        <4>2. q.byte \in Nat
          BY <1>1
        <4>3. /\ LineOf(lines, start) <= LineOf(lines, q.byte)
              /\ LineOf(lines, q.byte) <= LineOf(lines, stop)
              /\ LineOf(lines, q.byte) \in Nat
          BY <1>1, <2>4, <4>1, <4>2, LinesGrow
        <4> QED
          BY <1>2, <2>1, <2>2, <4>1, <4>2, <4>3
      <3> QED
        BY <2>5, <3>1, <3>2
    <2> HIDE DEF reached, m
    <2>6. m \in reached \cup {stop}
      <3> DEFINE M == reached \cup {stop}
      <3>1. M \subseteq Nat /\ M # {}
        BY <2>5
      <3> HIDE DEF M
      <3>2. Min(M) \in M
        BY <3>1, MinOf
      <3> QED
        BY <3>2 DEF M, m
    <2>7. PICK q \in in : q.byte = m
      BY <2>5, <2>6
    <2>8. LineOf(lines, m) = l
      BY <2>5, <2>6
    <2> QED
      BY <2>3, <2>7, <2>8 DEF LandsInLine, lines
  <1> QED
    BY <1>3, <1>4

\* Whatever position a client asks for, of any text, the server gets no offset
\* or one at which the text may be cut, in the line that was asked for.
THEOREM OffsetsLand ==
    \A chars \in Seq(Characters) : \A position \in [line : Nat, character : Nat] :
        LandsInLine(Range(PlacesOf(chars)), Last(PlacesOf(chars)).byte, position)
  <1> SUFFICES ASSUME NEW chars \in Seq(Characters),
                      NEW position \in [line : Nat, character : Nat]
               PROVE  LandsInLine(Range(PlacesOf(chars)), Last(PlacesOf(chars)).byte, position)
    OBVIOUS
  <1> QED
    BY TextWellPlaced, Lands

\* The offsets that the server converts: places, or, of a tree that belongs to an
\* older text, beyond the end.
Offsets(in, end) == {p.byte : p \in in} \cup {o \in Nat : o >= end}

LEMMA Clamped ==
    ASSUME NEW in, NEW end, WellPlaced(in, end), NEW o \in Offsets(in, end)
    PROVE  \E p \in in : /\ p.byte = IF o <= end THEN o ELSE end
                        /\ \A lines : ToPosition(in, end, lines, o)
                                        = ToPosition(in, end, lines, p.byte)
  <1> DEFINE clamped == IF o <= end THEN o ELSE end
  <1>1. end \in Nat /\ \A p \in in : p.byte \in Nat
    BY Lines
  <1>2. \E p \in in : p.byte = clamped
    <2>1. CASE o \in {p.byte : p \in in}
      <3>1. PICK p \in in : p.byte = o
        BY <2>1
      <3>2. o <= end
        BY <3>1 DEF WellPlaced
      <3> QED
        BY <3>1, <3>2
    <2>2. CASE o \in Nat /\ o >= end
      <3>1. clamped = end
        BY <1>1, <2>2
      <3> QED
        BY <3>1 DEF WellPlaced
    <2> QED
      BY <2>1, <2>2 DEF Offsets
  <1>3. PICK p \in in : p.byte = clamped
    BY <1>2
  <1>4. clamped <= end
    BY <1>1
  <1>5. ASSUME NEW lines
        PROVE  ToPosition(in, end, lines, o) = ToPosition(in, end, lines, clamped)
    <2>1. (IF clamped <= end THEN clamped ELSE end) = clamped
      BY <1>4
    <2> HIDE DEF clamped
    <2>2. ToPosition(in, end, lines, clamped) =
             [line |-> LineOf(lines, clamped),
              character |-> Column(in, LineBegin(lines, LineOf(lines, clamped)), clamped)]
      BY <2>1, Zenon DEF ToPosition
    <2>3. ToPosition(in, end, lines, o) =
             [line |-> LineOf(lines, clamped),
              character |-> Column(in, LineBegin(lines, LineOf(lines, clamped)), clamped)]
      BY Zenon DEF ToPosition, clamped
    <2> QED
      BY <2>2, <2>3
  <1> QED
    BY <1>3, <1>5

LEMMA Forward ==
    ASSUME NEW in, NEW end, WellPlaced(in, end),
           NEW from \in Offsets(in, end), NEW to \in Offsets(in, end)
    PROVE  GoesForward(in, end, from, to)
  <1> DEFINE lines == LineIndex(in)
             at(offset) == ToPosition(in, end, lines, offset)
  <1> SUFFICES ASSUME from <= to
               PROVE  Delta(at(from), at(to)).line >= 0 /\ Delta(at(from), at(to)).start >= 0
    BY DEF GoesForward
  <1>1. /\ end \in Nat /\ lines \subseteq 0 .. end /\ 0 \in lines
        /\ \A q \in in : q.byte \in 0 .. end /\ q.unit \in Nat /\ UnitAt(in, q.byte) = q.unit
        /\ \A s \in lines : \E q \in in : q.byte = s
    BY Lines
  <1>2. PICK p \in in : p.byte = (IF from <= end THEN from ELSE end) /\ at(from) = at(p.byte)
    BY Clamped
  <1>3. PICK q \in in : q.byte = (IF to <= end THEN to ELSE end) /\ at(to) = at(q.byte)
    BY Clamped
  <1>4. p.byte \in Nat /\ q.byte \in Nat /\ p.byte <= end /\ q.byte <= end
        /\ p.unit \in Nat /\ q.unit \in Nat
    BY <1>1
  <1>5. p.byte <= q.byte
    <2>1. from \in Nat /\ to \in Nat
      BY <1>1 DEF Offsets
    <2> QED
      BY <1>1, <1>2, <1>3, <2>1
  <1>6. p.unit <= q.unit
    <2>1. p.byte = q.byte => p = q
      BY DEF WellPlaced
    <2>2. p.byte < q.byte => p.unit < q.unit
      BY DEF WellPlaced
    <2> QED
      BY <1>4, <1>5, <2>1, <2>2
  <1> DEFINE a == LineOf(lines, p.byte)
             b == LineOf(lines, q.byte)
             before == UnitAt(in, LineBegin(lines, a))
             start == UnitAt(in, LineBegin(lines, b))
  <1>7. a \in Nat /\ b \in Nat /\ a <= b
    BY <1>1, <1>4, <1>5, LinesGrow
  <1>8. at(p.byte).line = a /\ at(p.byte).character = p.unit - before
    <2>1. UnitAt(in, p.byte) = p.unit
      BY <1>1
    <2> QED
      BY <1>4, <2>1, Converted
  <1>9. at(q.byte).line = b /\ at(q.byte).character = q.unit - start
    <2>1. UnitAt(in, q.byte) = q.unit
      BY <1>1
    <2> QED
      BY <1>4, <2>1, Converted
  <1>10. start \in Nat /\ start <= q.unit /\ before \in Nat
    <2>1. /\ LineBegin(lines, b) \in lines /\ LineBegin(lines, b) <= q.byte
          /\ LineBegin(lines, a) \in lines
      BY <1>1, <1>4, LineOfOffset
    <2>2. PICK r \in in : r.byte = LineBegin(lines, b)
      BY <1>1, <2>1
    <2>3. PICK x \in in : x.byte = LineBegin(lines, a)
      BY <1>1, <2>1
    <2>4. start = r.unit /\ before = x.unit
      BY <1>1, <2>2, <2>3
    <2>5. r.byte < q.byte => r.unit < q.unit
      BY DEF WellPlaced
    <2>6. r.byte = q.byte => r = q
      BY DEF WellPlaced
    <2>7. r.byte <= q.byte /\ r.byte \in Nat /\ r.unit \in Nat /\ x.unit \in Nat
      BY <1>1, <2>1, <2>2
    <2>8. r.unit <= q.unit
      BY <1>4, <2>5, <2>6, <2>7
    <2> QED
      BY <2>4, <2>7, <2>8
  <1>11. a = b => start = before
    OBVIOUS
  <1> HIDE DEF a, b, start, before, lines
  <1>12. b - a >= 0
    BY <1>7
  <1>13. q.unit - start >= 0
    BY <1>4, <1>10
  <1>14. a = b => (q.unit - start) - (p.unit - before) >= 0
    BY <1>4, <1>6, <1>10, <1>11
  <1>15. /\ at(from).line = a /\ at(from).character = p.unit - before
         /\ at(to).line = b /\ at(to).character = q.unit - start
    BY <1>2, <1>3, <1>8, <1>9
  <1> HIDE DEF at
  <1>16. Delta(at(from), at(to)).line = b - a
    BY <1>15 DEF Delta
  <1>17. Delta(at(from), at(to)).start =
            IF b = a THEN (q.unit - start) - (p.unit - before) ELSE q.unit - start
    BY <1>15 DEF Delta
  <1> QED
    BY <1>12, <1>13, <1>14, <1>16, <1>17

\* Tokens that are sorted by offset are encoded without a negative number.
THEOREM DeltasAreUnsigned ==
    \A chars \in Seq(Characters) :
        LET in == Range(PlacesOf(chars))
            end == Last(PlacesOf(chars)).byte
        IN  \A from \in Offsets(in, end) : \A to \in Offsets(in, end) :
                GoesForward(in, end, from, to)
  BY TextWellPlaced, Forward
=============================================================================
