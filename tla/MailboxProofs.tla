--------------------------- MODULE MailboxProofs ----------------------------
(***************************************************************************)
(* Proofs about the mailbox of one document.                               *)
(***************************************************************************)
EXTENDS Mailbox, SequenceTheorems, TLAPS

\* What is left of a sequence of messages when its first i are taken away.
LEMMA Remaining ==
    ASSUME NEW s \in Seq(Message), NEW i \in 1 .. Len(s)
    PROVE  LET r == SubSeq(s, i + 1, Len(s)) IN
           /\ r \in Seq(Message)
           /\ Len(r) = Len(s) - i
           /\ r # <<>> => Last(r) = Last(s)
           /\ r = <<>> => s[i] = Last(s)
  <1> DEFINE r == SubSeq(s, i + 1, Len(s))
  <1>1. r \in Seq(Message) /\ Len(r) = Len(s) - i
        /\ \A j \in 1 .. Len(s) - i : r[j] = s[i + j]
    BY SubSeqProperties
  <1>2. r = <<>> <=> Len(r) = 0
    BY <1>1, EmptySeq
  <1>3. Len(s) \in Nat
    OBVIOUS
  <1> HIDE DEF r
  <1>4. r # <<>> => Last(r) = Last(s)
    <2> SUFFICES ASSUME r # <<>>
                 PROVE  r[Len(r)] = s[Len(s)]
      BY DEF Last
    <2>1. Len(s) - i \in 1 .. Len(s) - i
      BY <1>1, <1>2, <1>3
    <2> QED
      BY <1>1, <1>3, <2>1
  <1>5. r = <<>> => s[i] = Last(s)
    <2> SUFFICES ASSUME r = <<>>
                 PROVE  s[i] = s[Len(s)]
      BY DEF Last
    <2>1. i = Len(s)
      BY <1>1, <1>2, <1>3
    <2> QED
      BY <2>1
  <1> QED
    BY <1>1, <1>4, <1>5 DEF r

\* Forgetting a message that has another behind it leaves the last in place.
LEMMA SupersededKeepsLast ==
    ASSUME NEW s \in Seq(Message), NEW i \in 1 .. Len(s), i < Len(s)
    PROVE  /\ RemoveAt(s, i) \in Seq(Message)
           /\ RemoveAt(s, i) # <<>>
           /\ Last(RemoveAt(s, i)) = Last(s)
  <1> DEFINE l == SubSeq(s, 1, i - 1)
             r == SubSeq(s, i + 1, Len(s))
  <1>1. l \in Seq(Message) /\ Len(l) = i - 1
    BY SubSeqProperties
  <1>2. r \in Seq(Message) /\ Len(r) = Len(s) - i /\ r # <<>>
        /\ Last(r) = Last(s)
    <2>1. r \in Seq(Message) /\ Len(r) = Len(s) - i
          /\ (r # <<>> => Last(r) = Last(s))
      BY Remaining
    <2>2. r = <<>> <=> Len(r) = 0
      BY <2>1, EmptySeq
    <2>3. Len(s) \in Nat
      OBVIOUS
    <2> HIDE DEF r
    <2> QED
      BY <2>1, <2>2, <2>3
  <1> HIDE DEF l, r
  <1>3. /\ l \o r \in Seq(Message) /\ Len(l \o r) = Len(l) + Len(r)
        /\ \A j \in 1 .. Len(l) + Len(r) :
              (l \o r)[j] = IF j <= Len(l) THEN l[j] ELSE r[j - Len(l)]
    BY <1>1, <1>2, ConcatProperties
  <1>4. Len(l) \in Nat /\ Len(r) \in Nat \ {0}
    BY <1>1, <1>2, EmptySeq
  <1>5. l \o r # <<>> /\ Last(l \o r) = Last(r)
    <2>1. Len(l) + Len(r) \in 1 .. Len(l) + Len(r) /\ ~(Len(l) + Len(r) <= Len(l))
      BY <1>4
    <2>2. (l \o r)[Len(l \o r)] = r[Len(r)]
      BY <1>3, <1>4, <2>1
    <2>3. l \o r # <<>>
      BY <1>3, <1>4, EmptySeq
    <2> QED
      BY <2>2, <2>3 DEF Last
  <1> QED
    BY <1>2, <1>3, <1>5 DEF RemoveAt, l, r

\* Every state has the right shape.
THEOREM MailboxTypeCorrect == Spec => []TypeOK
  <1>1. Init => TypeOK
    BY DEF Init, TypeOK, Message
  <1>2. TypeOK /\ [Next]_vars => TypeOK'
    <2> SUFFICES ASSUME TypeOK, [Next]_vars
                 PROVE  TypeOK'
      OBVIOUS
    <2> USE DEF TypeOK
    <2>1. ASSUME NEW m \in Message, Send(m)
          PROVE  TypeOK'
      BY <2>1 DEF Send
    <2>2. ASSUME NEW i \in 1 .. Len(mail), Supersede(i)
          PROVE  TypeOK'
      BY <2>2, SupersededKeepsLast DEF Supersede
    <2>3. ASSUME NEW k \in 1 .. Len(mail), Deliver(k)
          PROVE  TypeOK'
      BY <2>3, Remaining DEF Deliver
    <2>4. ASSUME Discard
          PROVE  TypeOK'
      BY <2>4 DEF Discard
    <2>5. ASSUME UNCHANGED vars
          PROVE  TypeOK'
      BY <2>5 DEF vars
    <2> QED
      BY <2>1, <2>2, <2>3, <2>4, <2>5 DEF Next
  <1> QED
    BY <1>1, <1>2, PTL DEF Spec

\* Nothing is lost and nothing stale is left: the last message is what the
\* editor wants, and when there is none the copy is what the editor wants.
THEOREM NothingLost == Spec => []Delivered
  <1>1. Init => Delivered
    BY DEF Init, Delivered
  <1>2. TypeOK /\ Delivered /\ [Next]_vars => Delivered'
    <2> SUFFICES ASSUME TypeOK, Delivered, [Next]_vars
                 PROVE  Delivered'
      OBVIOUS
    <2> USE DEF TypeOK, Delivered
    <2>1. ASSUME NEW m \in Message, Send(m)
          PROVE  Delivered'
      <3>1. mail' # <<>> /\ Last(mail') = m
        BY <2>1, AppendProperties DEF Send, Last
      <3> QED
        BY <2>1, <3>1 DEF Send
    <2>2. ASSUME NEW i \in 1 .. Len(mail), Supersede(i)
          PROVE  Delivered'
      BY <2>2, SupersededKeepsLast, EmptySeq DEF Supersede
    <2>3. ASSUME NEW k \in 1 .. Len(mail), Deliver(k)
          PROVE  Delivered'
      <3>1. mail # <<>>
        BY <2>3, EmptySeq
      <3> QED
        BY <2>3, <3>1, Remaining DEF Deliver
    <2>4. ASSUME Discard
          PROVE  Delivered'
      <3>1. mail # <<>> /\ 1 \in 1 .. Len(mail) /\ mail[1] \in Unparsable
        BY <2>4, EmptySeq DEF Discard
      <3>2. mail' = SubSeq(mail, 2, Len(mail)) /\ want' = want /\ have' = have
        BY <2>4, <3>1, TailIsSubSeq DEF Discard
      <3>3. /\ mail' # <<>> => Last(mail') = Last(mail)
            /\ mail' = <<>> => mail[1] = Last(mail)
        BY <3>1, <3>2, Remaining
      <3> QED
        BY <3>1, <3>2, <3>3
    <2>5. ASSUME UNCHANGED vars
          PROVE  Delivered'
      BY <2>5 DEF vars
    <2> QED
      BY <2>1, <2>2, <2>3, <2>4, <2>5 DEF Next
  <1> QED
    BY <1>1, <1>2, MailboxTypeCorrect, PTL DEF Spec
=============================================================================
