------------------------------ MODULE Mailbox ------------------------------
(***************************************************************************)
(* What the server promises about one document: the editor's texts reach   *)
(* the analysed copy through a first-in first-out mailbox in which a text  *)
(* may be skipped only because a later message for the same document is    *)
(* behind it.  A close is the message None.                                *)
(***************************************************************************)
EXTENDS Integers, Sequences, SequencesExt

CONSTANTS Text,        \* contents the editor may send
          Unparsable,  \* contents on which the parser gives up
          None

VARIABLES want,   \* the text the editor last sent; None when closed
          have,   \* the text of the analysed copy; None when there is none
          mail    \* messages sent and not yet applied

vars == <<want, have, mail>>

Message == Text \cup {None}

Init == want = None /\ have = None /\ mail = <<>>

\* The editor opens, changes or closes the document.  Opening may show the
\* new text at once, ahead of the messages still in the mailbox.
Send(m) ==
    /\ want' = m
    /\ mail' = Append(mail, m)
    /\ have' \in {have} \cup ({m} \ {None})

\* A message is forgotten because a later one will decide.
Supersede(i) ==
    /\ i < Len(mail)
    /\ mail' = RemoveAt(mail, i)
    /\ UNCHANGED <<want, have>>

\* Message k is applied; those before it are superseded by it.
Deliver(k) ==
    /\ have' = mail[k]
    /\ mail' = SubSeq(mail, k + 1, Len(mail))
    /\ UNCHANGED want

\* The parser gives up on the first text; the copy stays as it was.
Discard ==
    /\ mail # <<>>
    /\ Head(mail) \in Unparsable
    /\ mail' = Tail(mail)
    /\ UNCHANGED <<want, have>>

Next ==
    \/ \E m \in Message : Send(m)
    \/ \E i \in 1 .. Len(mail) : Supersede(i) \/ Deliver(i)
    \/ Discard

Spec == Init /\ [][Next]_vars

\* The shape of the state.
TypeOK ==
    /\ want \in Message
    /\ have \in Message
    /\ mail \in Seq(Message)

\* The last message is what the editor wants, and an empty mailbox means the
\* copy is what the editor wants: nothing is lost, and nothing stale is left
\* behind, by coalescing and by opening ahead of the mail.
Delivered ==
    /\ mail # <<>> => Last(mail) = want
    /\ mail = <<>> => have = want \/ want \in Unparsable
=============================================================================
