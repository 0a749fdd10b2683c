-------------------------- MODULE PipelineMailbox --------------------------
(***************************************************************************)
(* Seen from one document, the pipeline is a mailbox: the refinement.      *)
(***************************************************************************)
EXTENDS Pipeline, SequencesExt

CONSTANT Doc       \* the document

ASSUME DocIsFile == Doc \in Uri

\* What an edit on its way to documents, or a task in the channel, carries for
\* the document: a text, or None for a close.
Carried(edit) == IF edit = None THEN <<>> ELSE <<edit.text>>

Letter(task) ==
    IF task.uri = Doc /\ task.kind \in {"parse", "close"}
    THEN IF task.kind = "close" THEN <<None>> ELSE <<task.edit.text>>
    ELSE <<>>

\* The edit the worker has parsed and not yet stored.
InHand == IF job.step \in {"index", "store"} /\ job.uri = Doc THEN job.edit ELSE None

Letters(queue) == FlattenSeq([i \in 1 .. Len(queue) |-> Letter(queue[i])])

\* The texts under way, oldest first: the one being indexed, the drained one,
\* the one waiting for the timer, the queued ones.
Transit == Carried(InHand) \o (Carried(batch[Doc]) \o (Carried(pending[Doc]) \o Letters(tasks)))

DocumentText == IF documents[Doc] = None THEN None ELSE documents[Doc].text

Box == INSTANCE Mailbox WITH want <- source_texts[Doc],
                             have <- DocumentText,
                             mail <- Transit

\* Seen from one document, channel, pending map, drained batch and worker are
\* one mailbox that loses nothing and reorders nothing.
ImplementsMailbox == Box!Spec
=============================================================================
