------------------------------- MODULE Outbox -------------------------------
(***************************************************************************)
(* The outbox: POST /v1/events saves an event in a Postgres row before it  *)
(* answers 202 (store.EnqueueEvent), and a background publisher moves rows *)
(* to the Kafka topic (internal/outbox, store/outbox.go).  A row is        *)
(* pending, publishing (claimed by a flush) or published.                  *)
(*                                                                         *)
(* Publishers are the processes that run Publisher.Run: one in the app as  *)
(* it is wired, more while a deployment overlaps two of them.              *)
(***************************************************************************)
EXTENDS Topic

CONSTANTS
  Publishers,  (* processes with a publisher loop                           *)
  Batch,       (* rows one flush claims, 50 in the code                     *)
  NoEvent      (* a publisher that handles no row                           *)

ASSUME OutboxAssumption ==
  /\ Batch \in Nat \ {0}
  /\ NoEvent \notin Events

VARIABLES
  status,  \* status column of each event's row, "none" without a row
  rowId,   \* id column of the row (BIGSERIAL), 0 without a row
  acked,   \* events a partner got 202 for
  pc,      \* where each publisher is in Publisher.flush
  batch,   \* the rows of its claim it has not finished
  cur,     \* the row it is publishing or marking
  gauge    \* its process's engagepulse_outbox_pending

rowVars == <<playerRows, status, rowId, acked>>
publisherVars == <<pc, batch, cur, gauge>>
outboxVars == <<rowVars, publisherVars, topic, faults>>

Statuses == {"none", "pending", "publishing", "published"}
Pcs == {"idle", "reclaim", "claim", "send", "mark", "unmark", "down"}

OutboxTypeOK ==
  /\ playerRows \subseteq Players
  /\ TopicTypeOK
  /\ status \in [Events -> Statuses]
  /\ rowId \in [Events -> Nat]
  /\ acked \subseteq Events
  /\ pc \in [Publishers -> Pcs]
  /\ batch \in [Publishers -> SUBSET Events]
  /\ cur \in [Publishers -> Events \cup {NoEvent}]
  /\ gauge \in [Publishers -> Nat]

OutboxInit ==
  /\ playerRows = {}
  /\ TopicInit
  /\ status = [e \in Events |-> "none"]
  /\ rowId = [e \in Events |-> 0]
  /\ acked = {}
  /\ pc = [w \in Publishers |-> "idle"]
  /\ batch = [w \in Publishers |-> {}]
  /\ cur = [w \in Publishers |-> NoEvent]
  /\ gauge = [w \in Publishers |-> 0]

-----------------------------------------------------------------------------
Rows == {e \in Events : status[e] # "none"}
Pending == {e \in Events : status[e] = "pending"}
Publishing == {e \in Events : status[e] = "publishing"}

\* Mutant: rows that are through are counted as well.
BacklogOfAllRows == Rows

\* What store.CountOutboxBacklog counts.
Backlog == Pending \cup Publishing

SetStatus(S, s) == status' = [e \in Events |-> IF e \in S THEN s ELSE status[e]]

\* The rows a claim takes: the Batch pending rows of lowest id.
ToClaim == {e \in Pending : Cardinality({f \in Pending : rowId[f] < rowId[e]}) < Batch}

\* Mutant: the outbox row without the player's rows.
InsertRowOnly(e) ==
  /\ status[e] = "none"
  /\ SetStatus({e}, "pending")
  /\ rowId' = [rowId EXCEPT ![e] = Cardinality(Rows) + 1]
  /\ UNCHANGED playerRows

\* store.EnqueueEvent commits: player rows and a pending row, in one transaction.
InsertRow(e) ==
  /\ status[e] = "none"
  /\ EnsurePlayer(PlayerOf[e])
  /\ SetStatus({e}, "pending")
  /\ rowId' = [rowId EXCEPT ![e] = Cardinality(Rows) + 1]

\* POST /v1/events with a new event_id: 202 after the commit.
AcceptNew(e) ==
  /\ InsertRow(e)
  /\ acked' = acked \cup {e}
  /\ UNCHANGED <<publisherVars, topic, faults>>

\* The row is committed but the caller never learns it: the commit's answer is
\* lost (500) or the process dies before the reply.
AcceptUnanswered(e) ==
  /\ InsertRow(e)
  /\ Fault
  /\ UNCHANGED <<acked, publisherVars, topic>>

\* POST /v1/events with a known event_id (a retry, or a redrive of a dead letter):
\* ErrDuplicateEvent, answered 202; nothing is saved or sent.
AcceptDuplicate(e) ==
  /\ status[e] # "none"
  /\ acked' = acked \cup {e}
  /\ UNCHANGED <<playerRows, status, rowId, publisherVars, topic, faults>>

-----------------------------------------------------------------------------
\* Publisher.flush, step by step.

Goto(w, from, to) ==
  /\ pc[w] = from
  /\ pc' = [pc EXCEPT ![w] = to]

\* refreshPendingMetric: a failed count leaves the gauge as it was.
RefreshPendingMetric(w) ==
  \/ gauge' = [gauge EXCEPT ![w] = Cardinality(Backlog)] /\ UNCHANGED faults
  \/ UNCHANGED gauge /\ Fault

BeginFlush(w) ==
  /\ Goto(w, "idle", "reclaim")
  /\ RefreshPendingMetric(w)
  /\ UNCHANGED <<rowVars, batch, cur, topic>>

\* Mutants: a reclaim that forgets the rows a crash left behind, and one that takes
\* back every row.
ReclaimNothing(w) ==
  /\ Goto(w, "reclaim", "claim")
  /\ UNCHANGED <<rowVars, batch, cur, gauge, topic, faults>>
ReclaimEverything(w) ==
  /\ Goto(w, "reclaim", "claim")
  /\ SetStatus(Rows, "pending")
  /\ UNCHANGED <<playerRows, rowId, acked, batch, cur, gauge, topic, faults>>

ReclaimPublishingOutbox(w) ==
  /\ Goto(w, "reclaim", "claim")
  /\ SetStatus(Publishing, "pending")
  /\ UNCHANGED <<playerRows, rowId, acked, batch, cur, gauge, topic, faults>>

\* Mutants: the claim does not write the status, or writes the final one.
ClaimUnmarked(w) ==
  /\ Goto(w, "claim", "send")
  /\ batch' = [batch EXCEPT ![w] = ToClaim]
  /\ UNCHANGED <<rowVars, cur, gauge, topic, faults>>
ClaimAsPublished(w) ==
  /\ Goto(w, "claim", "send")
  /\ batch' = [batch EXCEPT ![w] = ToClaim]
  /\ SetStatus(ToClaim, "published")
  /\ UNCHANGED <<playerRows, rowId, acked, cur, gauge, topic, faults>>

\* One transaction: rows go to publishing and into the batch together.
ClaimPendingOutbox(w) ==
  /\ Goto(w, "claim", "send")
  /\ batch' = [batch EXCEPT ![w] = ToClaim]
  /\ SetStatus(ToClaim, "publishing")
  /\ UNCHANGED <<playerRows, rowId, acked, cur, gauge, topic, faults>>

\* A database error before the loop over the batch ends the flush; a claim whose
\* commit answer is lost has still moved its rows to publishing.
FlushFails(w) ==
  /\ pc[w] \in {"reclaim", "claim"}
  /\ pc' = [pc EXCEPT ![w] = "idle"]
  /\ \/ UNCHANGED status
     \/ pc[w] = "claim" /\ SetStatus(ToClaim, "publishing")
     \/ pc[w] = "reclaim" /\ SetStatus(Publishing, "pending")
  /\ Fault
  /\ UNCHANGED <<playerRows, rowId, acked, batch, cur, gauge, topic>>

\* kafka.Publish acknowledged: the message is in the topic.  RETURNING promises no
\* order, so any row of the batch may come next.
PublishOk(w, e) ==
  /\ e \in batch[w]
  /\ Goto(w, "send", "mark")
  /\ cur' = [cur EXCEPT ![w] = e]
  /\ Publish(e)
  /\ UNCHANGED <<rowVars, batch, gauge, faults>>

\* kafka.Publish returns an error, whether or not the broker kept the message.
PublishFails(w, e) ==
  /\ e \in batch[w]
  /\ Goto(w, "send", "unmark")
  /\ cur' = [cur EXCEPT ![w] = e]
  /\ (UNCHANGED topic \/ Publish(e))
  /\ Fault
  /\ UNCHANGED <<rowVars, batch, gauge>>

\* The writer's own retry after a lost acknowledgement: the message is in the topic
\* and will be sent again.
PublishRepeats(w, e) ==
  /\ e \in batch[w]
  /\ pc[w] = "send"
  /\ Publish(e)
  /\ Fault
  /\ UNCHANGED <<rowVars, publisherVars>>

\* To the next row of the batch.
NextRow(w, from) ==
  /\ Goto(w, from, "send")
  /\ batch' = [batch EXCEPT ![w] = @ \ {cur[w]}]
  /\ cur' = [cur EXCEPT ![w] = NoEvent]

\* Mutant: a sent row is left for the next reclaim.
MarkOutboxNothing(w) ==
  /\ NextRow(w, "mark")
  /\ UNCHANGED <<rowVars, gauge, topic, faults>>

MarkOutboxPublished(w) ==
  /\ NextRow(w, "mark")
  /\ SetStatus({cur[w]}, "published")
  /\ UNCHANGED <<playerRows, rowId, acked, gauge, topic, faults>>

\* The mark's error ends the flush with the rest of the batch still publishing.
MarkOutboxPublishedFails(w) ==
  /\ Goto(w, "mark", "idle")
  /\ batch' = [batch EXCEPT ![w] = {}]
  /\ cur' = [cur EXCEPT ![w] = NoEvent]
  /\ \/ UNCHANGED status
     \/ SetStatus({cur[w]}, "published")
  /\ Fault
  /\ UNCHANGED <<playerRows, rowId, acked, gauge, topic>>

\* Mutant: a failed send is marked published all the same.
MarkFailedAsPublished(w) ==
  /\ NextRow(w, "unmark")
  /\ SetStatus({cur[w]}, "published")
  /\ UNCHANGED <<playerRows, rowId, acked, gauge, topic, faults>>

MarkOutboxPublishFailed(w) ==
  /\ NextRow(w, "unmark")
  /\ SetStatus({cur[w]}, "pending")
  /\ UNCHANGED <<playerRows, rowId, acked, gauge, topic, faults>>

\* Its own error is ignored: the row stays publishing.
MarkOutboxPublishFailedFails(w) ==
  /\ NextRow(w, "unmark")
  /\ Fault
  /\ UNCHANGED <<rowVars, gauge, topic>>

EndFlush(w) ==
  /\ batch[w] = {}
  /\ Goto(w, "send", "idle")
  /\ RefreshPendingMetric(w)
  /\ UNCHANGED <<rowVars, batch, cur, topic>>

\* The process dies: the loop's place, its batch and its metrics are gone.
StopPublisher(w) ==
  /\ pc[w] # "down"
  /\ pc' = [pc EXCEPT ![w] = "down"]
  /\ batch' = [batch EXCEPT ![w] = {}]
  /\ cur' = [cur EXCEPT ![w] = NoEvent]
  /\ gauge' = [gauge EXCEPT ![w] = 0]
  /\ UNCHANGED <<rowVars, topic>>

StartPublisher(w) ==
  /\ Goto(w, "down", "idle")
  /\ UNCHANGED <<rowVars, batch, cur, gauge, topic>>

Accept(e) == AcceptNew(e) \/ AcceptUnanswered(e) \/ AcceptDuplicate(e)

\* One step of the loop; the error paths are FlushFault's.
FlushStep(w) ==
  \/ BeginFlush(w)
  \/ ReclaimPublishingOutbox(w)
  \/ ClaimPendingOutbox(w)
  \/ \E e \in Events : PublishOk(w, e)
  \/ MarkOutboxPublished(w)
  \/ MarkOutboxPublishFailed(w)
  \/ EndFlush(w)

FlushFault(w) ==
  \/ FlushFails(w)
  \/ \E e \in Events : PublishFails(w, e) \/ PublishRepeats(w, e)
  \/ MarkOutboxPublishedFails(w)
  \/ MarkOutboxPublishFailedFails(w)

OutboxNext ==
  \/ \E e \in Events : Accept(e)
  \/ \E w \in Publishers :
       \/ FlushStep(w)
       \/ FlushFault(w)
       \/ StopPublisher(w) /\ Fault
       \/ StartPublisher(w) /\ UNCHANGED faults

OutboxSpec == OutboxInit /\ [][OutboxNext]_outboxVars

\* The publisher loop keeps being scheduled, its ticker keeps ticking, and a
\* process that died is started again; MaxFaults ends the faults.
OutboxFairSpec ==
  /\ OutboxSpec
  /\ \A w \in Publishers :
       WF_outboxVars(FlushStep(w)) /\ WF_outboxVars(StartPublisher(w) /\ UNCHANGED faults)

-----------------------------------------------------------------------------
\* An event that got 202 is never lost on its way to Kafka: its row is still to
\* be sent, or a message carries it (EnqueueEvent, flush, reclaim, any crash).
NothingLost ==
  \A e \in acked : status[e] \in {"pending", "publishing"} \/ InTopic(e)

\* A row is called published only with its message in the topic, and the topic
\* holds nothing but events saved in the outbox first.
PublishedMeansInTopic ==
  /\ \A e \in Events : status[e] = "published" => InTopic(e)
  /\ \A i \in 1..Len(topic) : topic[i] \in Rows

\* With one publisher no row of its batch is taken back, published or sent by
\* anybody else before the flush is through with it: flush's reclaim only meets
\* rows an earlier flush, or an earlier process, left behind.
BatchIsPublishing ==
  \A w \in Publishers : \A e \in batch[w] : status[e] = "publishing"

\* With one publisher every duplicate in the topic is owed to a fault: a lost
\* acknowledgement, a failed mark or a crash before the mark, one copy each.
DuplicatesNeedFaults ==
  Len(topic) <= Cardinality({e \in Events : InTopic(e)}) + faults

\* With one publisher a published row is never taken up again
\* (ReclaimPublishingOutbox: "Safe with a single in-process publisher").
PublishedIsFinal ==
  [][\A e \in Events : status[e] = "published" => status'[e] = "published"]_status

\* Every saved row is published in the end, however small the batch.
SavedIsPublished ==
  \A e \in Events : (e \in Rows) ~> (status[e] = "published")

\* The pending gauge comes down to zero and stays there once the partners stop
\* (what scripts/demo.sh waits for).
GaugeSettles == <>[](\A w \in Publishers : gauge[w] = 0)
=============================================================================
