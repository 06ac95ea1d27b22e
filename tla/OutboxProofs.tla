---------------------------- MODULE OutboxProofs ----------------------------
(***************************************************************************)
(* No accepted event is lost between the database and Kafka, for every set *)
(* of events and any number of publishers, overlapping or not.             *)
(*                                                                         *)
(* NothingLost and PublishedMeansInTopic are not inductive: a row becomes  *)
(* published when its publisher is at "mark", two steps after the send, so *)
(* the invariant adds what each publisher may hold at each place.          *)
(***************************************************************************)
EXTENDS Outbox, FiniteSetTheorems, TLAPS

\* A publisher only holds saved rows, and one about to mark a row has sent it.
PublisherHolds ==
  \A w \in Publishers :
    /\ batch[w] \subseteq Rows
    /\ pc[w] \in {"mark", "unmark"} => cur[w] \in Rows
    /\ pc[w] = "mark" => InTopic(cur[w])

OutboxInv ==
  /\ OutboxTypeOK
  /\ PublishedMeansInTopic
  /\ PublisherHolds
  /\ acked \subseteq Rows

\* Rows and backlogs are finite, so ids and gauges are numbers.
LEMMA RowCounts ==
  /\ Cardinality(Rows) \in Nat
  /\ Cardinality(Backlog) \in Nat
<1>1. IsFiniteSet(Events) /\ Rows \subseteq Events /\ Backlog \subseteq Events
  BY EventsAssumption DEF Rows, Backlog, Pending, Publishing
<1> QED  BY <1>1, FS_Subset, FS_CardinalityType

\* Changing rows that exist to a real status leaves the set of rows alone.
LEMMA SetStatusRows ==
  ASSUME OutboxTypeOK, NEW S, NEW s \in {"pending", "publishing", "published"},
         S \cap Events \subseteq Rows, SetStatus(S, s)
  PROVE  /\ status' \in [Events -> Statuses]
         /\ Rows' = Rows
         /\ \A e \in Events : status'[e] = "published" =>
              status[e] = "published" \/ (e \in S /\ s = "published")
  BY DEF OutboxTypeOK, SetStatus, Statuses, Rows

\* An append keeps every message where it was and adds the new one.
LEMMA PublishAppends ==
  ASSUME TopicTypeOK, NEW e \in Events, Publish(e)
  PROVE  /\ topic' \in Seq(Messages)
         /\ \A f \in Events : InTopic(f) => InTopic(f)'
         /\ InTopic(e)'
         /\ \A i \in 1..Len(topic') : topic'[i] = e \/ \E j \in 1..Len(topic) : topic'[i] = topic[j]
<1>1. /\ Len(topic') = Len(topic) + 1 /\ Len(topic) \in Nat
      /\ \A i \in 1..Len(topic) : topic'[i] = topic[i]
      /\ topic'[Len(topic) + 1] = e
      /\ topic' \in Seq(Messages)
  BY DEF TopicTypeOK, Publish, Messages
<1> QED  BY <1>1 DEF InTopic

LEMMA OutboxInitInv == OutboxInit => OutboxInv
<1> SUFFICES ASSUME OutboxInit PROVE OutboxInv
  OBVIOUS
<1>1. OutboxTypeOK
  BY TopicAssumption DEF OutboxInit, OutboxTypeOK, TopicInit, TopicTypeOK, Statuses, Pcs
<1>2. PublishedMeansInTopic
  BY DEF OutboxInit, PublishedMeansInTopic, TopicInit
<1>3. PublisherHolds /\ acked \subseteq Rows
  BY DEF OutboxInit, PublisherHolds
<1> QED  BY <1>1, <1>2, <1>3 DEF OutboxInv

\* A step that appends nothing and keeps all rows only has to answer for what it
\* publishes and for where it puts its publishers.
LEMMA RowStepInv ==
  ASSUME OutboxInv, OutboxTypeOK', UNCHANGED topic, Rows \subseteq Rows',
         acked' \subseteq Rows',
         \A e \in Events : status'[e] = "published" => status[e] = "published" \/ InTopic(e),
         PublisherHolds'
  PROVE  OutboxInv'
  BY DEF OutboxInv, PublishedMeansInTopic, InTopic

LEMMA AcceptInv ==
  ASSUME OutboxInv, NEW e \in Events, Accept(e)
  PROVE  OutboxInv'
<1> USE DEF OutboxInv
<1>1. ASSUME InsertRow(e), UNCHANGED <<publisherVars, topic>>,
             faults' \in 0..MaxFaults, acked' \subseteq acked \cup {e}
      PROVE  OutboxInv'
  <2>1. PlayerOf[e] \in Players
    BY EventsAssumption
  <2>2. OutboxTypeOK'
    BY <1>1, <2>1, RowCounts
       DEF InsertRow, EnsurePlayer, SetStatus, OutboxTypeOK, TopicTypeOK, Statuses, publisherVars
  <2>3. Rows' = Rows \cup {e}
    BY <1>1 DEF InsertRow, SetStatus, Rows, OutboxTypeOK
  <2>4. \A f \in Events : status'[f] = "published" => status[f] = "published"
    BY <1>1 DEF InsertRow, SetStatus, OutboxTypeOK
  <2>5. PublisherHolds'
    BY <1>1, <2>3 DEF PublisherHolds, publisherVars, InTopic
  <2> QED  BY <1>1, <2>2, <2>3, <2>4, <2>5, RowStepInv
<1>2. CASE AcceptNew(e)
  BY <1>1, <1>2 DEF AcceptNew, OutboxTypeOK, TopicTypeOK
<1>3. CASE AcceptUnanswered(e)
  BY <1>1, <1>3, TopicAssumption DEF AcceptUnanswered, Fault, OutboxTypeOK, TopicTypeOK
<1>4. CASE AcceptDuplicate(e)
  <2>1. OutboxTypeOK' /\ Rows' = Rows /\ acked' \subseteq Rows'
    BY <1>4 DEF AcceptDuplicate, OutboxTypeOK, TopicTypeOK, Rows, publisherVars
  <2>2. PublisherHolds'
    BY <1>4, <2>1 DEF AcceptDuplicate, PublisherHolds, publisherVars, InTopic
  <2> QED  BY <1>4, <2>1, <2>2, RowStepInv DEF AcceptDuplicate
<1> QED  BY <1>2, <1>3, <1>4 DEF Accept

\* A send: what was in the topic stays, and the publisher moves on with a saved row.
LEMMA SendInv ==
  ASSUME OutboxInv, NEW w \in Publishers, NEW e \in batch[w], Publish(e),
         UNCHANGED <<rowVars, batch, gauge>>, faults' \in 0..MaxFaults,
         \/ pc' = [pc EXCEPT ![w] = "mark"] /\ cur' = [cur EXCEPT ![w] = e]
         \/ pc' = [pc EXCEPT ![w] = "unmark"] /\ cur' = [cur EXCEPT ![w] = e]
         \/ pc[w] = "send" /\ UNCHANGED <<pc, cur>>
  PROVE  OutboxInv'
<1> USE DEF OutboxInv
<1>1. e \in Rows /\ e \in Events
  BY DEF PublisherHolds, Rows
<1>2. /\ topic' \in Seq(Messages)
      /\ \A f \in Events : InTopic(f) => InTopic(f)'
      /\ InTopic(e)'
      /\ \A i \in 1..Len(topic') : topic'[i] = e \/ \E j \in 1..Len(topic) : topic'[i] = topic[j]
  BY <1>1, PublishAppends DEF OutboxTypeOK
<1>3. OutboxTypeOK'
  BY <1>1, <1>2 DEF OutboxTypeOK, TopicTypeOK, Pcs, rowVars
<1>4. Rows' = Rows /\ status' = status
  BY DEF rowVars, Rows
<1>5. PublishedMeansInTopic'
  BY <1>1, <1>2, <1>4 DEF PublishedMeansInTopic
<1>6. PublisherHolds'
  BY <1>1, <1>2, <1>4 DEF PublisherHolds, OutboxTypeOK, Rows
<1>7. acked' \subseteq Rows'
  BY <1>4 DEF rowVars
<1> QED  BY <1>3, <1>5, <1>6, <1>7

\* A publisher that moves without sending, with a batch of saved rows.
LEMMA MoveInv ==
  ASSUME OutboxInv, NEW w \in Publishers, NEW to \in Pcs \ {"mark", "unmark"},
         pc' = [pc EXCEPT ![w] = to],
         UNCHANGED <<playerRows, rowId, acked, topic>>,
         Rows' = Rows, status' \in [Events -> Statuses],
         \A e \in Events : status'[e] = "published" => status[e] = "published" \/ InTopic(e),
         batch' \in [Publishers -> SUBSET Events],
         \A v \in Publishers : batch'[v] \subseteq Rows,
         cur' \in [Publishers -> Events \cup {NoEvent}],
         \A v \in Publishers : v # w => cur'[v] = cur[v],
         gauge' \in [Publishers -> Nat], faults' \in 0..MaxFaults
  PROVE  OutboxInv'
<1>1. OutboxTypeOK'
  BY DEF OutboxInv, OutboxTypeOK, TopicTypeOK
<1>2. PublisherHolds'
  BY DEF OutboxInv, PublisherHolds, OutboxTypeOK, InTopic
<1> QED  BY <1>1, <1>2, RowStepInv DEF OutboxInv

LEMMA FlushStepInv ==
  ASSUME OutboxInv, NEW w \in Publishers, FlushStep(w)
  PROVE  OutboxInv'
<1> USE DEF OutboxInv
<1>0. /\ \A e \in Events : InTopic(e) \in BOOLEAN
      /\ \A v \in Publishers : batch[v] \subseteq Rows
      /\ faults \in 0..MaxFaults
      /\ \A e \in Events : status[e] = "published" => InTopic(e)
  BY DEF PublisherHolds, OutboxTypeOK, TopicTypeOK, InTopic, PublishedMeansInTopic
<1>1. CASE BeginFlush(w)
  <2>1. RefreshPendingMetric(w)
    BY <1>1 DEF BeginFlush
  <2>2. gauge' \in [Publishers -> Nat] /\ faults' \in 0..MaxFaults
    BY <1>0, <2>1, RowCounts, TopicAssumption DEF RefreshPendingMetric, Fault, OutboxTypeOK
  <2> QED  BY <1>0, <1>1, <2>2, MoveInv DEF BeginFlush, Goto, rowVars, Rows, OutboxTypeOK, Pcs
<1>2. CASE ReclaimPublishingOutbox(w)
  <2>1. Publishing \cap Events \subseteq Rows
    BY DEF Publishing, Rows
  <2> QED  BY <1>0, <1>2, <2>1, SetStatusRows, MoveInv
           DEF ReclaimPublishingOutbox, Goto, OutboxTypeOK, Pcs
<1>3. CASE ClaimPendingOutbox(w)
  <2>1. ToClaim \subseteq Rows /\ ToClaim \subseteq Events
    BY DEF ToClaim, Pending, Rows
  <2> QED  BY <1>0, <1>3, <2>1, SetStatusRows, MoveInv
           DEF ClaimPendingOutbox, Goto, OutboxTypeOK, Pcs
<1>4. ASSUME NEW e \in Events, PublishOk(w, e) PROVE OutboxInv'
  BY <1>0, <1>4, SendInv DEF PublishOk, Goto
<1>5. CASE MarkOutboxPublished(w)
  <2>1. cur[w] \in Rows /\ InTopic(cur[w]) /\ cur[w] \in Events
    BY <1>5 DEF MarkOutboxPublished, NextRow, Goto, PublisherHolds, Rows
  <2>2. batch' \in [Publishers -> SUBSET Events] /\ \A v \in Publishers : batch'[v] \subseteq batch[v]
    BY <1>5 DEF MarkOutboxPublished, NextRow, OutboxTypeOK
  <2>3. /\ status' \in [Events -> Statuses]
        /\ Rows' = Rows
        /\ \A e \in Events : status'[e] = "published" => status[e] = "published" \/ InTopic(e)
    BY <1>5, <2>1, SetStatusRows DEF MarkOutboxPublished
  <2> QED  BY <1>0, <1>5, <2>2, <2>3, MoveInv
           DEF MarkOutboxPublished, NextRow, Goto, OutboxTypeOK, Pcs
<1>6. CASE MarkOutboxPublishFailed(w)
  <2>1. cur[w] \in Rows /\ cur[w] \in Events
    BY <1>6 DEF MarkOutboxPublishFailed, NextRow, Goto, PublisherHolds, Rows
  <2>2. batch' \in [Publishers -> SUBSET Events] /\ \A v \in Publishers : batch'[v] \subseteq batch[v]
    BY <1>6 DEF MarkOutboxPublishFailed, NextRow, OutboxTypeOK
  <2>3. /\ status' \in [Events -> Statuses]
        /\ Rows' = Rows
        /\ \A e \in Events : status'[e] = "published" => status[e] = "published" \/ InTopic(e)
    BY <1>6, <2>1, SetStatusRows DEF MarkOutboxPublishFailed
  <2> QED  BY <1>0, <1>6, <2>2, <2>3, MoveInv
           DEF MarkOutboxPublishFailed, NextRow, Goto, OutboxTypeOK, Pcs
<1>7. CASE EndFlush(w)
  <2>1. RefreshPendingMetric(w)
    BY <1>7 DEF EndFlush
  <2>2. gauge' \in [Publishers -> Nat] /\ faults' \in 0..MaxFaults
    BY <1>0, <2>1, RowCounts, TopicAssumption DEF RefreshPendingMetric, Fault, OutboxTypeOK
  <2> QED  BY <1>0, <1>7, <2>2, MoveInv DEF EndFlush, Goto, rowVars, Rows, OutboxTypeOK, Pcs
<1> QED  BY <1>1, <1>2, <1>3, <1>4, <1>5, <1>6, <1>7 DEF FlushStep

LEMMA FlushFaultInv ==
  ASSUME OutboxInv, NEW w \in Publishers, FlushFault(w)
  PROVE  OutboxInv'
<1> USE DEF OutboxInv
<1>0. /\ \A v \in Publishers : batch[v] \subseteq Rows
      /\ faults \in 0..MaxFaults
      /\ \A e \in Events : status[e] = "published" => InTopic(e)
      /\ Fault => faults' \in 0..MaxFaults
  BY TopicAssumption DEF PublisherHolds, OutboxTypeOK, TopicTypeOK, PublishedMeansInTopic, Fault
<1>1. CASE FlushFails(w)
  <2>1. /\ ToClaim \subseteq Rows /\ ToClaim \subseteq Events
        /\ Publishing \subseteq Rows /\ Publishing \subseteq Events
    BY DEF ToClaim, Pending, Publishing, Rows
  <2>2. /\ status' \in [Events -> Statuses]
        /\ Rows' = Rows
        /\ \A e \in Events : status'[e] = "published" => status[e] = "published"
    <3>1. CASE UNCHANGED status
      BY <3>1 DEF Rows, OutboxTypeOK
    <3>2. CASE SetStatus(ToClaim, "publishing")
      BY <3>2, <2>1, SetStatusRows
    <3>3. CASE SetStatus(Publishing, "pending")
      BY <3>3, <2>1, SetStatusRows
    <3> QED  BY <1>1, <3>1, <3>2, <3>3 DEF FlushFails
  <2> QED  BY <1>0, <1>1, <2>2, MoveInv DEF FlushFails, OutboxTypeOK, Pcs
<1>2. ASSUME NEW e \in Events, PublishFails(w, e) PROVE OutboxInv'
  <2>1. CASE Publish(e)
    BY <1>0, <1>2, <2>1, SendInv DEF PublishFails, Goto
  <2>2. CASE UNCHANGED topic
    <3>1. OutboxTypeOK'
      BY <1>0, <1>2, <2>2 DEF PublishFails, Goto, OutboxTypeOK, TopicTypeOK, Pcs, rowVars
    <3>2. Rows' = Rows /\ status' = status /\ acked' = acked
      BY <1>2 DEF PublishFails, rowVars, Rows
    <3>3. PublisherHolds'
      BY <1>0, <1>2, <2>2, <3>2 DEF PublishFails, Goto, PublisherHolds, OutboxTypeOK, InTopic
    <3> QED  BY <2>2, <3>1, <3>2, <3>3, RowStepInv
  <2> QED  BY <1>2, <2>1, <2>2 DEF PublishFails
<1>3. ASSUME NEW e \in Events, PublishRepeats(w, e) PROVE OutboxInv'
  BY <1>0, <1>3, SendInv DEF PublishRepeats, publisherVars
<1>4. CASE MarkOutboxPublishedFails(w)
  <2>1. cur[w] \in Rows /\ InTopic(cur[w]) /\ cur[w] \in Events
    BY <1>4 DEF MarkOutboxPublishedFails, Goto, PublisherHolds, Rows
  <2>2. /\ status' \in [Events -> Statuses]
        /\ Rows' = Rows
        /\ \A e \in Events : status'[e] = "published" => status[e] = "published" \/ InTopic(e)
    <3>1. CASE UNCHANGED status
      BY <3>1 DEF Rows, OutboxTypeOK
    <3>2. CASE SetStatus({cur[w]}, "published")
      BY <3>2, <2>1, SetStatusRows
    <3> QED  BY <1>4, <3>1, <3>2 DEF MarkOutboxPublishedFails
  <2> QED  BY <1>0, <1>4, <2>2, MoveInv DEF MarkOutboxPublishedFails, Goto, OutboxTypeOK, Pcs
<1>5. CASE MarkOutboxPublishFailedFails(w)
  <2>1. batch' \in [Publishers -> SUBSET Events] /\ \A v \in Publishers : batch'[v] \subseteq batch[v]
    BY <1>5 DEF MarkOutboxPublishFailedFails, NextRow, OutboxTypeOK
  <2> QED  BY <1>0, <1>5, <2>1, MoveInv
           DEF MarkOutboxPublishFailedFails, NextRow, Goto, rowVars, Rows, OutboxTypeOK, Pcs
<1> QED  BY <1>1, <1>2, <1>3, <1>4, <1>5 DEF FlushFault

LEMMA StopStartInv ==
  ASSUME OutboxInv, NEW w \in Publishers, faults' \in 0..MaxFaults,
         StopPublisher(w) \/ StartPublisher(w)
  PROVE  OutboxInv'
<1> USE DEF OutboxInv
<1>1. CASE StopPublisher(w)
  BY <1>1, MoveInv DEF StopPublisher, rowVars, Rows, PublisherHolds, OutboxTypeOK, Pcs
<1>2. CASE StartPublisher(w)
  BY <1>2, MoveInv DEF StartPublisher, Goto, rowVars, Rows, PublisherHolds, OutboxTypeOK, Pcs
<1> QED  BY <1>1, <1>2

LEMMA OutboxStepInv == OutboxInv /\ [OutboxNext]_outboxVars => OutboxInv'
<1> SUFFICES ASSUME OutboxInv, [OutboxNext]_outboxVars PROVE OutboxInv'
  OBVIOUS
<1>1. ASSUME NEW e \in Events, Accept(e) PROVE OutboxInv'
  BY <1>1, AcceptInv
<1>2. ASSUME NEW w \in Publishers, FlushStep(w) PROVE OutboxInv'
  BY <1>2, FlushStepInv
<1>3. ASSUME NEW w \in Publishers, FlushFault(w) PROVE OutboxInv'
  BY <1>3, FlushFaultInv
<1>4. ASSUME NEW w \in Publishers, StopPublisher(w) /\ Fault PROVE OutboxInv'
  BY <1>4, StopStartInv, TopicAssumption DEF Fault, OutboxInv, OutboxTypeOK, TopicTypeOK
<1>5. ASSUME NEW w \in Publishers, StartPublisher(w) /\ UNCHANGED faults PROVE OutboxInv'
  BY <1>5, StopStartInv DEF OutboxInv, OutboxTypeOK, TopicTypeOK
<1>6. CASE UNCHANGED outboxVars
  BY <1>6 DEF OutboxInv, OutboxTypeOK, TopicTypeOK, PublishedMeansInTopic, PublisherHolds,
              InTopic, Rows, outboxVars, rowVars, publisherVars
<1> QED  BY <1>1, <1>2, <1>3, <1>4, <1>5, <1>6 DEF OutboxNext

\* The outbox and its publishers keep their types.
THEOREM OutboxTypeCorrect == OutboxSpec => []OutboxTypeOK
<1>1. OutboxInv => OutboxTypeOK
  BY DEF OutboxInv
<1> QED  BY OutboxInitInv, OutboxStepInv, <1>1, PTL DEF OutboxSpec

\* An event that got 202 is still to be sent or in the topic, whatever crashes,
\* failed sends, lost acknowledgements and overlapping publishers do.
THEOREM OutboxLosesNothing == OutboxSpec => []NothingLost
<1>1. OutboxInv => NothingLost
  BY DEF OutboxInv, OutboxTypeOK, Statuses, PublishedMeansInTopic, NothingLost, Rows
<1> QED  BY OutboxInitInv, OutboxStepInv, <1>1, PTL DEF OutboxSpec

\* A published row has its message in the topic, and the topic only holds saved events.
THEOREM OutboxPublishesWhatItSays == OutboxSpec => []PublishedMeansInTopic
<1>1. OutboxInv => PublishedMeansInTopic
  BY DEF OutboxInv
<1> QED  BY OutboxInitInv, OutboxStepInv, <1>1, PTL DEF OutboxSpec

-----------------------------------------------------------------------------
(***************************************************************************)
(* What the comment "Safe with a single in-process publisher" claims of    *)
(* the outbox, for any events, batch and faults: with one publisher nobody *)
(* touches the rows of its batch, a published row is final, and every      *)
(* duplicate in the topic is owed to a fault.  The invariant says where    *)
(* the publisher has a batch at all, and counts, for the duplicates, the   *)
(* rows that are in the topic and will be sent again.                      *)
(***************************************************************************)

\* Outside the loop over the batch there is none, and the row in hand is one of it.
BatchIsLoops ==
  \A w \in Publishers :
    /\ pc[w] \in {"idle", "reclaim", "claim", "down"} => batch[w] = {}
    /\ pc[w] \in {"mark", "unmark"} => cur[w] \in batch[w]

OneInv == OutboxInv /\ BatchIsPublishing /\ BatchIsLoops

-----------------------------------------------------------------------------
LEMMA OneInitInv == OutboxInit => OneInv
<1> SUFFICES ASSUME OutboxInit PROVE OneInv
  OBVIOUS
<1>1. OutboxInv
  BY OutboxInitInv
<1>2. BatchIsPublishing /\ BatchIsLoops
  BY DEF OutboxInit, BatchIsPublishing, BatchIsLoops
<1> QED  BY <1>1, <1>2 DEF OneInv

\* Every step of the one publisher, with what it does to the rows of its batch, and to
\* published rows.
LEMMA OneStep ==
  ASSUME NEW w, Publishers = {w}, OneInv, [OutboxNext]_outboxVars
  PROVE  /\ BatchIsPublishing' /\ BatchIsLoops'
         /\ \A e \in Events : status[e] = "published" => status'[e] = "published"
<1> USE DEF OneInv
<1>0. /\ pc \in [Publishers -> Pcs] /\ status \in [Events -> Statuses]
      /\ batch \in [Publishers -> SUBSET Events] /\ cur \in [Publishers -> Events \cup {NoEvent}]
      /\ \A e \in batch[w] : status[e] = "publishing" /\ e \in Events
      /\ pc[w] \in {"idle", "reclaim", "claim", "down"} => batch[w] = {}
      /\ pc[w] \in {"mark", "unmark"} => cur[w] \in batch[w]
  BY DEF OutboxInv, OutboxTypeOK, BatchIsPublishing, BatchIsLoops
<1>1. SUFFICES /\ \A e \in batch'[w] : status'[e] = "publishing"
               /\ pc'[w] \in {"idle", "reclaim", "claim", "down"} => batch'[w] = {}
               /\ pc'[w] \in {"mark", "unmark"} => cur'[w] \in batch'[w]
               /\ \A e \in Events : status[e] = "published" => status'[e] = "published"
  BY DEF BatchIsPublishing, BatchIsLoops
<1>2. ASSUME NEW e \in Events, Accept(e)
      PROVE  /\ UNCHANGED <<pc, batch, cur>>
             /\ \A f \in Events : status[f] # "none" => status'[f] = status[f]
  BY <1>0, <1>2 DEF Accept, AcceptNew, AcceptUnanswered, AcceptDuplicate, InsertRow, SetStatus, publisherVars
<1>3. CASE BeginFlush(w) \/ EndFlush(w)
  BY <1>0, <1>3 DEF BeginFlush, EndFlush, Goto, rowVars
<1>4. CASE ReclaimPublishingOutbox(w)
  BY <1>0, <1>4 DEF ReclaimPublishingOutbox, Goto, SetStatus, Publishing
<1>5. CASE ClaimPendingOutbox(w)
  BY <1>0, <1>5 DEF ClaimPendingOutbox, Goto, SetStatus, ToClaim, Pending
<1>6. ASSUME NEW e \in Events, PublishOk(w, e) \/ PublishFails(w, e) \/ PublishRepeats(w, e)
      PROVE  /\ UNCHANGED <<status, batch>> /\ e \in batch[w]
             /\ \/ pc'[w] \in {"mark", "unmark"} /\ cur'[w] = e
                \/ pc[w] = "send" /\ UNCHANGED <<pc, cur>>
  BY <1>0, <1>6 DEF PublishOk, PublishFails, PublishRepeats, Goto, rowVars, publisherVars
<1>7. CASE MarkOutboxPublished(w)
  BY <1>0, <1>7 DEF MarkOutboxPublished, NextRow, Goto, SetStatus
<1>8. CASE MarkOutboxPublishFailed(w)
  BY <1>0, <1>8 DEF MarkOutboxPublishFailed, NextRow, Goto, SetStatus
<1>9. CASE FlushFails(w)
  BY <1>0, <1>9 DEF FlushFails, SetStatus, ToClaim, Pending, Publishing
<1>10. CASE MarkOutboxPublishedFails(w)
  BY <1>0, <1>10 DEF MarkOutboxPublishedFails, Goto, SetStatus
<1>11. CASE MarkOutboxPublishFailedFails(w)
  BY <1>0, <1>11 DEF MarkOutboxPublishFailedFails, NextRow, Goto, rowVars
<1>12. CASE StopPublisher(w) \/ StartPublisher(w)
  BY <1>0, <1>12 DEF StopPublisher, StartPublisher, Goto, rowVars
<1>13. CASE UNCHANGED outboxVars
  BY <1>0, <1>13 DEF outboxVars, rowVars, publisherVars
<1>14. CASE \E e \in Events : Accept(e)
  BY <1>0, <1>2, <1>14
<1>15. CASE \E e \in Events : PublishOk(w, e) \/ PublishFails(w, e) \/ PublishRepeats(w, e)
  BY <1>0, <1>6, <1>15
<1> QED  BY <1>3, <1>4, <1>5, <1>7, <1>8, <1>9, <1>10, <1>11, <1>12, <1>13, <1>14, <1>15
         DEF OutboxNext, FlushStep, FlushFault

LEMMA OneStepInv ==
  ASSUME NEW w, Publishers = {w}, OneInv, [OutboxNext]_outboxVars
  PROVE  OneInv'
BY OutboxStepInv, OneStep DEF OneInv

\* BatchIsPublishing holds always: with one publisher no row of its batch is taken back,
\* published or sent by anybody else before the flush is through with it.
THEOREM OneKeepsItsBatch ==
  ASSUME NEW w, Publishers = {w}
  PROVE  OutboxSpec => []BatchIsPublishing
<1>1. OneInv /\ [OutboxNext]_outboxVars => OneInv'
  BY OneStepInv
<1>2. OneInv => BatchIsPublishing
  BY DEF OneInv
<1> QED  BY OneInitInv, <1>1, <1>2, PTL DEF OutboxSpec

\* PublishedIsFinal: with one publisher a published row stays published, so it is never
\* claimed and sent again.
THEOREM OnePublishesForGood ==
  ASSUME NEW w, Publishers = {w}
  PROVE  OutboxSpec => PublishedIsFinal
<1>1. OneInv /\ [OutboxNext]_outboxVars => OneInv'
  BY OneStepInv
<1>2. OneInv /\ [OutboxNext]_outboxVars =>
        [\A e \in Events : status[e] = "published" => status'[e] = "published"]_status
  BY OneStep
<1> QED  BY OneInitInv, <1>1, <1>2, PTL DEF OutboxSpec, PublishedIsFinal

-----------------------------------------------------------------------------
\* Events the topic has, and those of them that will be sent again.
Sent == {e \in Events : InTopic(e)}
Owed ==
  {e \in Sent : status[e] \in {"pending", "publishing"} /\
                \A w \in Publishers : ~(pc[w] = "mark" /\ cur[w] = e)}

\* Copies in the topic, with those still to come, are owed to a fault each.
CopiesAreOwed == Len(topic) + Cardinality(Owed) <= Cardinality(Sent) + faults

CopiesInv == OneInv /\ CopiesAreOwed

LEMMA CopiesAreFinite ==
  /\ IsFiniteSet(Sent) /\ Cardinality(Sent) \in Nat
  /\ IsFiniteSet(Owed) /\ Cardinality(Owed) \in Nat
<1>1. IsFiniteSet(Events) /\ Sent \subseteq Events /\ Owed \subseteq Events
  BY EventsAssumption DEF Sent, Owed
<1> QED  BY <1>1, FS_Subset, FS_CardinalityType

\* The sizes of a finite set, of a subset of it, and of it with one element more or less.
LEMMA Sizes ==
  ASSUME NEW S, IsFiniteSet(S), NEW x, NEW T
  PROVE  /\ T \subseteq S => IsFiniteSet(T) /\ Cardinality(T) <= Cardinality(S)
         /\ T \subseteq S \cup {x} => IsFiniteSet(T) /\ Cardinality(T) <= Cardinality(S) + 1
         /\ x \notin S /\ T = S \cup {x} => Cardinality(T) = Cardinality(S) + 1
         /\ x \in S /\ T \subseteq S \ {x} => IsFiniteSet(T) /\ Cardinality(T) <= Cardinality(S) - 1
<1>1. T \subseteq S => IsFiniteSet(T) /\ Cardinality(T) <= Cardinality(S)
  BY FS_Subset
<1>2. /\ IsFiniteSet(S \cup {x}) /\ Cardinality(S \cup {x}) \in Nat /\ Cardinality(S) \in Nat
      /\ Cardinality(S \cup {x}) <= Cardinality(S) + 1
      /\ x \notin S => Cardinality(S \cup {x}) = Cardinality(S) + 1
  <2>1. Cardinality(S) \in Nat
    BY FS_CardinalityType
  <2>2. /\ IsFiniteSet(S \cup {x})
        /\ Cardinality(S \cup {x}) = IF x \in S THEN Cardinality(S) ELSE Cardinality(S) + 1
    BY FS_AddElement
  <2> QED  BY <2>1, <2>2
<1>3. T \subseteq S \cup {x} =>
        IsFiniteSet(T) /\ Cardinality(T) <= Cardinality(S \cup {x}) /\ Cardinality(T) \in Nat
  BY <1>2, FS_Subset, FS_CardinalityType
<1>4. x \in S => IsFiniteSet(S \ {x}) /\ Cardinality(S \ {x}) = Cardinality(S) - 1
  BY FS_RemoveElement
<1>5. T \subseteq S \ {x} /\ x \in S => IsFiniteSet(T) /\ Cardinality(T) <= Cardinality(S \ {x})
  BY <1>4, FS_Subset
<1> QED  BY <1>1, <1>2, <1>3, <1>4, <1>5

\* A step that sends nothing owes one copy more at most, and that for a fault.
LEMMA QuietStep ==
  ASSUME CopiesInv, UNCHANGED topic, faults' \in Nat,
         \/ Owed' \subseteq Owed /\ faults' >= faults
         \/ (\E x : Owed' \subseteq Owed \cup {x}) /\ faults' = faults + 1
  PROVE  CopiesAreOwed'
<1>1. Sent' = Sent
  BY DEF Sent, InTopic
<1>2. /\ Cardinality(Owed) \in Nat /\ IsFiniteSet(Owed) /\ Cardinality(Sent) \in Nat
      /\ faults \in Nat /\ Len(topic) \in Nat
  BY CopiesAreFinite DEF CopiesInv, OneInv, OutboxInv, OutboxTypeOK, TopicTypeOK
<1>3. \/ Cardinality(Owed') <= Cardinality(Owed) /\ faults' >= faults
      \/ Cardinality(Owed') <= Cardinality(Owed) + 1 /\ faults' = faults + 1
  BY <1>2, Sizes
<1>4. Cardinality(Owed') \in Nat
  BY <1>2, Sizes, FS_CardinalityType
<1>5. \A l, o, p, s, f, g \in Nat :
        l + o <= s + f /\ ((p <= o /\ g >= f) \/ (p <= o + 1 /\ g = f + 1)) => l + p <= s + g
  OBVIOUS
<1>6. Len(topic) + Cardinality(Owed') <= Cardinality(Sent) + faults'
  BY <1>2, <1>3, <1>4, <1>5 DEF CopiesInv, CopiesAreOwed
<1> QED  BY <1>1, <1>6 DEF CopiesAreOwed

\* A send puts its event into the topic and no other.
LEMMA SentGrows ==
  ASSUME TopicTypeOK, NEW e \in Events, Publish(e)
  PROVE  \A f \in Events : InTopic(f)' <=> f = e \/ InTopic(f)
<1>1. /\ \A f \in Events : InTopic(f) => InTopic(f)'
      /\ InTopic(e)'
      /\ \A i \in 1..Len(topic') : topic'[i] = e \/ \E j \in 1..Len(topic) : topic'[i] = topic[j]
  BY PublishAppends
<1> QED  BY <1>1 DEF InTopic

\* A send of the one publisher: a copy of an event that is in the topic was owed; what
\* fails after the send owes one more, for a fault.
LEMMA SendStep ==
  ASSUME CopiesInv, NEW e \in Events, Publish(e), UNCHANGED status, faults' \in Nat,
         e \in Sent => e \in Owed,
         \/ Owed' \subseteq Owed \ {e} /\ faults' = faults
         \/ Owed' \subseteq Owed \cup {e} /\ faults' = faults + 1
  PROVE  CopiesAreOwed'
<1>1. /\ TopicTypeOK
      /\ Len(topic') = Len(topic) + 1
      /\ Sent' = Sent \cup {e}
  <2>1. TopicTypeOK
    BY DEF CopiesInv, OneInv, OutboxInv, OutboxTypeOK
  <2>2. \A f \in Events : InTopic(f)' <=> f = e \/ InTopic(f)
    BY <2>1, SentGrows
  <2>3. Len(topic') = Len(topic) + 1
    BY <2>1 DEF TopicTypeOK, Publish
  <2> QED  BY <2>1, <2>2, <2>3 DEF Sent
<1>2. /\ Cardinality(Owed) \in Nat /\ IsFiniteSet(Owed) /\ Cardinality(Sent) \in Nat
      /\ IsFiniteSet(Sent) /\ faults \in Nat /\ Len(topic) \in Nat
  BY <1>1, CopiesAreFinite DEF TopicTypeOK
<1>3. Len(topic) + Cardinality(Owed) <= Cardinality(Sent) + faults
  BY DEF CopiesInv, CopiesAreOwed
<1>4. IsFiniteSet(Owed') /\ Cardinality(Owed') \in Nat
  BY <1>2, Sizes, FS_CardinalityType, CopiesAreFinite
<1>5. CASE e \in Sent
  <2>1. Sent' = Sent
    BY <1>1, <1>5
  <2>2. \/ Cardinality(Owed') <= Cardinality(Owed) - 1 /\ faults' = faults
        \/ Cardinality(Owed') <= Cardinality(Owed) /\ faults' = faults + 1
    <3>1. e \in Owed /\ Owed \cup {e} = Owed
      BY <1>5
    <3>2. CASE Owed' \subseteq Owed \ {e} /\ faults' = faults
      BY <1>2, <3>1, <3>2, Sizes
    <3>3. CASE Owed' \subseteq Owed \cup {e} /\ faults' = faults + 1
      BY <1>2, <3>1, <3>3, Sizes
    <3> QED  BY <3>2, <3>3
  <2>3. \A l, o, p, s, f, g \in Nat :
          l + o <= s + f /\ ((p <= o - 1 /\ g = f) \/ (p <= o /\ g = f + 1)) => l + 1 + p <= s + g
    OBVIOUS
  <2>4. Len(topic) + 1 + Cardinality(Owed') <= Cardinality(Sent) + faults'
    BY <1>2, <1>3, <1>4, <2>2, <2>3
  <2> QED  BY <1>1, <2>1, <2>4 DEF CopiesAreOwed
<1>6. CASE e \notin Sent
  <2>1. Cardinality(Sent') = Cardinality(Sent) + 1
    BY <1>1, <1>2, <1>6, Sizes
  <2>2. \/ Cardinality(Owed') <= Cardinality(Owed) /\ faults' = faults
        \/ Cardinality(Owed') <= Cardinality(Owed) + 1 /\ faults' = faults + 1
    <3>1. CASE Owed' \subseteq Owed \ {e} /\ faults' = faults
      <4>1. Owed' \subseteq Owed
        BY <3>1
      <4> QED  BY <1>2, <3>1, <4>1, Sizes
    <3>2. CASE Owed' \subseteq Owed \cup {e} /\ faults' = faults + 1
      BY <1>2, <3>2, Sizes
    <3> QED  BY <3>1, <3>2
  <2>3. \A l, o, p, s, f, g \in Nat :
          l + o <= s + f /\ ((p <= o /\ g = f) \/ (p <= o + 1 /\ g = f + 1)) => l + 1 + p <= s + 1 + g
    OBVIOUS
  <2>4. Len(topic) + 1 + Cardinality(Owed') <= Cardinality(Sent) + 1 + faults'
    BY <1>2, <1>3, <1>4, <2>2, <2>3
  <2> QED  BY <1>1, <2>1, <2>4 DEF CopiesAreOwed
<1> QED  BY <1>5, <1>6

\* One step of the one publisher and the partners, for the copies.
LEMMA CopiesStep ==
  ASSUME NEW w, Publishers = {w}, CopiesInv, [OutboxNext]_outboxVars
  PROVE  CopiesAreOwed'
<1> USE DEF CopiesInv, OneInv
<1>0. /\ pc \in [Publishers -> Pcs] /\ status \in [Events -> Statuses]
      /\ cur \in [Publishers -> Events \cup {NoEvent}]
      /\ faults \in Nat /\ faults' \in Nat
      /\ \A e \in batch[w] : status[e] = "publishing" /\ e \in Events
      /\ pc[w] \in {"mark", "unmark"} => cur[w] \in batch[w]
      /\ Fault => faults' = faults + 1
  <2>1. OutboxInv'
    BY OutboxStepInv
  <2>2. faults \in Nat /\ faults' \in Nat
    BY <2>1, TopicAssumption DEF OutboxInv, OutboxTypeOK, TopicTypeOK
  <2> QED  BY <2>2 DEF OutboxInv, OutboxTypeOK, BatchIsPublishing, BatchIsLoops, Fault
<1>1. /\ Owed = {e \in Events : InTopic(e) /\ status[e] \in {"pending", "publishing"}
                                /\ ~(pc[w] = "mark" /\ cur[w] = e)}
      /\ Owed' = {e \in Events : InTopic(e)' /\ status'[e] \in {"pending", "publishing"}
                                 /\ ~(pc'[w] = "mark" /\ cur'[w] = e)}
  BY DEF Owed, Sent
<1>2. \A e \in Events : InTopic(e) => status[e] # "none"
  BY DEF OutboxInv, PublishedMeansInTopic, InTopic, Rows
\* Who sends nothing, and leaves every row in the topic as it is or owed as it was.
<1>3. ASSUME UNCHANGED topic, faults' >= faults, pc'[w] # "mark" => pc[w] # "mark",
             pc'[w] = "mark" => pc[w] = "mark" /\ cur'[w] = cur[w],
             \A e \in Events : InTopic(e) /\ status'[e] \in {"pending", "publishing"} =>
               status[e] \in {"pending", "publishing"}
      PROVE  CopiesAreOwed'
  <2>1. Owed' \subseteq Owed
    BY <1>1, <1>3 DEF InTopic
  <2> QED  BY <1>0, <1>3, <2>1, QuietStep
<1>4. ASSUME NEW e \in Events, Accept(e) PROVE CopiesAreOwed'
  <2>1. /\ UNCHANGED <<topic, pc, cur>> /\ faults' >= faults
        /\ \A f \in Events : status[f] # "none" => status'[f] = status[f]
    BY <1>0, <1>4 DEF Accept, AcceptNew, AcceptUnanswered, AcceptDuplicate, InsertRow, SetStatus, publisherVars
  <2> QED  BY <1>2, <1>3, <2>1
<1>5. CASE BeginFlush(w) \/ EndFlush(w)
  BY <1>0, <1>3, <1>5 DEF BeginFlush, EndFlush, Goto, rowVars, RefreshPendingMetric
<1>6. CASE ReclaimPublishingOutbox(w)
  BY <1>0, <1>3, <1>6 DEF ReclaimPublishingOutbox, Goto, SetStatus, Publishing
<1>7. CASE ClaimPendingOutbox(w)
  BY <1>0, <1>3, <1>7 DEF ClaimPendingOutbox, Goto, SetStatus, ToClaim, Pending
<1>8. CASE FlushFails(w)
  <2>1. /\ UNCHANGED <<topic, cur>> /\ pc[w] # "mark" /\ pc'[w] # "mark" /\ faults' >= faults
    BY <1>0, <1>8 DEF FlushFails
  <2>2. \A e \in Events : status'[e] \in {"pending", "publishing"} => status[e] \in {"pending", "publishing"}
    BY <1>0, <1>8 DEF FlushFails, SetStatus, ToClaim, Pending, Publishing
  <2> QED  BY <1>3, <2>1, <2>2
<1>9. CASE MarkOutboxPublishFailed(w) \/ MarkOutboxPublishFailedFails(w)
  BY <1>0, <1>3, <1>9
     DEF MarkOutboxPublishFailed, MarkOutboxPublishFailedFails, NextRow, Goto, SetStatus, rowVars
<1>10. CASE StartPublisher(w) /\ UNCHANGED faults
  BY <1>0, <1>3, <1>10 DEF StartPublisher, Goto, rowVars
<1>11. CASE UNCHANGED outboxVars
  BY <1>0, <1>3, <1>11 DEF outboxVars, rowVars, publisherVars
\* The mark of a sent row, which succeeds, fails or never comes.
<1>12. CASE MarkOutboxPublished(w)
  <2>1. Owed' \subseteq Owed
    BY <1>0, <1>1, <1>12 DEF MarkOutboxPublished, NextRow, Goto, SetStatus, InTopic
  <2> QED  BY <1>0, <1>12, <2>1, QuietStep DEF MarkOutboxPublished
<1>13. CASE MarkOutboxPublishedFails(w)
  <2>1. Owed' \subseteq Owed \cup {cur[w]}
    BY <1>0, <1>1, <1>13 DEF MarkOutboxPublishedFails, Goto, SetStatus, InTopic
  <2> QED  BY <1>0, <1>13, <2>1, QuietStep DEF MarkOutboxPublishedFails
<1>14. CASE StopPublisher(w) /\ Fault
  <2>1. Owed' \subseteq Owed \cup {cur[w]}
    BY <1>0, <1>1, <1>14 DEF StopPublisher, rowVars, InTopic
  <2> QED  BY <1>0, <1>14, <2>1, QuietStep DEF StopPublisher
\* The sends.
<1>15. ASSUME NEW e \in Events, PublishOk(w, e) PROVE CopiesAreOwed'
  <2>1. Publish(e) /\ UNCHANGED <<status, faults>> /\ pc[w] = "send" /\ e \in batch[w]
        /\ pc'[w] = "mark" /\ cur'[w] = e
    BY <1>0, <1>15 DEF PublishOk, Goto, rowVars
  <2>2. e \in Sent => e \in Owed
    BY <1>0, <1>1, <2>1 DEF Sent
  <2>3. Owed' \subseteq Owed \ {e}
    BY <1>1, <2>1, SentGrows DEF OutboxInv, OutboxTypeOK
  <2> QED  BY <1>0, <2>1, <2>2, <2>3, SendStep
<1>16. ASSUME NEW e \in Events, PublishFails(w, e) \/ PublishRepeats(w, e) PROVE CopiesAreOwed'
  <2>1. /\ Fault /\ UNCHANGED status /\ pc[w] = "send" /\ pc'[w] # "mark" /\ e \in batch[w]
        /\ UNCHANGED topic \/ Publish(e)
    BY <1>0, <1>16 DEF PublishFails, PublishRepeats, Goto, rowVars, publisherVars
  <2>2. CASE UNCHANGED topic
    BY <1>0, <1>3, <2>1, <2>2
  <2>3. CASE Publish(e)
    <3>1. e \in Sent => e \in Owed
      BY <1>0, <1>1, <2>1 DEF Sent
    <3>2. Owed' \subseteq Owed \cup {e}
      BY <1>1, <2>1, <2>3, SentGrows DEF OutboxInv, OutboxTypeOK
    <3> QED  BY <1>0, <2>1, <2>3, <3>1, <3>2, SendStep
  <2> QED  BY <2>1, <2>2, <2>3
<1> QED  BY <1>4, <1>5, <1>6, <1>7, <1>8, <1>9, <1>10, <1>11, <1>12, <1>13, <1>14, <1>15, <1>16
         DEF OutboxNext, FlushStep, FlushFault

\* DuplicatesNeedFaults holds always: with one publisher every duplicate in the topic is
\* owed to a lost acknowledgement, a failed mark or a crash, one copy each.
THEOREM OneSendsOnceButForFaults ==
  ASSUME NEW w, Publishers = {w}
  PROVE  OutboxSpec => []DuplicatesNeedFaults
<1>1. OutboxInit => CopiesInv
  <2> SUFFICES ASSUME OutboxInit PROVE CopiesInv
    OBVIOUS
  <2>1. OneInv /\ Owed = {} /\ Sent = {} /\ Len(topic) = 0 /\ faults = 0
    BY OneInitInv DEF OutboxInit, TopicInit, Owed, Sent, InTopic
  <2> QED  BY <2>1, FS_EmptySet DEF CopiesInv, CopiesAreOwed
<1>2. CopiesInv /\ [OutboxNext]_outboxVars => CopiesInv'
  BY OneStepInv, CopiesStep DEF CopiesInv
<1>3. CopiesInv => DuplicatesNeedFaults
  <2> SUFFICES ASSUME CopiesInv PROVE DuplicatesNeedFaults
    OBVIOUS
  <2>1. /\ Cardinality(Owed) \in Nat /\ Cardinality(Sent) \in Nat
        /\ Len(topic) \in Nat /\ faults \in Nat
    BY CopiesAreFinite DEF CopiesInv, OneInv, OutboxInv, OutboxTypeOK, TopicTypeOK
  <2>2. \A l, o, s, f \in Nat : l + o <= s + f => l <= s + f
    OBVIOUS
  <2>3. Len(topic) <= Cardinality(Sent) + faults
    BY <2>1, <2>2 DEF CopiesInv, CopiesAreOwed
  <2> QED  BY <2>3 DEF DuplicatesNeedFaults, Sent
<1> QED  BY <1>1, <1>2, <1>3, PTL DEF OutboxSpec
=============================================================================
