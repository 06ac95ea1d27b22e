------------------------------ MODULE Consumer ------------------------------
(***************************************************************************)
(* The Kafka consumer (internal/kafka/consumer.go): fetch a message, give  *)
(* its event to the worker up to MaxAttempts times, write a dead letter    *)
(* when all attempts fail, and only then commit the offset.  A commit is   *)
(* cumulative: it covers every earlier offset of the partition.            *)
(*                                                                         *)
(* The reader of segmentio/kafka-go (external) keeps its own position,     *)
(* which a fetch moves on whether or not the message is committed later,   *)
(* and which goes back to the committed offset on a restart or when the    *)
(* group rebalances.                                                       *)
(***************************************************************************)
EXTENDS Worker, Topic

CONSTANTS
  MaxAttempts,  (* attempts per delivery, 3 in the code                     *)
  Poison,       (* events FAIL_INJECT makes every attempt fail on           *)
  MaxTopic      (* bound on the messages other programs write               *)

ASSUME ConsumerAssumption ==
  /\ MaxAttempts \in Nat \ {0}
  /\ MaxTopic \in Nat
  /\ Poison \subseteq Events

VARIABLES
  committed,  \* the group's committed offset: messages 1..committed are done
  position,   \* the reader's position: messages 1..position were fetched
  cpc,        \* where Consumer.Run is
  offset,     \* the message it is at, 0 when it waits for one
  attempt,    \* the current attempt in processEvent
  dead,       \* what player.events.dlq holds letters for
  skipped     \* offsets left behind because their dead letter was not written

readerVars == <<committed, position>>
loopVars == <<cpc, offset, attempt>>
consumerVars == <<readerVars, loopVars, dead, skipped>>
allConsumerVars == <<workerVars, topic, faults, consumerVars>>

ConsumerTypeOK ==
  /\ WorkerTypeOK
  /\ TopicTypeOK
  /\ committed \in Nat
  /\ position \in Nat
  /\ cpc \in {"fetch", "handle", "deadletter", "unreadable", "commit", "down"}
  /\ offset \in Nat
  /\ attempt \in 0..MaxAttempts
  /\ dead \subseteq Messages
  /\ skipped \subseteq Nat

ConsumerLoopInit ==
  /\ committed = 0
  /\ position = 0
  /\ cpc = "fetch"
  /\ offset = 0
  /\ attempt = 0
  /\ dead = {}
  /\ skipped = {}

ConsumerInit == WorkerInit /\ TopicInit /\ ConsumerLoopInit

-----------------------------------------------------------------------------
Current == topic[offset]

\* Back to FetchMessage.
ToFetch == cpc' = "fetch" /\ offset' = 0 /\ attempt' = 0

\* Mutant: reading a message commits it (ReadMessage instead of FetchMessage).
FetchAndCommit ==
  /\ cpc = "fetch"
  /\ position < Len(topic)
  /\ position' = position + 1 /\ committed' = position + 1
  /\ offset' = position + 1
  /\ attempt' = 1
  /\ cpc' = IF topic[position + 1] = Unreadable THEN "unreadable" ELSE "handle"
  /\ UNCHANGED <<workerVars, topic, faults, dead, skipped>>

FetchMessage ==
  /\ cpc = "fetch"
  /\ position < Len(topic)
  /\ position' = position + 1
  /\ offset' = position + 1
  /\ attempt' = 1
  /\ cpc' = IF topic[position + 1] = Unreadable THEN "unreadable" ELSE "handle"
  /\ UNCHANGED <<workerVars, topic, faults, committed, dead, skipped>>

\* json.Unmarshal failed: a stub goes to the DLQ, its error is ignored.
ParkUnreadable ==
  /\ cpc = "unreadable"
  /\ \/ dead' = dead \cup {Unreadable} /\ UNCHANGED faults
     \/ UNCHANGED dead /\ Fault
  /\ cpc' = "commit"
  /\ UNCHANGED <<workerVars, topic, readerVars, offset, attempt, skipped>>

\* An attempt returns nil: the transaction committed, or the mark was there.
AttemptSucceeds ==
  /\ cpc = "handle"
  /\ \/ Current \notin Poison /\ Handle(Current)
     \/ SkipDuplicate(Current)
  /\ cpc' = "commit"
  /\ UNCHANGED <<now, topic, faults, readerVars, offset, attempt, dead, skipped>>

\* Mutants: one attempt too few, and no end of them.
GiveUpEarly ==
  /\ IF attempt < MaxAttempts - 1
       THEN attempt' = attempt + 1 /\ UNCHANGED cpc
       ELSE cpc' = "deadletter" /\ UNCHANGED attempt
  /\ UNCHANGED <<now, topic, readerVars, offset, dead, skipped>>
RetryForever == UNCHANGED <<cpc, attempt, now, topic, readerVars, offset, dead, skipped>>

\* After a failed attempt: the next one, or the dead letter.
RetryOrGiveUp ==
  /\ IF attempt < MaxAttempts
       THEN attempt' = attempt + 1 /\ UNCHANGED cpc
       ELSE cpc' = "deadletter" /\ UNCHANGED attempt
  /\ UNCHANGED <<now, topic, readerVars, offset, dead, skipped>>

\* FAIL_INJECT: the worker errs after the mark and the transaction rolls back.
InjectedFailure ==
  /\ cpc = "handle"
  /\ Current \in Poison \ processed
  /\ UNCHANGED <<playerRows, dbVars, faults>>
  /\ RetryOrGiveUp

\* The database fails and everything rolls back.
AttemptFails ==
  /\ cpc = "handle"
  /\ Fault
  /\ UNCHANGED <<playerRows, dbVars>>
  /\ RetryOrGiveUp

\* The transaction committed but the commit's answer was lost: an error too.
CommitAnswerLost ==
  /\ cpc = "handle"
  /\ Current \notin Poison
  /\ Handle(Current)
  /\ Fault
  /\ RetryOrGiveUp

\* PublishDLQ succeeds: processEvent returns nil.
PublishDLQ ==
  /\ cpc = "deadletter"
  /\ dead' = dead \cup {Current}
  /\ cpc' = "commit"
  /\ UNCHANGED <<workerVars, topic, faults, readerVars, offset, attempt, skipped>>

\* PublishDLQ errs, whether or not the broker kept the letter: processEvent errs,
\* and Run goes on to the next message without a commit.
PublishDLQFails ==
  /\ cpc = "deadletter"
  /\ Fault
  /\ dead' \in {dead, dead \cup {Current}}
  /\ skipped' = skipped \cup {offset}
  /\ ToFetch
  /\ UNCHANGED <<workerVars, topic, readerVars>>

CommitMessages ==
  /\ cpc = "commit"
  /\ committed' = offset
  /\ ToFetch
  /\ UNCHANGED <<workerVars, topic, faults, position, dead, skipped>>

\* A failed commit ends Run, and with it the process; the broker may have kept it.
CommitMessagesFails ==
  /\ cpc = "commit"
  /\ Fault
  /\ committed' \in {committed, offset}
  /\ cpc' = "down" /\ offset' = 0 /\ attempt' = 0
  /\ UNCHANGED <<workerVars, topic, position, dead, skipped>>

\* The group rebalances under a running consumer: the reader starts again from the
\* committed offset while Run is still busy with the message it had fetched.
Rebalance ==
  /\ cpc # "down"
  /\ Fault
  /\ position' = committed
  /\ UNCHANGED <<workerVars, topic, committed, loopVars, dead, skipped>>

\* The process dies between any two steps.
StopConsumer ==
  /\ cpc # "down"
  /\ cpc' = "down" /\ offset' = 0 /\ attempt' = 0
  /\ UNCHANGED <<workerVars, topic, readerVars, dead, skipped>>

\* Mutant: a restart reads on from the end of the topic.
StartAtEnd ==
  /\ cpc = "down"
  /\ cpc' = "fetch"
  /\ position' = Len(topic)
  /\ UNCHANGED <<workerVars, topic, faults, committed, offset, attempt, dead, skipped>>

StartConsumer ==
  /\ cpc = "down"
  /\ cpc' = "fetch"
  /\ position' = committed
  /\ UNCHANGED <<workerVars, topic, faults, committed, offset, attempt, dead, skipped>>

ConsumerStep ==
  \/ FetchMessage
  \/ ParkUnreadable
  \/ AttemptSucceeds
  \/ InjectedFailure
  \/ PublishDLQ
  \/ CommitMessages

ConsumerFault ==
  \/ AttemptFails
  \/ CommitAnswerLost
  \/ PublishDLQFails
  \/ CommitMessagesFails
  \/ Rebalance

\* The consumer alone: anybody may write the topic, an event any number of times.
Produce(m) ==
  /\ Len(topic) < MaxTopic
  /\ Publish(m)
  /\ UNCHANGED <<workerVars, faults, consumerVars>>

ConsumerNext ==
  \/ ConsumerStep
  \/ ConsumerFault
  \/ StopConsumer /\ Fault
  \/ StartConsumer
  \/ \E m \in Messages : Produce(m)
  \/ Tick /\ UNCHANGED <<topic, faults, consumerVars>>

ConsumerSpec == ConsumerInit /\ [][ConsumerNext]_allConsumerVars

\* The consumer loop keeps running and a process that died is started again.
ConsumerFairSpec ==
  ConsumerSpec /\ WF_allConsumerVars(ConsumerStep) /\ WF_allConsumerVars(StartConsumer)

-----------------------------------------------------------------------------
\* What may become of a message: its event was applied or dead-lettered, or it is
\* unreadable and can only be dropped.
Settled(m) == m \in processed \cup dead \cup {Unreadable}

\* The committed offset never passes a message that is neither applied nor
\* dead-lettered, except where the dead letter itself could not be written:
\* through retries, rebalances, lost commits and crashes, nothing else is lost
\* (Consumer.Run and processEvent).
CommittedIsSettled ==
  \A i \in 1..committed : Settled(topic[i]) \/ i \in skipped

\* What docs/architecture.md says of a failed DLQ write: the message is not marked
\* done, so Kafka can deliver it again.
UnparkedIsNotDone == \A i \in 1..committed : Settled(topic[i])

\* web/lib/architecture.ts says that an event on the dead-letter topic is not
\* credited.
DeadLetterIsNotCredited == \A e \in dead \cap Events : ~Credited(e)

\* Nothing healthy is given up early: every event dead-lettered without FAIL_INJECT
\* has failed MaxAttempts times, each a fault of its own, whatever was redelivered.
GivingUpCostsAttempts ==
  MaxAttempts * Cardinality((dead \cap Events) \ Poison) <= faults

\* Every message of the topic is settled in the end, or its dead letter failed.
EveryMessageSettles ==
  \A i \in 1..MaxTopic :
    (i <= Len(topic)) ~> (i <= Len(topic) /\ (Settled(topic[i]) \/ i \in skipped))
=============================================================================
