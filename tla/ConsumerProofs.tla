--------------------------- MODULE ConsumerProofs ---------------------------
(***************************************************************************)
(* The consumer loses nothing it commits, and is a worker, for any events, *)
(* attempts, messages and faults.  A commit covers every offset before its *)
(* own, so the invariant says of each of them, long before the commit, that*)
(* it is done: what was fetched is done but for the message in hand, which *)
(* a rebalance may have moved away from the reader's position.             *)
(***************************************************************************)
EXTENDS Consumer, WorkerProofs, FiniteSetTheorems

\* Nothing more is owed to a message.
Done(i) == Settled(topic[i]) \/ i \in skipped

\* Where the loop is and what it has in hand.
HandIsRight ==
  /\ committed <= Len(topic) /\ position <= Len(topic) /\ offset <= Len(topic)
  /\ cpc \in {"fetch", "down"} <=> offset = 0
  /\ cpc = "unreadable" => Current = Unreadable
  /\ cpc \in {"handle", "deadletter"} => Current \in Events

\* What is done: all that is committed, all that was fetched but the message in
\* hand, all before that message, and that message when it is to be committed.
BehindIsDone ==
  /\ \A i \in 1..committed : Done(i)
  /\ cpc # "down" => \A i \in 1..position : Done(i) \/ i = offset
  /\ \A i \in 1..(offset - 1) : Done(i)
  /\ cpc = "commit" => Done(offset)

ConsumerInv == ConsumerTypeOK /\ WorkerInv /\ HandIsRight /\ BehindIsDone

-----------------------------------------------------------------------------
\* What is done stays done while tables, letters and the topic only grow.
LEMMA DoneStays ==
  ASSUME ConsumerTypeOK, processed \subseteq processed', dead \subseteq dead',
         skipped \subseteq skipped', \A i \in 1..Len(topic) : topic'[i] = topic[i]
  PROVE  \A i \in 1..Len(topic) : Done(i) => Done(i)'
  BY DEF Done, Settled

\* The message fetched is one of the topic's.
LEMMA TopicMessages ==
  ASSUME TopicTypeOK, NEW i \in 1..Len(topic)
  PROVE  topic[i] \in Events \cup {Unreadable}
  BY DEF TopicTypeOK, Messages

\* A fault leaves the budget kept.
LEMMA FaultType == TopicTypeOK /\ Fault => faults' \in 0..MaxFaults
  BY TopicAssumption DEF TopicTypeOK, Fault

LEMMA ConsumerInitInv == ConsumerInit => ConsumerInv
<1> SUFFICES ASSUME ConsumerInit PROVE ConsumerInv
  OBVIOUS
<1>1. WorkerInv
  BY WorkerInitInv DEF ConsumerInit
<1>2. TopicTypeOK /\ Len(topic) = 0
  BY TopicAssumption DEF ConsumerInit, TopicInit, TopicTypeOK
<1>3. ConsumerTypeOK
  BY <1>1, <1>2, ConsumerAssumption DEF ConsumerInit, ConsumerLoopInit, ConsumerTypeOK, WorkerInv
<1>4. HandIsRight /\ BehindIsDone
  BY <1>2 DEF ConsumerInit, ConsumerLoopInit, HandIsRight, BehindIsDone
<1> QED  BY <1>1, <1>3, <1>4 DEF ConsumerInv

\* Steps of others: the clock, accepted events, and messages appended to the topic.
LEMMA OthersInv ==
  ASSUME ConsumerInv, UNCHANGED <<dbVars, consumerVars>>,
         playerRows' \subseteq Players, now' \in 0..MaxTime, faults' \in 0..MaxFaults,
         UNCHANGED topic \/ \E m \in Messages : Publish(m)
  PROVE  ConsumerInv'
<1> USE DEF ConsumerInv
<1>1. WorkerInv'
  BY TablesUnchangedInv
<1>2. /\ topic' \in Seq(Messages) /\ Len(topic) <= Len(topic') /\ Len(topic) \in Nat
      /\ \A i \in 1..Len(topic) : topic'[i] = topic[i]
  BY DEF ConsumerTypeOK, TopicTypeOK, Publish
<1>3. ConsumerTypeOK'
  BY <1>1, <1>2 DEF ConsumerTypeOK, TopicTypeOK, WorkerInv, consumerVars, readerVars, loopVars
<1>4. \A i \in 1..Len(topic) : Done(i) => Done(i)'
  BY <1>2, DoneStays DEF consumerVars, dbVars
<1>5. HandIsRight'
  BY <1>2 DEF HandIsRight, Current, ConsumerTypeOK, consumerVars, readerVars, loopVars
<1>6. BehindIsDone'
  BY <1>2, <1>4 DEF HandIsRight, BehindIsDone, ConsumerTypeOK, consumerVars, readerVars, loopVars
<1> QED  BY <1>1, <1>3, <1>5, <1>6

\* Steps of the loop that leave the worker's tables alone keep them right.
LEMMA TablesAlone ==
  ASSUME WorkerInv, UNCHANGED workerVars
  PROVE  WorkerInv'
BY TablesUnchangedInv DEF WorkerInv, WorkerTypeOK, workerVars, dbVars

\* A transaction that commits, or finds its mark, marks the message in hand.
LEMMA HandleMarks ==
  ASSUME WorkerInv, NEW e \in Events, Handle(e) \/ SkipDuplicate(e), UNCHANGED now
  PROVE  WorkerInv' /\ processed \subseteq processed' /\ e \in processed'
<1>1. CASE Handle(e)
  BY <1>1, HandleInv DEF Handle, MarkProcessedTx
<1>2. CASE SkipDuplicate(e)
  BY <1>2, TablesUnchangedInv DEF SkipDuplicate, dbVars, WorkerInv, WorkerTypeOK
<1> QED  BY <1>1, <1>2

LEMMA FetchInv ==
  ASSUME ConsumerInv, FetchMessage
  PROVE  ConsumerInv'
<1> USE DEF ConsumerInv, FetchMessage
<1>1. WorkerInv'
  BY TablesAlone
<1>2. position \in Nat /\ position + 1 \in 1..Len(topic) /\ Len(topic) \in Nat
  BY DEF ConsumerTypeOK, TopicTypeOK
<1>3. topic[position + 1] \in Events \cup {Unreadable}
  BY <1>2, TopicMessages DEF ConsumerTypeOK
<1>4. ConsumerTypeOK'
  BY <1>1, <1>2, ConsumerAssumption DEF ConsumerTypeOK, WorkerInv, TopicTypeOK
<1>5. HandIsRight'
  BY <1>2, <1>3 DEF HandIsRight, Current
<1>6. \A i \in 1..Len(topic) : Done(i) => Done(i)'
  BY DoneStays DEF workerVars, dbVars
<1>7. \A i \in 1..position : Done(i)
  BY <1>2 DEF HandIsRight, BehindIsDone
<1>8. BehindIsDone'
  BY <1>2, <1>6, <1>7 DEF HandIsRight, BehindIsDone, ConsumerTypeOK
<1> QED  BY <1>1, <1>4, <1>5, <1>8

\* A step that keeps the message in hand: it must answer for where it goes with it.
LEMMA StayInv ==
  ASSUME ConsumerInv, offset # 0, WorkerInv', processed \subseteq processed',
         dead \subseteq dead', dead' \subseteq Messages,
         cpc' \in {"handle", "deadletter", "commit"},
         cpc' \in {"handle", "deadletter"} => cpc \in {"handle", "deadletter"},
         cpc' = "commit" => Done(offset)',
         attempt' \in 0..MaxAttempts, faults' \in 0..MaxFaults,
         UNCHANGED <<topic, committed, position, offset, skipped>>
  PROVE  ConsumerInv'
<1> USE DEF ConsumerInv
<1>1. ConsumerTypeOK'
  BY DEF ConsumerTypeOK, WorkerInv, TopicTypeOK
<1>2. HandIsRight'
  BY DEF HandIsRight, Current
<1>3. \A i \in 1..Len(topic) : Done(i) => Done(i)'
  BY DoneStays
<1>4. cpc # "down"
  BY DEF HandIsRight
<1>5. BehindIsDone'
  BY <1>3, <1>4 DEF HandIsRight, BehindIsDone, ConsumerTypeOK, TopicTypeOK
<1> QED  BY <1>1, <1>2, <1>5

\* A step that lets go of the message: what it commits is done, and so is what it
\* leaves behind, unless the process is down.
LEMMA LetGoInv ==
  ASSUME ConsumerInv, UNCHANGED <<workerVars, topic>>,
         dead \subseteq dead', dead' \subseteq Messages,
         skipped \subseteq skipped', skipped' \subseteq Nat,
         cpc' \in {"fetch", "down"}, offset' = 0, attempt' = 0,
         committed' \in 0..Len(topic), position' \in 0..Len(topic),
         \A i \in 1..committed' : Done(i)',
         cpc' = "fetch" => \A i \in 1..position' : Done(i)',
         faults' \in 0..MaxFaults
  PROVE  ConsumerInv'
<1> USE DEF ConsumerInv
<1>1. WorkerInv'
  BY TablesAlone
<1>2. Len(topic) \in Nat
  BY DEF ConsumerTypeOK, TopicTypeOK
<1>3. ConsumerTypeOK'
  BY <1>1, <1>2, ConsumerAssumption DEF ConsumerTypeOK, WorkerInv, TopicTypeOK
<1>4. HandIsRight' /\ BehindIsDone'
  BY <1>2 DEF HandIsRight, BehindIsDone
<1> QED  BY <1>1, <1>3, <1>4

\* A failed attempt goes on with the message: once more, or to its dead letter.
LEMMA RetryInv ==
  ASSUME ConsumerInv, cpc = "handle", RetryOrGiveUp, UNCHANGED skipped,
         WorkerInv', processed \subseteq processed', faults' \in 0..MaxFaults
  PROVE  ConsumerInv'
<1>1. offset # 0 /\ attempt \in 0..MaxAttempts /\ dead \subseteq Messages
  BY DEF ConsumerInv, HandIsRight, ConsumerTypeOK
<1>2. attempt' \in 0..MaxAttempts /\ cpc' \in {"handle", "deadletter"}
  BY <1>1, ConsumerAssumption DEF RetryOrGiveUp
<1> QED  BY <1>1, <1>2, StayInv DEF RetryOrGiveUp, readerVars

LEMMA ConsumerStepInv ==
  ASSUME ConsumerInv, ConsumerStep
  PROVE  ConsumerInv'
<1> USE DEF ConsumerInv
<1>0. /\ faults \in 0..MaxFaults /\ attempt \in 0..MaxAttempts /\ dead \subseteq Messages
      /\ TopicTypeOK /\ Fault => faults' \in 0..MaxFaults
  BY FaultType DEF ConsumerTypeOK, TopicTypeOK
<1>1. CASE FetchMessage
  BY <1>1, FetchInv
<1>2. CASE ParkUnreadable
  <2>1. WorkerInv' /\ offset # 0 /\ Current = Unreadable
    BY <1>2, TablesAlone DEF ParkUnreadable, HandIsRight
  <2>2. dead \subseteq dead' /\ dead' \subseteq Messages /\ faults' \in 0..MaxFaults
    <3>1. CASE dead' = dead \cup {Unreadable} /\ UNCHANGED faults
      <4>1. faults' \in 0..MaxFaults
        BY <1>0, <3>1
      <4>2. dead' = dead \cup {Unreadable}
        BY <3>1
      <4> QED  BY <1>0, <4>1, <4>2 DEF Messages
    <3>2. CASE UNCHANGED dead /\ Fault
      <4>1. faults' \in 0..MaxFaults
        BY <1>0, <3>2, TopicAssumption DEF Fault
      <4>2. dead' = dead
        BY <3>2
      <4> QED  BY <1>0, <4>1, <4>2
    <3> QED  BY <1>2, <3>1, <3>2 DEF ParkUnreadable
  <2>3. Done(offset)'
    BY <1>2, <2>1 DEF ParkUnreadable, Current, Done, Settled
  <2> QED  BY <1>0, <1>2, <2>1, <2>2, <2>3, StayInv DEF ParkUnreadable, readerVars, workerVars, dbVars
<1>3. CASE AttemptSucceeds
  <2>1. offset # 0 /\ Current \in Events
    BY <1>3 DEF AttemptSucceeds, HandIsRight
  <2>2. WorkerInv' /\ processed \subseteq processed' /\ Current \in processed'
    BY <1>3, <2>1, HandleMarks DEF AttemptSucceeds
  <2>3. Done(offset)'
    BY <1>3, <2>2 DEF AttemptSucceeds, Current, Done, Settled
  <2> QED  BY <1>0, <1>3, <2>1, <2>2, <2>3, StayInv DEF AttemptSucceeds, readerVars
<1>4. CASE InjectedFailure
  <2>1. UNCHANGED workerVars /\ UNCHANGED skipped
    BY <1>4 DEF InjectedFailure, RetryOrGiveUp, workerVars
  <2>2. WorkerInv' /\ processed \subseteq processed'
    BY <2>1, TablesAlone DEF workerVars, dbVars
  <2> QED  BY <1>0, <1>4, <2>1, <2>2, RetryInv DEF InjectedFailure
<1>5. CASE PublishDLQ
  <2>1. WorkerInv' /\ offset # 0 /\ Current \in Events
    BY <1>5, TablesAlone DEF PublishDLQ, HandIsRight
  <2>2. dead \subseteq dead' /\ dead' \subseteq Messages
    BY <1>0, <1>5, <2>1 DEF PublishDLQ, Messages
  <2>3. Done(offset)'
    BY <1>5 DEF PublishDLQ, Current, Done, Settled
  <2> QED  BY <1>0, <1>5, <2>1, <2>2, <2>3, StayInv DEF PublishDLQ, readerVars, workerVars, dbVars
<1>6. CASE CommitMessages
  <2>1. /\ offset \in 1..Len(topic) /\ position \in 0..Len(topic) /\ skipped \subseteq Nat
        /\ \A i \in 1..offset : Done(i)
        /\ \A i \in 1..position : Done(i)
    BY <1>6 DEF CommitMessages, HandIsRight, BehindIsDone, ConsumerTypeOK, TopicTypeOK
  <2>2. \A i \in 1..Len(topic) : Done(i) => Done(i)'
    BY <1>6, DoneStays DEF CommitMessages, workerVars, dbVars
  <2> QED  BY <1>0, <1>6, <2>1, <2>2, LetGoInv DEF CommitMessages, ToFetch
<1> QED  BY <1>1, <1>2, <1>3, <1>4, <1>5, <1>6 DEF ConsumerStep

LEMMA ConsumerFaultInv ==
  ASSUME ConsumerInv, ConsumerFault
  PROVE  ConsumerInv'
<1> USE DEF ConsumerInv
<1>0. /\ dead \subseteq Messages /\ skipped \subseteq Nat /\ TopicTypeOK
      /\ Fault => faults' \in 0..MaxFaults
  BY FaultType DEF ConsumerTypeOK
<1>1. CASE AttemptFails
  <2>1. UNCHANGED workerVars /\ UNCHANGED skipped
    BY <1>1 DEF AttemptFails, RetryOrGiveUp, workerVars
  <2>2. WorkerInv' /\ processed \subseteq processed'
    BY <2>1, TablesAlone DEF workerVars, dbVars
  <2> QED  BY <1>0, <1>1, <2>1, <2>2, RetryInv DEF AttemptFails
<1>2. CASE CommitAnswerLost
  <2>1. Current \in Events /\ UNCHANGED now /\ UNCHANGED skipped
    BY <1>2 DEF CommitAnswerLost, HandIsRight, RetryOrGiveUp
  <2>2. WorkerInv' /\ processed \subseteq processed'
    BY <1>2, <2>1, HandleMarks DEF CommitAnswerLost
  <2> QED  BY <1>0, <1>2, <2>1, <2>2, RetryInv DEF CommitAnswerLost
<1>3. CASE PublishDLQFails
  <2>1. /\ offset \in 1..Len(topic) /\ position \in 0..Len(topic) /\ committed \in 0..Len(topic)
        /\ Current \in Events
    BY <1>3 DEF PublishDLQFails, HandIsRight, ConsumerTypeOK, TopicTypeOK
  <2>2. dead \subseteq dead' /\ dead' \subseteq Messages /\ skipped' = skipped \cup {offset}
    BY <1>0, <1>3, <2>1 DEF PublishDLQFails, Messages
  <2>3. \A i \in 1..Len(topic) : Done(i) \/ i = offset => Done(i)'
    <3>1. \A i \in 1..Len(topic) : Done(i) => Done(i)'
      BY <1>3, <2>2, DoneStays DEF PublishDLQFails, workerVars, dbVars
    <3>2. \A i \in 1..Len(topic) : i = offset => Done(i)'
      BY <2>2 DEF Done
    <3> QED  BY <3>1, <3>2
  <2>4. /\ \A i \in 1..committed : Done(i)
        /\ \A i \in 1..position : Done(i) \/ i = offset
    BY <1>3 DEF PublishDLQFails, BehindIsDone
  <2>5. /\ \A i \in 1..committed : Done(i)'
        /\ \A i \in 1..position : Done(i)'
    BY <1>0, <2>1, <2>3, <2>4
  <2> QED  BY <1>0, <1>3, <2>1, <2>2, <2>5, LetGoInv DEF PublishDLQFails, ToFetch, readerVars
<1>4. CASE CommitMessagesFails
  <2>1. /\ committed' \in 0..Len(topic) /\ position \in 0..Len(topic)
        /\ \A i \in 1..committed' : Done(i)
    BY <1>4 DEF CommitMessagesFails, HandIsRight, BehindIsDone, ConsumerTypeOK, TopicTypeOK
  <2>2. \A i \in 1..Len(topic) : Done(i) => Done(i)'
    BY <1>4, DoneStays DEF CommitMessagesFails, workerVars, dbVars
  <2> QED  BY <1>0, <1>4, <2>1, <2>2, LetGoInv DEF CommitMessagesFails
<1>5. CASE Rebalance
  <2>1. WorkerInv'
    BY <1>5, TablesAlone DEF Rebalance
  <2>2. ConsumerTypeOK'
    BY <1>0, <1>5, <2>1 DEF Rebalance, ConsumerTypeOK, TopicTypeOK, WorkerInv, loopVars
  <2>3. \A i \in 1..Len(topic) : Done(i) => Done(i)'
    BY <1>5, DoneStays DEF Rebalance, workerVars, dbVars
  <2>4. HandIsRight' /\ BehindIsDone'
    BY <1>5, <2>3 DEF Rebalance, HandIsRight, BehindIsDone, Current, loopVars, ConsumerTypeOK, TopicTypeOK
  <2> QED  BY <2>1, <2>2, <2>4
<1> QED  BY <1>1, <1>2, <1>3, <1>4, <1>5 DEF ConsumerFault

\* The process dies or starts again.
LEMMA ConsumerStopStartInv ==
  ASSUME ConsumerInv, (StopConsumer /\ Fault) \/ StartConsumer
  PROVE  ConsumerInv'
<1> USE DEF ConsumerInv
<1>0. /\ dead \subseteq Messages /\ skipped \subseteq Nat /\ TopicTypeOK
      /\ faults \in 0..MaxFaults
      /\ committed \in 0..Len(topic) /\ position \in 0..Len(topic)
      /\ \A i \in 1..committed : Done(i)
  BY DEF ConsumerTypeOK, TopicTypeOK, HandIsRight, BehindIsDone
<1>1. CASE StopConsumer /\ Fault
  <2>1. \A i \in 1..Len(topic) : Done(i) => Done(i)'
    BY <1>1, DoneStays DEF StopConsumer, workerVars, dbVars
  <2>2. \A i \in 1..committed : Done(i)'
    BY <1>0, <2>1 DEF TopicTypeOK
  <2>3. /\ dead \subseteq dead' /\ dead' \subseteq Messages
        /\ skipped \subseteq skipped' /\ skipped' \subseteq Nat
        /\ committed' \in 0..Len(topic) /\ position' \in 0..Len(topic)
        /\ \A i \in 1..committed' : Done(i)'
    BY <1>0, <1>1, <2>2 DEF StopConsumer, readerVars
  <2>4. faults' \in 0..MaxFaults
    BY <1>0, <1>1, TopicAssumption DEF Fault
  <2> QED  BY <1>1, <2>3, <2>4, LetGoInv DEF StopConsumer
<1>2. CASE StartConsumer
  <2>1. \A i \in 1..Len(topic) : Done(i) => Done(i)'
    BY <1>2, DoneStays DEF StartConsumer, workerVars, dbVars
  <2>2. WorkerInv' /\ ConsumerTypeOK'
    BY <1>0, <1>2, TablesAlone DEF StartConsumer, ConsumerTypeOK, TopicTypeOK, WorkerInv
  <2>3. HandIsRight' /\ BehindIsDone'
    BY <1>0, <1>2, <2>1 DEF StartConsumer, HandIsRight, BehindIsDone
  <2> QED  BY <2>2, <2>3
<1> QED  BY <1>1, <1>2

\* What a step of the loop does outside the loop: it commits the transaction of the
\* message in hand, writes its dead letter, or does neither.
LEMMA ConsumerEffects ==
  ASSUME ConsumerInv, ConsumerStep \/ ConsumerFault
  PROVE  /\ UNCHANGED <<now, topic>>
         /\ \/ Current \in Events /\ offset # 0 /\ Handle(Current) /\ UNCHANGED dead
            \/ offset # 0 /\ dead' = dead \cup {Current} /\ UNCHANGED workerVars
            \/ UNCHANGED <<workerVars, dead>>
<1>0. /\ cpc = "unreadable" => Current = Unreadable
      /\ cpc = "handle" => Current \in Events
      /\ cpc \in {"handle", "unreadable", "deadletter"} => offset # 0
  BY DEF ConsumerInv, HandIsRight
<1>1. CASE FetchMessage
  BY <1>1 DEF FetchMessage, workerVars
<1>2. CASE ParkUnreadable
  BY <1>0, <1>2 DEF ParkUnreadable, workerVars
<1>3. CASE AttemptSucceeds
  BY <1>0, <1>3 DEF AttemptSucceeds, SkipDuplicate, workerVars
<1>4. CASE InjectedFailure \/ AttemptFails
  BY <1>4 DEF InjectedFailure, AttemptFails, RetryOrGiveUp, workerVars
<1>5. CASE PublishDLQ
  BY <1>0, <1>5 DEF PublishDLQ, workerVars
<1>6. CASE CommitMessages \/ CommitMessagesFails \/ Rebalance
  BY <1>6 DEF CommitMessages, CommitMessagesFails, Rebalance, workerVars
<1>7. CASE CommitAnswerLost
  BY <1>0, <1>7 DEF CommitAnswerLost, RetryOrGiveUp
<1>8. CASE PublishDLQFails
  BY <1>0, <1>8 DEF PublishDLQFails, workerVars
<1> QED  BY <1>1, <1>2, <1>3, <1>4, <1>5, <1>6, <1>7, <1>8 DEF ConsumerStep, ConsumerFault

LEMMA ConsumerNextInv == ConsumerInv /\ [ConsumerNext]_allConsumerVars => ConsumerInv'
<1> SUFFICES ASSUME ConsumerInv, [ConsumerNext]_allConsumerVars PROVE ConsumerInv'
  OBVIOUS
<1>0. playerRows \subseteq Players /\ now \in 0..MaxTime /\ faults \in 0..MaxFaults
  BY DEF ConsumerInv, ConsumerTypeOK, WorkerTypeOK, TopicTypeOK
<1>1. ASSUME NEW m \in Messages, Produce(m) PROVE ConsumerInv'
  BY <1>0, <1>1, OthersInv DEF Produce, workerVars
<1>2. CASE Tick /\ UNCHANGED <<topic, faults, consumerVars>>
  BY <1>0, <1>2, OthersInv, WorkerAssumption DEF Tick
<1>3. CASE UNCHANGED allConsumerVars
  BY <1>0, <1>3, OthersInv DEF allConsumerVars, workerVars
<1> QED  BY <1>1, <1>2, <1>3, ConsumerStepInv, ConsumerFaultInv, ConsumerStopStartInv DEF ConsumerNext

-----------------------------------------------------------------------------
\* CommittedIsSettled holds always: whatever is redelivered, retried, rebalanced or
\* crashes, no commit passes a message that is neither applied, nor dead-lettered,
\* nor one whose dead letter could not be written.
THEOREM ConsumerCommitsSettled == ConsumerSpec => []CommittedIsSettled
<1>1. ConsumerInv => CommittedIsSettled
  BY DEF ConsumerInv, BehindIsDone, Done, CommittedIsSettled
<1> QED  BY ConsumerInitInv, ConsumerNextInv, <1>1, PTL DEF ConsumerSpec

\* The consumer, with its retries and redeliveries, is a worker: each of its steps is
\* a committed Handle, a duplicate, a tick of the clock, or changes none of the tables.
THEOREM ConsumerImplementsWorker == ConsumerSpec => WorkerSpec
<1>1. ConsumerInit => WorkerInit
  BY DEF ConsumerInit
<1>2. ConsumerInv /\ [ConsumerNext]_allConsumerVars => [WorkerNext]_workerVars
  <2> SUFFICES ASSUME ConsumerInv, [ConsumerNext]_allConsumerVars, ~UNCHANGED workerVars
               PROVE  WorkerNext
    OBVIOUS
  <2>1. CASE ConsumerStep \/ ConsumerFault
    BY <2>1, ConsumerEffects DEF WorkerNext
  <2>2. CASE Tick
    BY <2>2 DEF WorkerNext
  <2>3. ~StopConsumer /\ ~StartConsumer /\ ~UNCHANGED allConsumerVars /\ \A m \in Messages : ~Produce(m)
    BY DEF StopConsumer, StartConsumer, Produce, allConsumerVars
  <2> QED  BY <2>1, <2>2, <2>3 DEF ConsumerNext
<1> QED  BY ConsumerInitInv, ConsumerNextInv, <1>1, <1>2, PTL DEF ConsumerSpec, WorkerSpec

\* So credit-once holds of the consumer, with all its retries and redeliveries.
THEOREM ConsumerCreditsOnce == ConsumerSpec => []WelcomeOnce
BY ConsumerImplementsWorker, WorkerCreditsOnce, PTL

-----------------------------------------------------------------------------
\* Events given up that FAIL_INJECT does not hit.
Healthy == (dead \cap Events) \ Poison

\* Faults the message in hand has cost so far.
Spent ==
  IF cpc \in {"handle", "deadletter"} /\ Current \notin Poison
    THEN IF cpc = "handle" THEN attempt - 1 ELSE MaxAttempts
    ELSE 0

\* Every healthy event given up has cost its attempts, next to those in hand.
AttemptsArePaid ==
  /\ cpc = "handle" => attempt >= 1
  /\ MaxAttempts * Cardinality(Healthy) + Spent <= faults

PaidInv == ConsumerInv /\ AttemptsArePaid

LEMMA HealthyCount == IsFiniteSet(Healthy) /\ Cardinality(Healthy) \in Nat
<1>1. IsFiniteSet(Events) /\ Healthy \subseteq Events
  BY EventsAssumption DEF Healthy
<1> QED  BY <1>1, FS_Subset, FS_CardinalityType

\* One more event given up costs at most MaxAttempts more.
LEMMA OneMoreLetter ==
  ASSUME NEW n \in Nat, NEW k \in Nat, k <= n + 1
  PROVE  MaxAttempts * k <= MaxAttempts * n + MaxAttempts
<1>1. MaxAttempts \in Nat
  BY ConsumerAssumption
<1>2. MaxAttempts * (n + 1) = MaxAttempts * n + MaxAttempts
  BY <1>1
<1>3. \A a, b \in Nat : a <= b => MaxAttempts * a <= MaxAttempts * b
  BY <1>1
<1> QED  BY <1>2, <1>3

\* Steps that write no healthy letter: faults may only grow by what is spent.
LEMMA NoLetterPaid ==
  ASSUME AttemptsArePaid, Healthy' = Healthy, cpc' = "handle" => attempt' >= 1,
         faults \in Nat, faults' \in Nat, Spent \in Nat, Spent' \in Nat,
         Spent' - Spent <= faults' - faults
  PROVE  AttemptsArePaid'
<1>1. Cardinality(Healthy) \in Nat /\ MaxAttempts \in Nat
  BY HealthyCount, ConsumerAssumption
<1>2. MaxAttempts * Cardinality(Healthy) \in Nat
  BY <1>1
<1>3. (MaxAttempts * Cardinality(Healthy))' = MaxAttempts * Cardinality(Healthy)
  OBVIOUS
<1>4. \A c, s, t, f, g \in Nat : c + s <= f /\ t - s <= g - f => c + t <= g
  OBVIOUS
<1>5. MaxAttempts * Cardinality(Healthy) + Spent <= faults
  BY DEF AttemptsArePaid
<1>6. MaxAttempts * Cardinality(Healthy) + Spent' <= faults'
  BY <1>2, <1>4, <1>5
<1> QED  BY <1>3, <1>6 DEF AttemptsArePaid

\* Spending no more is paid by whatever faults there are.
LEMMA NothingMoreSpent ==
  \A s, t, f, g \in Nat : (t = s \/ t = 0) /\ f <= g => t - s <= g - f
OBVIOUS

\* A dead letter of the message in hand, for which its attempts were spent.
LEMMA LetterPaid ==
  ASSUME ConsumerInv, AttemptsArePaid, cpc = "deadletter", dead' = dead \cup {Current},
         Spent' = 0, cpc' # "handle", faults' \in Nat, faults' >= faults
  PROVE  AttemptsArePaid'
<1>1. /\ Cardinality(Healthy) \in Nat /\ Cardinality(Healthy)' \in Nat /\ MaxAttempts \in Nat
      /\ faults \in Nat
  <2>1. IsFiniteSet(Events) /\ Healthy' \subseteq Events
    BY EventsAssumption DEF Healthy
  <2> QED  BY <2>1, HealthyCount, ConsumerAssumption, FS_Subset, FS_CardinalityType
           DEF ConsumerInv, ConsumerTypeOK, TopicTypeOK
<1>2. CASE Current \in Poison
  <2>1. Healthy' = Healthy /\ Spent = 0
    BY <1>2 DEF Healthy, Spent
  <2>2. Spent \in Nat /\ Spent' \in Nat /\ Spent' - Spent <= faults' - faults
    BY <1>1, <2>1, NothingMoreSpent
  <2> QED  BY <1>1, <2>1, <2>2, NoLetterPaid
<1>3. CASE Current \notin Poison
  <2>1. Spent = MaxAttempts
    BY <1>3 DEF Spent
  <2>2. Healthy' \subseteq Healthy \cup {Current}
    BY DEF Healthy
  <2>3. Cardinality(Healthy)' <= Cardinality(Healthy) + 1
    <3>1. IsFiniteSet(Healthy \cup {Current})
          /\ Cardinality(Healthy \cup {Current}) <= Cardinality(Healthy) + 1
      BY HealthyCount, FS_AddElement
    <3>2. Cardinality(Healthy)' <= Cardinality(Healthy \cup {Current})
      BY <2>2, <3>1, FS_Subset
    <3>3. Cardinality(Healthy \cup {Current}) \in Nat
      BY <3>1, FS_CardinalityType
    <3> QED  BY <1>1, <3>1, <3>2, <3>3
  <2>4. MaxAttempts * Cardinality(Healthy)' <= MaxAttempts * Cardinality(Healthy) + MaxAttempts
    BY <1>1, <2>3, OneMoreLetter
  <2>5. MaxAttempts * Cardinality(Healthy) + MaxAttempts <= faults
    BY <2>1 DEF AttemptsArePaid
  <2>6. MaxAttempts * Cardinality(Healthy)' \in Nat /\ MaxAttempts * Cardinality(Healthy) \in Nat
    BY <1>1
  <2>7. MaxAttempts * Cardinality(Healthy)' <= faults'
    BY <1>1, <2>4, <2>5, <2>6
  <2> QED  BY <2>6, <2>7 DEF AttemptsArePaid
<1> QED  BY <1>2, <1>3

LEMMA PaidStep ==
  ASSUME PaidInv, [ConsumerNext]_allConsumerVars
  PROVE  AttemptsArePaid'
<1> USE DEF PaidInv
<1>0. /\ ConsumerInv' /\ faults \in Nat /\ faults' \in Nat
      /\ attempt \in 0..MaxAttempts /\ MaxAttempts \in Nat \ {0}
      /\ Spent \in Nat /\ AttemptsArePaid
  <2>1. ConsumerInv'
    BY ConsumerNextInv
  <2>2. faults \in Nat /\ faults' \in Nat /\ attempt \in 0..MaxAttempts /\ MaxAttempts \in Nat \ {0}
    BY <2>1, TopicAssumption, ConsumerAssumption DEF ConsumerInv, ConsumerTypeOK, TopicTypeOK
  <2>3. Spent \in Nat
    BY <2>2 DEF AttemptsArePaid, Spent
  <2> QED  BY <2>1, <2>2, <2>3
\* Nothing is spent on what is not handled, and a fresh message has cost nothing.
<1>1. ASSUME dead' \cap Events = dead \cap Events, cpc' \in {"handle", "deadletter"} => cpc' = "handle" /\ attempt' = 1,
             faults' >= faults
      PROVE  AttemptsArePaid'
  <2>1. Spent' = 0
    BY <1>1 DEF Spent
  <2>2. Spent' \in Nat /\ Spent' - Spent <= faults' - faults
    BY <1>0, <1>1, <2>1, NothingMoreSpent
  <2>3. Healthy' = Healthy /\ (cpc' = "handle" => attempt' >= 1)
    BY <1>1 DEF Healthy
  <2> QED  BY <1>0, <2>2, <2>3, NoLetterPaid
\* A failed attempt of a healthy event costs a fault.
<1>2. ASSUME cpc = "handle", RetryOrGiveUp, faults' >= faults,
             Current \notin Poison => faults' = faults + 1
      PROVE  AttemptsArePaid'
  <2>1. Healthy' = Healthy /\ Current' = Current
    BY <1>2 DEF RetryOrGiveUp, Healthy, Current
  <2>2. cpc' = "handle" => attempt' >= 1
    BY <1>0, <1>2 DEF RetryOrGiveUp
  <2>3. Spent' \in Nat /\ Spent' - Spent <= faults' - faults
    BY <1>0, <1>2, <2>1 DEF RetryOrGiveUp, Spent, AttemptsArePaid
  <2> QED  BY <1>0, <2>1, <2>2, <2>3, NoLetterPaid
\* A step that leaves the message where it is.
<1>3. ASSUME UNCHANGED <<cpc, attempt, dead>>, Current' = Current \/ cpc \notin {"handle", "deadletter"},
             faults' >= faults
      PROVE  AttemptsArePaid'
  <2>1. Healthy' = Healthy /\ Spent' = Spent
    BY <1>3 DEF Healthy, Spent
  <2>2. Spent' \in Nat /\ Spent' - Spent <= faults' - faults
    BY <1>0, <1>3, <2>1, NothingMoreSpent
  <2>3. cpc' = "handle" => attempt' >= 1
    BY <1>0, <1>3 DEF AttemptsArePaid
  <2> QED  BY <1>0, <2>1, <2>2, <2>3, NoLetterPaid
<1>4. Fault => faults' >= faults /\ faults' = faults + 1
  BY <1>0 DEF Fault
<1>5. CASE FetchMessage \/ AttemptSucceeds \/ CommitMessages
  BY <1>0, <1>1, <1>5 DEF FetchMessage, AttemptSucceeds, CommitMessages, ToFetch
<1>6. CASE ParkUnreadable
  <2>1. dead' \cap Events = dead \cap Events
    BY <1>6, TopicAssumption DEF ParkUnreadable
  <2> QED  BY <1>0, <1>1, <1>4, <1>6, <2>1 DEF ParkUnreadable
<1>7. CASE InjectedFailure
  BY <1>0, <1>2, <1>7 DEF InjectedFailure
<1>8. CASE AttemptFails \/ CommitAnswerLost
  BY <1>2, <1>4, <1>8 DEF AttemptFails, CommitAnswerLost
<1>9. CASE PublishDLQ
  BY <1>0, <1>9, LetterPaid DEF PublishDLQ, Spent
<1>10. CASE PublishDLQFails
  <2>1. cpc = "deadletter" /\ cpc' = "fetch" /\ faults' >= faults
    BY <1>4, <1>10 DEF PublishDLQFails, ToFetch
  <2>2. CASE dead' = dead
    BY <1>1, <2>1, <2>2
  <2>3. CASE dead' = dead \cup {Current}
    BY <1>0, <2>1, <2>3, LetterPaid DEF Spent
  <2> QED  BY <1>10, <2>2, <2>3 DEF PublishDLQFails
<1>11. CASE CommitMessagesFails \/ (StopConsumer /\ Fault) \/ StartConsumer
  BY <1>0, <1>1, <1>4, <1>11 DEF CommitMessagesFails, StopConsumer, StartConsumer
<1>12. CASE Rebalance
  BY <1>3, <1>4, <1>12 DEF Rebalance, loopVars, Current
<1>13. ASSUME NEW m \in Messages, Produce(m) PROVE AttemptsArePaid'
  <2>1. Current' = Current \/ cpc \notin {"handle", "deadletter"}
    BY <1>13 DEF Produce, Publish, Current, consumerVars, loopVars, ConsumerInv, ConsumerTypeOK,
           TopicTypeOK, HandIsRight
  <2> QED  BY <1>0, <1>3, <1>13, <2>1 DEF Produce, consumerVars, loopVars
<1>14. CASE (Tick /\ UNCHANGED <<topic, faults, consumerVars>>) \/ UNCHANGED allConsumerVars
  BY <1>0, <1>3, <1>14 DEF allConsumerVars, consumerVars, loopVars, Current
<1> QED  BY <1>5, <1>6, <1>7, <1>8, <1>9, <1>10, <1>11, <1>12, <1>13, <1>14
         DEF ConsumerNext, ConsumerStep, ConsumerFault

\* GivingUpCostsAttempts holds always: no healthy event is dead-lettered before
\* MaxAttempts faults of its own, whatever is redelivered.
THEOREM ConsumerGivesUpLate == ConsumerSpec => []GivingUpCostsAttempts
<1>1. ConsumerInit => PaidInv
  <2> SUFFICES ASSUME ConsumerInit PROVE PaidInv
    OBVIOUS
  <2>1. Healthy = {} /\ Spent = 0 /\ cpc = "fetch" /\ faults = 0
    BY DEF ConsumerInit, ConsumerLoopInit, TopicInit, Healthy, Spent
  <2>2. MaxAttempts * Cardinality(Healthy) = 0
    BY <2>1, FS_EmptySet, ConsumerAssumption
  <2> QED  BY <2>1, <2>2, ConsumerInitInv DEF PaidInv, AttemptsArePaid
<1>2. PaidInv /\ [ConsumerNext]_allConsumerVars => PaidInv'
  BY ConsumerNextInv, PaidStep DEF PaidInv
<1>3. PaidInv => GivingUpCostsAttempts
  <2> SUFFICES ASSUME PaidInv PROVE GivingUpCostsAttempts
    OBVIOUS
  <2>1. /\ Cardinality(Healthy) \in Nat /\ MaxAttempts \in Nat /\ faults \in Nat
        /\ attempt \in 0..MaxAttempts
    BY HealthyCount, ConsumerAssumption DEF PaidInv, ConsumerInv, ConsumerTypeOK, TopicTypeOK
  <2>2. MaxAttempts * Cardinality(Healthy) \in Nat /\ Spent \in Nat
    BY <2>1 DEF PaidInv, AttemptsArePaid, Spent
  <2>3. MaxAttempts * Cardinality(Healthy) <= faults
    BY <2>1, <2>2 DEF PaidInv, AttemptsArePaid
  <2> QED  BY <2>3 DEF GivingUpCostsAttempts, Healthy
<1> QED  BY <1>1, <1>2, <1>3, PTL DEF ConsumerSpec
=============================================================================
