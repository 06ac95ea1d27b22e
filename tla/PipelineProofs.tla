--------------------------- MODULE PipelineProofs ---------------------------
(***************************************************************************)
(* The whole program keeps its promise, for any events, batch, attempts,   *)
(* thresholds and faults.  The invariants of its two halves are invariants *)
(* of the composition: the publisher's steps are steps of others for the   *)
(* consumer, which appends nothing and creates no rows but a player's.     *)
(* With them every step is a step of Delivery, or changes nothing of it.   *)
(***************************************************************************)
EXTENDS Pipeline, OutboxProofs, ConsumerProofs

PipelineInv == OutboxInv /\ ConsumerInv /\ OnlySavedTakesEffect

-----------------------------------------------------------------------------
\* What a publisher's steps leave alone, and that they send events only.
LEMMA PublisherFrame ==
  ASSUME OutboxInv, NEW w \in Publishers, FlushStep(w) \/ FlushFault(w)
  PROVE  /\ Rows' = Rows
         /\ UNCHANGED <<playerRows, acked>>
         /\ UNCHANGED topic \/ \E e \in Events : Publish(e)
<1> USE DEF OutboxInv
<1>1. /\ ToClaim \cap Events \subseteq Rows /\ Publishing \cap Events \subseteq Rows
      /\ pc[w] \in {"mark", "unmark"} => {cur[w]} \cap Events \subseteq Rows
  BY DEF ToClaim, Pending, Publishing, Rows, PublisherHolds
<1>2. UNCHANGED status => Rows' = Rows
  BY DEF Rows
<1>3. CASE BeginFlush(w) \/ EndFlush(w)
  BY <1>2, <1>3 DEF BeginFlush, EndFlush, rowVars
<1>4. CASE ReclaimPublishingOutbox(w)
  BY <1>1, <1>4, SetStatusRows DEF ReclaimPublishingOutbox
<1>5. CASE ClaimPendingOutbox(w)
  BY <1>1, <1>5, SetStatusRows DEF ClaimPendingOutbox
<1>6. ASSUME NEW e \in Events, PublishOk(w, e) \/ PublishFails(w, e) \/ PublishRepeats(w, e)
      PROVE  /\ Rows' = Rows
             /\ UNCHANGED <<playerRows, acked>>
             /\ UNCHANGED topic \/ Publish(e)
  BY <1>2, <1>6 DEF PublishOk, PublishFails, PublishRepeats, rowVars
<1>7. CASE MarkOutboxPublished(w)
  BY <1>1, <1>7, SetStatusRows DEF MarkOutboxPublished, NextRow, Goto
<1>8. CASE MarkOutboxPublishFailed(w)
  BY <1>1, <1>8, SetStatusRows DEF MarkOutboxPublishFailed, NextRow, Goto
<1>9. CASE FlushFails(w)
  BY <1>1, <1>2, <1>9, SetStatusRows DEF FlushFails
<1>10. CASE MarkOutboxPublishedFails(w)
  BY <1>1, <1>2, <1>10, SetStatusRows DEF MarkOutboxPublishedFails, Goto
<1>11. CASE MarkOutboxPublishFailedFails(w)
  BY <1>2, <1>11 DEF MarkOutboxPublishFailedFails, rowVars
<1> QED  BY <1>3, <1>4, <1>5, <1>6, <1>7, <1>8, <1>9, <1>10, <1>11 DEF FlushStep, FlushFault

\* An accepted event adds its row and its player's rows, and sends nothing.
LEMMA AcceptFrame ==
  ASSUME OutboxInv, NEW e \in Events, Accept(e)
  PROVE  /\ UNCHANGED topic
         /\ Rows' = Rows \cup {e}
         /\ playerRows \subseteq playerRows'
         /\ PlayerOf[e] \in playerRows' \/ e \in Rows
BY DEF Accept, AcceptNew, AcceptUnanswered, AcceptDuplicate, InsertRow, EnsurePlayer, SetStatus, Rows,
       OutboxInv, OutboxTypeOK

\* Steps of the consumer and the clock, as the outbox sees them.
LEMMA OutboxUntouched ==
  ASSUME OutboxInv, OutboxIdle, UNCHANGED topic, playerRows' \subseteq Players,
         faults' \in 0..MaxFaults
  PROVE  OutboxInv' /\ Rows' = Rows
BY DEF OutboxInv, OutboxTypeOK, TopicTypeOK, PublishedMeansInTopic, PublisherHolds, InTopic, Rows,
       OutboxIdle, ingestVars, publisherVars

\* The message in hand was saved.
LEMMA HandIsSaved ==
  ASSUME PipelineInv, offset # 0
  PROVE  Current \in Rows
BY DEF PipelineInv, OutboxInv, PublishedMeansInTopic, ConsumerInv, HandIsRight, ConsumerTypeOK,
       TopicTypeOK, Current

-----------------------------------------------------------------------------
\* What a step of the program does to what partners can see, next to keeping the
\* halves' invariants: it saves an event, applies or parks the one in hand, or
\* changes none of it.
Effect ==
  \/ \E e \in Events : /\ Rows' = Rows \cup {e}
                       /\ playerRows \subseteq playerRows'
                       /\ PlayerOf[e] \in playerRows' \/ e \in Rows
                       /\ UNCHANGED <<dbVars, dead>>
  \/ /\ Current \in Events \cap Rows /\ Handle(Current)
     /\ UNCHANGED <<now, dead>> /\ Rows' = Rows
  \/ /\ Current \in Rows /\ dead' = dead \cup {Current}
     /\ UNCHANGED workerVars /\ Rows' = Rows
  \/ UNCHANGED <<playerRows, dbVars, dead>> /\ Rows' = Rows

\* The types the halves need of each other.
LEMMA SharedTypes ==
  ASSUME PipelineInv
  PROVE  playerRows \subseteq Players /\ now \in 0..MaxTime /\ faults \in 0..MaxFaults
BY DEF PipelineInv, ConsumerInv, ConsumerTypeOK, WorkerTypeOK, TopicTypeOK

\* An event is posted, for the first time, again, or by a human.
LEMMA PostStep ==
  ASSUME PipelineInv, NEW e \in Events, Accept(e), ConsumerIdle
  PROVE  OutboxInv' /\ ConsumerInv' /\ Effect
<1>1. OutboxInv'
  BY AcceptInv DEF PipelineInv
<1>2. playerRows' \subseteq Players /\ faults' \in 0..MaxFaults /\ now' \in 0..MaxTime
  BY <1>1, SharedTypes DEF OutboxInv, OutboxTypeOK, TopicTypeOK, ConsumerIdle
<1>3. /\ UNCHANGED topic
      /\ Rows' = Rows \cup {e}
      /\ playerRows \subseteq playerRows'
      /\ PlayerOf[e] \in playerRows' \/ e \in Rows
  BY AcceptFrame DEF PipelineInv
<1>4. ConsumerInv'
  BY <1>2, <1>3, OthersInv DEF PipelineInv, ConsumerIdle
<1>5. UNCHANGED <<dbVars, dead>>
  BY DEF ConsumerIdle, consumerVars
<1> QED  BY <1>1, <1>3, <1>4, <1>5 DEF Effect

\* A publisher's step sends a saved event, or moves rows and nothing else.
LEMMA PublisherStep ==
  ASSUME PipelineInv, NEW w \in Publishers, FlushStep(w) \/ FlushFault(w), ConsumerIdle
  PROVE  OutboxInv' /\ ConsumerInv' /\ Effect
<1>1. OutboxInv'
  BY FlushStepInv, FlushFaultInv DEF PipelineInv
<1>2. /\ Rows' = Rows /\ UNCHANGED playerRows
      /\ UNCHANGED topic \/ \E e \in Events : Publish(e)
  BY PublisherFrame DEF PipelineInv
<1>3. playerRows' \subseteq Players /\ faults' \in 0..MaxFaults /\ now' \in 0..MaxTime
  BY <1>1, SharedTypes DEF OutboxInv, OutboxTypeOK, TopicTypeOK, ConsumerIdle
<1>4. UNCHANGED topic \/ \E m \in Messages : Publish(m)
  BY <1>2 DEF Messages
<1>5. ConsumerInv'
  BY <1>3, <1>4, OthersInv DEF PipelineInv, ConsumerIdle
<1>6. UNCHANGED <<dbVars, dead>>
  BY DEF ConsumerIdle, consumerVars
<1> QED  BY <1>1, <1>2, <1>5, <1>6 DEF Effect

\* The consumer's step applies or parks the saved event it has, or moves only itself.
LEMMA ConsumerLoopStep ==
  ASSUME PipelineInv, ConsumerStep \/ ConsumerFault, OutboxIdle
  PROVE  OutboxInv' /\ ConsumerInv' /\ Effect
<1>1. ConsumerInv'
  BY ConsumerStepInv, ConsumerFaultInv DEF PipelineInv
<1>2. playerRows' \subseteq Players /\ faults' \in 0..MaxFaults
  BY <1>1 DEF ConsumerInv, ConsumerTypeOK, WorkerTypeOK, TopicTypeOK
<1>3. /\ UNCHANGED <<now, topic>>
      /\ \/ Current \in Events /\ offset # 0 /\ Handle(Current) /\ UNCHANGED dead
         \/ offset # 0 /\ dead' = dead \cup {Current} /\ UNCHANGED workerVars
         \/ UNCHANGED <<workerVars, dead>>
  BY ConsumerEffects DEF PipelineInv
<1>4. OutboxInv' /\ Rows' = Rows
  BY <1>2, <1>3, OutboxUntouched DEF PipelineInv
<1>5. CASE Current \in Events /\ offset # 0 /\ Handle(Current) /\ UNCHANGED dead
  BY <1>1, <1>3, <1>4, <1>5, HandIsSaved DEF Effect
<1>6. CASE offset # 0 /\ dead' = dead \cup {Current} /\ UNCHANGED workerVars
  BY <1>1, <1>4, <1>6, HandIsSaved DEF Effect
<1>7. CASE UNCHANGED <<workerVars, dead>>
  BY <1>1, <1>4, <1>7 DEF Effect, workerVars
<1> QED  BY <1>3, <1>5, <1>6, <1>7

\* The process dies, follows its consumer, or starts again.
LEMMA ProcessStep ==
  ASSUME PipelineInv, Crash \/ Exit \/ Start
  PROVE  OutboxInv' /\ ConsumerInv' /\ Effect
<1>1. App \in Publishers
  BY AppAssumption
<1>2. CASE Crash
  <2>1. ConsumerInv' /\ UNCHANGED <<workerVars, dead>>
    BY <1>2, ConsumerStopStartInv DEF PipelineInv, Crash, StopConsumer
  <2>2. OutboxInv'
    BY <1>1, <1>2, <2>1, StopStartInv DEF PipelineInv, Crash, ConsumerInv, ConsumerTypeOK, TopicTypeOK
  <2>3. Rows' = Rows
    BY <1>2 DEF Crash, StopPublisher, rowVars, Rows
  <2> QED  BY <2>1, <2>2, <2>3 DEF Effect, workerVars
<1>3. CASE Exit
  <2>1. OutboxInv'
    BY <1>1, <1>3, SharedTypes, StopStartInv DEF PipelineInv, Exit
  <2>2. Rows' = Rows /\ UNCHANGED <<playerRows, topic>>
    BY <1>3 DEF Exit, StopPublisher, rowVars, Rows
  <2>3. ConsumerInv'
    BY <1>3, <2>2, SharedTypes, OthersInv DEF PipelineInv, Exit
  <2>4. UNCHANGED <<dbVars, dead>>
    BY <1>3 DEF Exit, consumerVars
  <2> QED  BY <2>1, <2>2, <2>3, <2>4 DEF Effect
<1>4. CASE Start
  <2>1. ConsumerInv' /\ UNCHANGED <<workerVars, dead, faults>>
    BY <1>4, ConsumerStopStartInv DEF PipelineInv, Start, StartConsumer
  <2>2. OutboxInv'
    BY <1>1, <1>4, <2>1, SharedTypes, StopStartInv DEF PipelineInv, Start
  <2>3. Rows' = Rows
    BY <1>4 DEF Start, StartPublisher, rowVars, Rows
  <2> QED  BY <2>1, <2>2, <2>3 DEF Effect, workerVars
<1> QED  BY <1>2, <1>3, <1>4

LEMMA PipelineStep ==
  ASSUME PipelineInv, [PipelineNext]_pipelineVars
  PROVE  OutboxInv' /\ ConsumerInv' /\ Effect
<1>1. ASSUME NEW e \in Events, Post(e) \/ Redrive(e) PROVE OutboxInv' /\ ConsumerInv' /\ Effect
  BY <1>1, PostStep DEF Post, Redrive, Accept
<1>2. CASE PublisherRuns \/ PublisherErrs
  BY <1>2, PublisherStep DEF PublisherRuns, PublisherErrs
<1>3. CASE ConsumerRuns \/ ConsumerErrs
  BY <1>3, ConsumerLoopStep DEF ConsumerRuns, ConsumerErrs
<1>4. CASE Crash \/ Exit \/ Start
  BY <1>4, ProcessStep
<1>5. CASE ClockTicks \/ UNCHANGED pipelineVars
  <2>1. /\ OutboxIdle /\ UNCHANGED <<playerRows, dbVars, topic, faults, consumerVars>>
        /\ now' \in 0..MaxTime
    BY <1>5, SharedTypes, WorkerAssumption
       DEF ClockTicks, Tick, pipelineVars, OutboxIdle, ingestVars, publisherVars
  <2>2. OutboxInv' /\ Rows' = Rows
    BY <2>1, SharedTypes, OutboxUntouched DEF PipelineInv
  <2>3. ConsumerInv'
    BY <2>1, SharedTypes, OthersInv DEF PipelineInv
  <2> QED  BY <2>1, <2>2, <2>3 DEF Effect, consumerVars
<1> QED  BY <1>1, <1>2, <1>3, <1>4, <1>5 DEF PipelineNext

\* No effect without a saved row, and no saved row without its player's rows.
LEMMA EffectKeepsSaved ==
  ASSUME PipelineInv, Effect
  PROVE  OnlySavedTakesEffect'
<1>1. /\ processed \cup dead \subseteq Rows /\ Rows \subseteq Events
      /\ \A e \in Rows : PlayerOf[e] \in playerRows
  BY DEF PipelineInv, OnlySavedTakesEffect, Rows
<1>2. SUFFICES /\ processed' \cup dead' \subseteq Rows'
               /\ \A e \in Rows' : PlayerOf[e] \in playerRows'
  BY DEF OnlySavedTakesEffect
<1>3. ASSUME NEW e \in Events, Rows' = Rows \cup {e}, playerRows \subseteq playerRows',
             PlayerOf[e] \in playerRows' \/ e \in Rows, UNCHANGED <<dbVars, dead>>
      PROVE  /\ processed' \cup dead' \subseteq Rows'
             /\ \A f \in Rows' : PlayerOf[f] \in playerRows'
  BY <1>1, <1>3 DEF dbVars
<1>4. CASE Current \in Events \cap Rows /\ Handle(Current) /\ UNCHANGED dead /\ Rows' = Rows
  <2>1. processed' = processed \cup {Current} /\ playerRows \subseteq playerRows'
    BY <1>4 DEF Handle, MarkProcessedTx, EnsurePlayer
  <2> QED  BY <1>1, <1>4, <2>1
<1>5. CASE Current \in Rows /\ dead' = dead \cup {Current} /\ UNCHANGED workerVars /\ Rows' = Rows
  BY <1>1, <1>5 DEF workerVars, dbVars
<1>6. CASE UNCHANGED <<playerRows, dbVars, dead>> /\ Rows' = Rows
  BY <1>1, <1>6 DEF dbVars
<1> QED  BY <1>3, <1>4, <1>5, <1>6 DEF Effect

LEMMA PipelineInitInv == PipelineInit => PipelineInv
<1> SUFFICES ASSUME PipelineInit PROVE PipelineInv
  OBVIOUS
<1>1. OutboxInv
  BY OutboxInitInv DEF PipelineInit
<1>2. ConsumerInv
  BY ConsumerInitInv DEF PipelineInit, ConsumerInit, OutboxInit
<1>3. Rows = {} /\ processed = {} /\ dead = {}
  BY DEF PipelineInit, OutboxInit, WorkerInit, ConsumerLoopInit, Rows
<1>4. OnlySavedTakesEffect
  BY <1>3 DEF OnlySavedTakesEffect
<1> QED  BY <1>1, <1>2, <1>4 DEF PipelineInv

LEMMA PipelineStepInv == PipelineInv /\ [PipelineNext]_pipelineVars => PipelineInv'
BY PipelineStep, EffectKeepsSaved DEF PipelineInv

-----------------------------------------------------------------------------
\* AckedIsAccountedFor holds always: an event that got 202 is still to be sent, in a
\* message not committed, applied or dead-lettered, unless its dead letter failed.
THEOREM PipelineLosesNothing == PipelineSpec => []AckedIsAccountedFor
<1>1. PipelineInv => AckedIsAccountedFor
  <2> SUFFICES ASSUME PipelineInv, NEW e \in acked,
                      status[e] \notin {"pending", "publishing"}, ~Settled(e)
               PROVE  \E i \in 1..Len(topic) : topic[i] = e /\ (i > committed \/ i \in skipped)
    BY DEF AckedIsAccountedFor
  <2>1. InTopic(e)
    BY DEF PipelineInv, OutboxInv, OutboxTypeOK, Statuses, PublishedMeansInTopic, Rows
  <2>2. PICK i \in 1..Len(topic) : topic[i] = e
    BY <2>1 DEF InTopic
  <2>3. i > committed \/ Done(i)
    BY <2>2 DEF PipelineInv, ConsumerInv, BehindIsDone, ConsumerTypeOK, TopicTypeOK
  <2> QED  BY <2>2, <2>3 DEF Done
<1> QED  BY PipelineInitInv, PipelineStepInv, <1>1, PTL DEF PipelineSpec

\* OnlySavedTakesEffect holds always: marks and dead letters are of saved events, and
\* a saved event has its player's rows.
THEOREM PipelineAppliesSaved == PipelineSpec => []OnlySavedTakesEffect
<1>1. PipelineInv => OnlySavedTakesEffect
  BY DEF PipelineInv
<1> QED  BY PipelineInitInv, PipelineStepInv, <1>1, PTL DEF PipelineSpec

\* Credit-once holds of the whole program, through both loops and every crash.
THEOREM PipelineCreditsOnce == PipelineSpec => []WelcomeOnce
<1>1. PipelineInv => WelcomeOnce
  BY DEF PipelineInv, ConsumerInv, WorkerInv
<1> QED  BY PipelineInitInv, PipelineStepInv, <1>1, PTL DEF PipelineSpec

\* What a transaction pays, in Delivery's terms: the welcome credit for the player's
\* first deposit and nothing for anything else.
LEMMA HandlePays ==
  ASSUME WorkerInv, NEW e \in Events, Handle(e)
  PROVE  balance' = IF D!FirstDeposit(e)
                      THEN [balance EXCEPT ![PlayerOf[e]] = @ + WelcomeCredit] ELSE balance
<1> DEFINE p == PlayerOf[e]
           res == Apply(e, pstate[p], RecentBets(e))
<1>1. p \in Players /\ pstate[p] \in PlayerState
  BY EventsAssumption DEF WorkerInv, WorkerTypeOK
<1>2. IF TypeOf[e] = "deposit" /\ ~Tagged(p) THEN res.credit = WelcomeCredit ELSE res.credit = 0
  BY <1>1, ApplyResult DEF Tagged
<1>3. CreditTx(e, res.credit)
  BY DEF Handle
<1>4. Tagged(p) <=> Deposits(p) # {}
  BY <1>1 DEF WorkerInv, LedgerFollowsMarks
<1>5. D!FirstDeposit(e) <=> TypeOf[e] = "deposit" /\ ~Tagged(p)
  BY <1>4 DEF D!FirstDeposit, Deposits
<1>6. WelcomeCredit # 0
  BY RulesAssumption
<1> HIDE DEF res, p
<1>7. CASE D!FirstDeposit(e)
  BY <1>2, <1>3, <1>5, <1>6, <1>7 DEF CreditTx, p
<1>8. CASE ~D!FirstDeposit(e)
  BY <1>2, <1>3, <1>5, <1>8 DEF CreditTx
<1> QED  BY <1>7, <1>8

\* An effect is a step of Delivery or changes nothing it knows of.
LEMMA EffectIsDelivery ==
  ASSUME PipelineInv, Effect
  PROVE  [D!DeliveryNext]_(D!deliveryVars)
<1>1. ASSUME NEW e \in Events, Rows' = Rows \cup {e}, UNCHANGED <<dbVars, dead>>
      PROVE  D!Save(e)
  BY <1>1 DEF D!Save, dbVars
<1>2. CASE Current \in Events \cap Rows /\ Handle(Current) /\ UNCHANGED dead /\ Rows' = Rows
  <2>1. Current \notin processed /\ processed' = processed \cup {Current}
    BY <1>2 DEF Handle, MarkProcessedTx
  <2>2. balance' = IF D!FirstDeposit(Current)
                     THEN [balance EXCEPT ![PlayerOf[Current]] = @ + WelcomeCredit] ELSE balance
    BY <1>2, HandlePays DEF PipelineInv, ConsumerInv
  <2> QED  BY <1>2, <2>1, <2>2 DEF D!ApplyOnce, D!DeliveryNext
<1>3. CASE Current \in Rows /\ dead' = dead \cup {Current} /\ UNCHANGED workerVars /\ Rows' = Rows
  <2>1. Current \in Events
    BY <1>3 DEF Rows
  <2> QED  BY <1>3, <2>1 DEF D!Park, D!DeliveryNext, workerVars, dbVars
<1>4. CASE UNCHANGED <<playerRows, dbVars, dead>> /\ Rows' = Rows
  BY <1>4 DEF D!deliveryVars, dbVars
<1> QED  BY <1>1, <1>2, <1>3, <1>4 DEF Effect, D!DeliveryNext

\* The program implements its promise: every behaviour of both loops, with crashes,
\* lost answers, retries and redrives, is one of Delivery.
THEOREM PipelineImplementsDelivery == PipelineSpec => ImplementsDelivery
<1>1. PipelineInit => D!DeliveryInit
  BY DEF PipelineInit, OutboxInit, WorkerInit, ConsumerLoopInit, Rows, D!DeliveryInit
<1>2. PipelineInv /\ [PipelineNext]_pipelineVars => [D!DeliveryNext]_(D!deliveryVars)
  BY PipelineStep, EffectIsDelivery
<1> QED  BY PipelineInitInv, PipelineStepInv, <1>1, <1>2, PTL
         DEF PipelineSpec, ImplementsDelivery, D!DeliverySpec
-----------------------------------------------------------------------------
\* To the worker's tables the whole program is a worker: a POST creates its player's
\* rows, the consumer handles events, the clock ticks, and the rest leaves them alone.
THEOREM PipelineImplementsWorker == PipelineSpec => WorkerSpec
<1>1. PipelineInit => WorkerInit
  BY DEF PipelineInit
<1>2. PipelineInv /\ [PipelineNext]_pipelineVars => [WorkerNext]_workerVars
  <2> SUFFICES ASSUME PipelineInv, [PipelineNext]_pipelineVars PROVE [WorkerNext]_workerVars
    OBVIOUS
  <2>1. ASSUME NEW e \in Events, Accept(e), ConsumerIdle PROVE [WorkerNext]_workerVars
    <3>1. EnsurePlayer(PlayerOf[e]) \/ UNCHANGED playerRows
      BY <2>1 DEF Accept, AcceptNew, AcceptUnanswered, AcceptDuplicate, InsertRow
    <3>2. UNCHANGED <<dbVars, now>> /\ PlayerOf[e] \in Players
      BY <2>1, EventsAssumption DEF ConsumerIdle
    <3> QED  BY <3>1, <3>2 DEF EnqueueEnsures, WorkerNext, workerVars
  <2>2. ASSUME NEW w \in Publishers, FlushStep(w) \/ FlushFault(w), ConsumerIdle
        PROVE  UNCHANGED workerVars
    <3>1. UNCHANGED playerRows
      BY <2>2, PublisherFrame DEF PipelineInv
    <3> QED  BY <2>2, <3>1 DEF ConsumerIdle, workerVars
  <2>3. CASE ConsumerStep \/ ConsumerFault
    <3>1. UNCHANGED now /\ (UNCHANGED workerVars \/ (Current \in Events /\ Handle(Current)))
      BY <2>3, ConsumerEffects DEF PipelineInv
    <3> QED  BY <3>1 DEF WorkerNext
  <2>4. CASE Crash \/ Exit \/ Start
    <3>1. UNCHANGED playerRows /\ UNCHANGED <<dbVars, now>>
      BY <2>4 DEF Crash, Exit, Start, StopConsumer, StartConsumer, StopPublisher, StartPublisher, rowVars, workerVars
    <3> QED  BY <3>1 DEF workerVars
  <2>5. CASE ClockTicks
    BY <2>5 DEF ClockTicks, WorkerNext
  <2>6. CASE UNCHANGED pipelineVars
    BY <2>6 DEF pipelineVars, workerVars
  <2>7. ASSUME NEW e \in Events, Post(e) \/ Redrive(e) PROVE Accept(e) /\ ConsumerIdle
    BY <2>7 DEF Post, Redrive, Accept
  <2> QED
    BY <2>1, <2>2, <2>3, <2>4, <2>5, <2>6, <2>7
    DEF PipelineNext, PublisherRuns, PublisherErrs, ConsumerRuns, ConsumerErrs
<1> QED  BY PipelineInitInv, PipelineStepInv, <1>1, <1>2, PTL DEF PipelineSpec, WorkerSpec

\* So scores and flags are right from POST to table: ScoreIsSumOfBets and FlagMeansBurst
\* hold of the whole program, through crashes, redeliveries and redrives.
THEOREM PipelineCountsBetsOnce == PipelineSpec => [](ScoreIsSumOfBets /\ FlagMeansBurst)
BY PipelineImplementsWorker, WorkerSumsBets, WorkerFlagsBursts, PTL
=============================================================================
