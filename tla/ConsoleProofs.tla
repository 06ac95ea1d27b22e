--------------------------- MODULE ConsoleProofs ----------------------------
(***************************************************************************)
(* The console's pages, for any events, players, partners, letters and     *)
(* runs. One section each: the lag hides no work, "this run" of the arena  *)
(* accounts for itself, the list of dead letters gives up only on what is  *)
(* gone and is recent, the inspector merges the brands' lists in order,    *)
(* the shadow board flags the bursts, and "Run contract" judges the        *)
(* program.                                                                *)
(*                                                                         *)
(* The invariant of the first is what the arena's and the contract's build *)
(* on. It counts both sides of the lag: an accepted event is counted as    *)
(* ingested or its POST is not answered yet, and an event counted as       *)
(* processed, or about to be, has been applied. Both only hold of a        *)
(* process that never restarted; the types hold of any.                    *)
(***************************************************************************)
EXTENDS Arena, ContractProbe, DlqInspect, ShadowRule, FiniteSetTheorems, WellFoundedInduction, TLAPS

\* What the consumer can have left to count.
Queues == {<<>>, <<"processed">>, <<"welcome", "processed">>,
           <<"credits", "welcome", "processed">>, <<"retries">>, <<"dlq">>}

\* An application that is not counted yet.
Pending == IF uncounted \in {<<>>, <<"retries">>, <<"dlq">>} THEN 0 ELSE 1

\* The last attempt is over only while its dead letter is counted.
AttemptsLeft == failed < MaxAttempts \/ (uncounted = <<"dlq">> /\ hand \in parked)

AcceptedIsCounted ==
  restarts = 0 => Cardinality(accepted) <= counters["ingested"] + Cardinality(answering)

ProcessedIsApplied ==
  restarts = 0 => counters["processed"] + Pending <= Cardinality(applied)

MetricsInv ==
  /\ MetricsTypeOK /\ uncounted \in Queues /\ AttemptsLeft
  /\ AcceptedIsCounted /\ ProcessedIsApplied

-----------------------------------------------------------------------------
\* The first counter of a queue and the rest: "processed" is the last of three queues.
LEMMA QueueStep ==
  ASSUME NEW q \in Queues, q # <<>>
  PROVE  /\ Head(q) \in Counters
         /\ Tail(q) \in Queues
         /\ q = <<"dlq">> => Tail(q) = <<>>
         /\ Head(q) = "processed" => q = <<"processed">> /\ Tail(q) = <<>>
         /\ Tail(q) \in {<<>>, <<"retries">>, <<"dlq">>} =>
              q \in {<<"processed">>, <<"retries">>, <<"dlq">>}
         /\ Head(q) = "ingested" => FALSE
<1>1. CASE q = <<"processed">>
  <2>1. Head(q) = "processed" /\ Tail(q) = <<>>
    BY <1>1
  <2> QED  BY <1>1, <2>1 DEF Counters, Queues
<1>2. CASE q = <<"welcome", "processed">>
  <2>1. Head(q) = "welcome" /\ Tail(q) = <<"processed">>
    BY <1>2
  <2> QED  BY <1>2, <2>1 DEF Counters, Queues
<1>3. CASE q = <<"credits", "welcome", "processed">>
  <2>1. Head(q) = "credits" /\ Tail(q) = <<"welcome", "processed">>
    BY <1>3
  <2> QED  BY <1>3, <2>1 DEF Counters, Queues
<1>4. CASE q = <<"retries">>
  <2>1. Head(q) = "retries" /\ Tail(q) = <<>>
    BY <1>4
  <2> QED  BY <1>4, <2>1 DEF Counters, Queues
<1>5. CASE q = <<"dlq">>
  <2>1. Head(q) = "dlq" /\ Tail(q) = <<>>
    BY <1>5
  <2> QED  BY <1>5, <2>1 DEF Counters, Queues
<1> QED  BY <1>1, <1>2, <1>3, <1>4, <1>5 DEF Queues

\* The queues are sequences of counter names.
LEMMA QueuesAreSequences == Queues \subseteq Seq(Counters)
BY DEF Queues, Counters

\* A queue with its first counter taken off is still a queue.
LEMMA QueueTails ==
  Tail(<<"retries">>) = <<>> /\ Tail(<<"dlq">>) = <<>>
OBVIOUS

\* The sets of events of a state are finite.
LEMMA EventSetsFinite ==
  ASSUME MetricsTypeOK
  PROVE  /\ IsFiniteSet(accepted) /\ IsFiniteSet(applied) /\ IsFiniteSet(answering)
         /\ {Cardinality(accepted), Cardinality(applied), Cardinality(answering)} \subseteq Nat
<1>1. IsFiniteSet(Events)
  BY MetricsAssumption
<1>2. IsFiniteSet(accepted)
  BY <1>1, FS_Subset DEF MetricsTypeOK
<1>3. IsFiniteSet(applied) /\ IsFiniteSet(answering)
  BY <1>2, FS_Subset DEF MetricsTypeOK
<1> QED  BY <1>2, <1>3, FS_CardinalityType

\* Every counter is zero, nothing is accepted.
LEMMA MetricsInitInv == MetricsInit => MetricsInv
<1> SUFFICES ASSUME MetricsInit PROVE MetricsInv
  OBVIOUS
<1>1. Cardinality({}) = 0
  BY FS_EmptySet
<1>2. MetricsTypeOK
  BY MetricsAssumption DEF MetricsInit, DeliveryInit, MetricsTypeOK, Zeros
<1>3. uncounted \in Queues /\ AttemptsLeft
  BY MetricsAssumption DEF MetricsInit, Queues, AttemptsLeft
<1>4. AcceptedIsCounted
  BY <1>1 DEF MetricsInit, DeliveryInit, AcceptedIsCounted, Zeros, Counters
<1>5. ProcessedIsApplied
  BY <1>1 DEF MetricsInit, DeliveryInit, ProcessedIsApplied, Pending, Zeros, Counters
<1> QED  BY <1>2, <1>3, <1>4, <1>5 DEF MetricsInv

\* What any client and the process do.
AnyStep == BackendNext \/ \E e \in Events : Enqueue(e) \/ CountIngested(e)

\* Types, queues and attempts are kept by every step.
LEMMA MetricsTypeStep ==
  ASSUME MetricsTypeOK, uncounted \in Queues, AttemptsLeft, AnyStep
  PROVE  (MetricsTypeOK /\ uncounted \in Queues /\ AttemptsLeft)'
<1> USE MetricsAssumption
<1>1. ASSUME NEW e \in Events, Enqueue(e)
      PROVE  (MetricsTypeOK /\ uncounted \in Queues /\ AttemptsLeft)'
  BY <1>1 DEF Enqueue, Save, MetricsTypeOK, AttemptsLeft
<1>2. ASSUME NEW e \in Events, CountIngested(e)
      PROVE  (MetricsTypeOK /\ uncounted \in Queues /\ AttemptsLeft)'
  <2>1. counters' \in [Counters -> Nat]
    BY <1>2 DEF CountIngested, MetricsTypeOK, Counters
  <2> QED  BY <1>2, <2>1 DEF CountIngested, MetricsTypeOK, AttemptsLeft, deliveryVars
<1>3. ASSUME NEW e \in Events, Take(e)
      PROVE  (MetricsTypeOK /\ uncounted \in Queues /\ AttemptsLeft)'
  <2>1. hand' \in accepted \cup {NoEvent} /\ UNCHANGED <<uncounted, failed, accepted, applied, parked>>
    BY <1>3 DEF Take, deliveryVars
  <2>2. AttemptsLeft'
    BY <1>3, <2>1 DEF AttemptsLeft, Take, MetricsTypeOK
  <2> QED  BY <1>3, <2>1, <2>2 DEF Take, MetricsTypeOK, deliveryVars
<1>4. CASE HandleCommits
  <2>1. uncounted' \in Queues \cap Seq(Counters)
    <3>1. uncounted' \in {<<"credits", "welcome", "processed">>, <<"processed">>}
      BY <1>4 DEF HandleCommits
    <3> QED  BY <3>1, QueuesAreSequences DEF Queues
  <2>2. AttemptsLeft'
    BY <1>4 DEF AttemptsLeft, HandleCommits, Working, MetricsTypeOK
  <2>3. hand \in accepted
    BY <1>4 DEF HandleCommits, Working, MetricsTypeOK
  <2> QED  BY <1>4, <2>1, <2>2, <2>3 DEF HandleCommits, ApplyOnce, MetricsTypeOK
<1>5. CASE SkipDuplicate
  BY <1>5 DEF SkipDuplicate, Idle, MetricsTypeOK, Queues, AttemptsLeft, deliveryVars
<1>6. CASE AttemptFails
  <2>1. failed < MaxAttempts
    BY <1>6 DEF AttemptFails, Working, AttemptsLeft
  <2>2. uncounted' \in Queues \cap Seq(Counters)
    <3>1. uncounted' \in {<<"retries">>, <<"dlq">>}
      BY <1>6 DEF AttemptFails
    <3> QED  BY <3>1, QueuesAreSequences DEF Queues
  <2>3. failed' \in 0..MaxAttempts
    BY <1>6, <2>1 DEF AttemptFails, MetricsTypeOK
  <2>4. accepted' = accepted /\ applied' = applied /\ parked' \in {parked, parked \cup {hand}}
    BY <1>6 DEF AttemptFails, Park, deliveryVars
  <2>5. hand \in accepted
    BY <1>6 DEF AttemptFails, Working, MetricsTypeOK
  <2>6. AttemptsLeft'
    BY <1>6, <2>3 DEF AttemptFails, AttemptsLeft, Park
  <2> QED  BY <1>6, <2>2, <2>3, <2>4, <2>5, <2>6 DEF AttemptFails, MetricsTypeOK
<1>7. CASE CommitAnswerLost
  <2>1. uncounted' \in Queues \cap Seq(Counters)
    <3>1. uncounted' = <<"retries">>
      BY <1>7 DEF CommitAnswerLost
    <3> QED  BY <3>1, QueuesAreSequences DEF Queues
  <2>2. failed' \in 0..MaxAttempts /\ failed' < MaxAttempts
    BY <1>7 DEF CommitAnswerLost, MetricsTypeOK
  <2>3. hand \in accepted
    BY <1>7 DEF CommitAnswerLost, Working, MetricsTypeOK
  <2> QED  BY <1>7, <2>1, <2>2, <2>3 DEF CommitAnswerLost, ApplyOnce, MetricsTypeOK, AttemptsLeft
<1>8. CASE Count
  <2>1. /\ Head(uncounted) \in Counters /\ Tail(uncounted) \in Queues
        /\ uncounted = <<"dlq">> => Tail(uncounted) = <<>>
    BY <1>8, QueueStep DEF Count
  <2>2. Queues \subseteq Seq(Counters)
    BY QueuesAreSequences
  <2>3. counters' \in [Counters -> Nat]
    BY <1>8, <2>1 DEF Count, MetricsTypeOK
  <2>4. CASE Idle
    <3>1. failed' \in 0..MaxAttempts /\ AttemptsLeft' /\ hand' = NoEvent /\ uncounted' = <<>>
      BY <2>4 DEF Idle, AttemptsLeft
    <3>2. uncounted' \in Queues
      BY <3>1 DEF Queues
    <3> QED  BY <1>8, <2>2, <2>3, <3>1, <3>2 DEF Count, MetricsTypeOK, deliveryVars
  <2>5. CASE uncounted' = Tail(uncounted) /\ UNCHANGED <<hand, failed>> /\ ~(Tail(uncounted) = <<>> /\ hand \in applied \cup parked)
    <3>1. AttemptsLeft'
      BY <2>1, <2>5 DEF AttemptsLeft
    <3> QED  BY <1>8, <2>1, <2>2, <2>3, <2>5, <3>1 DEF Count, MetricsTypeOK, deliveryVars
  <2> QED  BY <1>8, <2>4, <2>5 DEF Count
<1>9. CASE Crash
  <2>1. counters' \in [Counters -> Nat]
    BY <1>9 DEF Crash, Zeros
  <2>2. restarts' \in 0..MaxRestarts
    BY <1>9 DEF Crash, MetricsTypeOK
  <2>3. uncounted' \in Queues \cap Seq(Counters)
    BY <1>9, QueuesAreSequences DEF Crash, Idle, Queues
  <2>4. failed' \in 0..MaxAttempts /\ AttemptsLeft'
    BY <1>9 DEF Crash, Idle, AttemptsLeft
  <2> QED  BY <1>9, <2>1, <2>2, <2>3, <2>4 DEF Crash, Idle, MetricsTypeOK, deliveryVars
<1>10. CASE StartApp
  BY <1>10 DEF StartApp, MetricsTypeOK, AttemptsLeft, deliveryVars, countingVars
<1> QED
  BY <1>1, <1>2, <1>3, <1>4, <1>5, <1>6, <1>7, <1>8, <1>9, <1>10
  DEF AnyStep, BackendNext, ConsumerWorks

\* An event is accepted together with a POST that will be counted; a POST leaves the
\* answering only to be counted.
LEMMA AcceptedStep ==
  ASSUME MetricsTypeOK, AcceptedIsCounted, AnyStep
  PROVE  AcceptedIsCounted'
<1> SUFFICES ASSUME restarts' = 0
             PROVE  Cardinality(accepted') <= counters'["ingested"] + Cardinality(answering')
  BY DEF AcceptedIsCounted
<1>1. /\ IsFiniteSet(accepted) /\ IsFiniteSet(answering)
      /\ Cardinality(accepted) \in Nat /\ Cardinality(answering) \in Nat
      /\ counters \in [Counters -> Nat] /\ counters["ingested"] \in Nat
  BY EventSetsFinite DEF MetricsTypeOK, Counters
<1>2. restarts = 0
  BY DEF AnyStep, BackendNext, ConsumerWorks, MetricsTypeOK, Enqueue, CountIngested, Take, HandleCommits,
     SkipDuplicate, AttemptFails, CommitAnswerLost, Count, Crash, StartApp
<1>3. Cardinality(accepted) <= counters["ingested"] + Cardinality(answering)
  BY <1>2 DEF AcceptedIsCounted
<1>4. ASSUME NEW e \in Events, Enqueue(e)
      PROVE  Cardinality(accepted') <= counters'["ingested"] + Cardinality(answering')
  <2>1. Cardinality(accepted \cup {e}) <= Cardinality(accepted) + 1
    <3>1. Cardinality(accepted \cup {e}) = IF e \in accepted THEN Cardinality(accepted) ELSE Cardinality(accepted) + 1
      BY <1>1, FS_AddElement
    <3> QED  BY <1>1, <3>1
  <2>2. Cardinality(answering \cup {e}) = Cardinality(answering) + 1
    BY <1>1, <1>4, FS_AddElement DEF Enqueue
  <2>3. Cardinality(accepted \cup {e}) \in Nat
    BY <1>1, FS_AddElement, FS_CardinalityType
  <2> QED  BY <1>1, <1>3, <1>4, <2>1, <2>2, <2>3 DEF Enqueue, Save
<1>5. ASSUME NEW e \in Events, CountIngested(e)
      PROVE  Cardinality(accepted') <= counters'["ingested"] + Cardinality(answering')
  <2>1. Cardinality(answering \ {e}) = Cardinality(answering) - 1
    BY <1>1, <1>5, FS_RemoveElement DEF CountIngested
  <2>2. counters'["ingested"] = counters["ingested"] + 1
    BY <1>1, <1>5 DEF CountIngested, Counters
  <2> QED  BY <1>1, <1>3, <1>5, <2>1, <2>2 DEF CountIngested, deliveryVars
<1>6. CASE Count
  <2>1. Head(uncounted) \in Counters => counters'["ingested"] \in {counters["ingested"], counters["ingested"] + 1}
    BY <1>1, <1>6 DEF Count, Counters
  <2>2. Head(uncounted) \notin Counters => counters'["ingested"] = counters["ingested"]
    BY <1>1, <1>6 DEF Count, Counters
  <2> QED  BY <1>1, <1>3, <1>6, <2>1, <2>2 DEF Count, deliveryVars
<1>7. CASE ~Count /\ ~\E e \in Events : Enqueue(e) \/ CountIngested(e)
  <2>1. accepted' = accepted /\ answering' = answering /\ counters' = counters
    BY <1>7, <1>2 DEF AnyStep, BackendNext, ConsumerWorks, Take, HandleCommits, SkipDuplicate, AttemptFails,
       CommitAnswerLost, Crash, StartApp, ApplyOnce, Park, deliveryVars, countingVars, MetricsTypeOK
  <2> QED  BY <1>3, <2>1
<1> QED  BY <1>4, <1>5, <1>6, <1>7

\* An application is counted once, after it happened.
LEMMA ProcessedStep ==
  ASSUME MetricsTypeOK, uncounted \in Queues, ProcessedIsApplied, AnyStep
  PROVE  ProcessedIsApplied'
<1> SUFFICES ASSUME restarts' = 0
             PROVE  counters'["processed"] + Pending' <= Cardinality(applied')
  BY DEF ProcessedIsApplied
<1>1. /\ IsFiniteSet(applied) /\ Cardinality(applied) \in Nat
      /\ counters \in [Counters -> Nat] /\ counters["processed"] \in Nat
  BY EventSetsFinite DEF MetricsTypeOK, Counters
<1>2. restarts = 0
  BY DEF AnyStep, BackendNext, ConsumerWorks, MetricsTypeOK, Enqueue, CountIngested, Take, HandleCommits,
     SkipDuplicate, AttemptFails, CommitAnswerLost, Count, Crash, StartApp
<1>3. counters["processed"] + Pending <= Cardinality(applied)
  BY <1>2 DEF ProcessedIsApplied
<1>4. CASE HandleCommits \/ CommitAnswerLost
  <2>1. hand \notin applied /\ applied' = applied \cup {hand} /\ counters' = counters
    BY <1>4 DEF HandleCommits, CommitAnswerLost, ApplyOnce
  <2>2. Cardinality(applied') = Cardinality(applied) + 1
    BY <1>1, <2>1, FS_AddElement
  <2>3. Pending = 0
    BY <1>4 DEF HandleCommits, CommitAnswerLost, Working, Pending
  <2>4. Pending' \in {0, 1}
    BY DEF Pending
  <2> QED  BY <1>1, <1>3, <2>1, <2>2, <2>3, <2>4
<1>5. CASE Count
  <2>1. /\ Head(uncounted) = "processed" => uncounted = <<"processed">> /\ Tail(uncounted) = <<>>
        /\ Tail(uncounted) \in {<<>>, <<"retries">>, <<"dlq">>} =>
             uncounted \in {<<"processed">>, <<"retries">>, <<"dlq">>}
    BY <1>5, QueueStep DEF Count
  <2>2. applied' = applied
    BY <1>5 DEF Count, deliveryVars
  <2>3. uncounted' = Tail(uncounted)
    BY <1>5 DEF Count, Idle
  <2>4. CASE Head(uncounted) = "processed"
    <3>1. counters'["processed"] = counters["processed"] + 1
      BY <1>1, <1>5, <2>4 DEF Count, Counters
    <3>2. Pending = 1 /\ Pending' = 0
      BY <2>1, <2>3, <2>4 DEF Pending
    <3> QED  BY <1>1, <1>3, <2>2, <3>1, <3>2
  <2>5. CASE Head(uncounted) # "processed"
    <3>1. counters'["processed"] = counters["processed"]
      BY <1>1, <1>5, <2>5 DEF Count, Counters
    <3>2. uncounted # <<"processed">>
      BY <2>5
    <3>3. Pending' \in {0, 1} /\ Pending \in {0, 1} /\ (Pending' = 1 => Pending = 1)
      <4>1. Pending' = 1 => Tail(uncounted) \notin {<<>>, <<"retries">>, <<"dlq">>}
        BY <2>3 DEF Pending
      <4>2. uncounted \in {<<>>, <<"retries">>, <<"dlq">>} => Tail(uncounted) = <<>>
        BY <1>5, QueueTails DEF Count
      <4> QED  BY <4>1, <4>2 DEF Pending
    <3> QED  BY <1>1, <1>3, <2>2, <3>1, <3>3
  <2> QED  BY <2>4, <2>5
<1>6. ASSUME NEW e \in Events, CountIngested(e)
      PROVE  counters'["processed"] + Pending' <= Cardinality(applied')
  <2>1. counters'["processed"] = counters["processed"]
    BY <1>1, <1>6 DEF CountIngested, Counters
  <2> QED  BY <1>3, <1>6, <2>1 DEF CountIngested, Pending, deliveryVars
<1>7. CASE SkipDuplicate \/ AttemptFails
  <2>1. applied' = applied /\ counters' = counters
    BY <1>7 DEF SkipDuplicate, AttemptFails, Park, deliveryVars
  <2>2. Pending = 0 /\ Pending' = 0
    BY <1>7 DEF SkipDuplicate, AttemptFails, Working, Idle, Pending
  <2> QED  BY <1>3, <2>1, <2>2
<1>8. CASE (\E e \in Events : Take(e) \/ Enqueue(e)) \/ StartApp
  <2>1. applied' = applied /\ counters' = counters /\ uncounted' = uncounted
    BY <1>8 DEF Take, Enqueue, Save, StartApp, deliveryVars, countingVars
  <2> QED  BY <1>3, <2>1 DEF Pending
<1>9. ~Crash
  BY <1>2 DEF Crash, MetricsTypeOK
<1> QED
  BY <1>4, <1>5, <1>6, <1>7, <1>8, <1>9 DEF AnyStep, BackendNext, ConsumerWorks

\* Both together give the lag.
LEMMA MetricsInvLag == MetricsInv => LagHidesNothing
<1> SUFFICES ASSUME MetricsInv, restarts = 0
             PROVE  Cardinality(accepted \ applied) <= Lag(counters) + Cardinality(answering)
  BY DEF LagHidesNothing
<1>1. /\ IsFiniteSet(accepted) /\ IsFiniteSet(applied) /\ applied \subseteq accepted
      /\ Cardinality(accepted) \in Nat /\ Cardinality(applied) \in Nat /\ Cardinality(answering) \in Nat
      /\ counters["ingested"] \in Nat /\ counters["processed"] \in Nat
  BY EventSetsFinite DEF MetricsInv, MetricsTypeOK, Counters
<1>2. Cardinality(accepted \ applied) = Cardinality(accepted) - Cardinality(applied)
  <2>1. Cardinality(accepted \ applied) = Cardinality(accepted) - Cardinality(accepted \cap applied)
    BY <1>1, FS_Difference
  <2>2. accepted \cap applied = applied
    BY <1>1
  <2> QED  BY <2>1, <2>2
<1>3. Pending \in {0, 1}
  BY DEF Pending
<1> QED  BY <1>1, <1>2, <1>3 DEF MetricsInv, AcceptedIsCounted, ProcessedIsApplied, Lag

\* The invariant is kept by whatever happens to the variables of Metrics.
LEMMA MetricsInvStep ==
  ASSUME MetricsInv, AnyStep \/ UNCHANGED metricsVars
  PROVE  MetricsInv'
<1>1. CASE AnyStep
  BY <1>1, MetricsTypeStep, AcceptedStep, ProcessedStep DEF MetricsInv
<1>2. CASE UNCHANGED metricsVars
  BY <1>2 DEF metricsVars, deliveryVars, MetricsInv, MetricsTypeOK, AttemptsLeft, AcceptedIsCounted,
     ProcessedIsApplied, Pending
<1> QED  BY <1>1, <1>2

\* LagHidesNothing holds always: of a process that never restarted, ingested - processed
\* is at least the accepted events without their effect, but for unanswered POSTs.
THEOREM MetricsLagHidesNothing == MetricsSpec => []LagHidesNothing
<1>1. MetricsInit => MetricsInv
  BY MetricsInitInv
<1>2. MetricsInv /\ [MetricsNext]_metricsVars => MetricsInv'
  <2> SUFFICES ASSUME MetricsInv, [MetricsNext]_metricsVars PROVE MetricsInv'
    OBVIOUS
  <2>1. AnyStep \/ UNCHANGED metricsVars
    BY MetricsAssumption DEF MetricsNext, AnyStep, PartnerPosts
  <2> QED  BY <2>1, MetricsInvStep
<1>3. MetricsInv => LagHidesNothing
  BY MetricsInvLag
<1> QED  BY <1>1, <1>2, <1>3, PTL DEF MetricsSpec

\* What clients and the process do to the path is what Delivery promises of it.
LEMMA AnyStepDelivers == ASSUME MetricsTypeOK, AnyStep PROVE [DeliveryNext]_deliveryVars
<1>1. CASE \E e \in Events : Enqueue(e)
  BY <1>1 DEF Enqueue, DeliveryNext
<1>2. ASSUME Working PROVE hand \in Events /\ hand \in accepted
  BY <1>2 DEF Working, MetricsTypeOK
<1>3. CASE HandleCommits \/ CommitAnswerLost
  BY <1>2, <1>3 DEF HandleCommits, CommitAnswerLost, DeliveryNext
<1>4. CASE AttemptFails
  <2>1. Park(hand) \/ UNCHANGED deliveryVars
    BY <1>4 DEF AttemptFails
  <2> QED  BY <1>2, <1>4, <2>1 DEF AttemptFails, DeliveryNext
<1>5. CASE SkipDuplicate \/ Count \/ Crash \/ StartApp \/ \E e \in Events : Take(e) \/ CountIngested(e)
  BY <1>5 DEF SkipDuplicate, Count, Crash, StartApp, Take, CountIngested
<1> QED  BY <1>1, <1>3, <1>4, <1>5 DEF AnyStep, BackendNext, ConsumerWorks

\* The process the counters are read of keeps the promise the whole program is proved to
\* keep (ImplementsDelivery): what the console's pages take for the path is Delivery.
THEOREM MetricsImplementsDelivery == MetricsSpec => DeliverySpec
<1>1. MetricsInv /\ [MetricsNext]_metricsVars => MetricsInv' /\ [DeliveryNext]_deliveryVars
  <2> SUFFICES ASSUME MetricsInv, [MetricsNext]_metricsVars
               PROVE  MetricsInv' /\ [DeliveryNext]_deliveryVars
    OBVIOUS
  <2>1. AnyStep \/ UNCHANGED metricsVars
    BY MetricsAssumption DEF MetricsNext, AnyStep, PartnerPosts
  <2> QED  BY <2>1, MetricsInvStep, AnyStepDelivers DEF MetricsInv, metricsVars
<1>2. MetricsInit => DeliveryInit
  BY DEF MetricsInit
<1> QED  BY <1>1, <1>2, MetricsInitInv, PTL DEF MetricsSpec, DeliverySpec

\* What Delivery's promise is worth: nothing takes effect or is parked that was not
\* accepted, and a player has the welcome credit exactly if a deposit of theirs has
\* taken effect, and has it once.
PaidByFirstDeposit ==
  /\ applied \cup parked \subseteq accepted
  /\ \A p \in Players :
       paid[p] = IF \E e \in applied : PlayerOf[e] = p /\ TypeOf[e] = "deposit"
                   THEN WelcomeCredit ELSE 0

\* PaidByFirstDeposit holds of Delivery always, and so of whatever implements it.
THEOREM DeliveryPaysOnce == DeliverySpec => []PaidByFirstDeposit
<1> DEFINE Inv == paid \in [Players -> Nat] /\ PaidByFirstDeposit
<1>1. DeliveryInit => Inv
  BY DEF DeliveryInit, PaidByFirstDeposit
<1>2. Inv /\ [DeliveryNext]_deliveryVars => Inv'
  <2> SUFFICES ASSUME Inv, [DeliveryNext]_deliveryVars PROVE Inv'
    OBVIOUS
  <2>1. ASSUME NEW e \in Events, ApplyOnce(e), FirstDeposit(e) PROVE Inv'
    <3>1. /\ PlayerOf[e] \in Players /\ WelcomeCredit \in Nat
          /\ TypeOf[e] = "deposit" /\ e \in accepted
      BY <2>1, MetricsAssumption DEF ApplyOnce, FirstDeposit
    <3>2. paid[PlayerOf[e]] = 0
      BY <2>1, <3>1 DEF FirstDeposit, PaidByFirstDeposit
    <3>3. /\ paid' \in [Players -> Nat] /\ paid'[PlayerOf[e]] = WelcomeCredit
          /\ \A p \in Players \ {PlayerOf[e]} : paid'[p] = paid[p]
      BY <2>1, <3>1, <3>2 DEF ApplyOnce
    <3>4. applied' = applied \cup {e} /\ parked' = parked /\ accepted' = accepted
      BY <2>1 DEF ApplyOnce
    <3> QED  BY <3>1, <3>3, <3>4 DEF PaidByFirstDeposit
  <2>2. ASSUME NEW e \in Events, ApplyOnce(e), ~FirstDeposit(e) PROVE Inv'
    <3>1. paid' = paid /\ applied' = applied \cup {e} /\ UNCHANGED <<accepted, parked>> /\ e \in accepted
      BY <2>2 DEF ApplyOnce
    <3>2. TypeOf[e] = "deposit" => \E f \in applied : PlayerOf[f] = PlayerOf[e] /\ TypeOf[f] = "deposit"
      BY <2>2 DEF FirstDeposit
    <3> QED  BY <3>1, <3>2 DEF PaidByFirstDeposit
  <2>3. ASSUME NEW e \in Events, Save(e) \/ Park(e) PROVE Inv'
    BY <2>3 DEF Save, Park, PaidByFirstDeposit
  <2>4. CASE UNCHANGED deliveryVars
    BY <2>4 DEF deliveryVars, PaidByFirstDeposit
  <2> QED  BY <2>1, <2>2, <2>3, <2>4 DEF DeliveryNext
<1> QED  BY <1>1, <1>2, PTL DEF DeliverySpec
-----------------------------------------------------------------------------
(***************************************************************************)
(* "This run" of the arena accounts for itself, for any runs and traffic.  *)
(* The invariant follows the handler: its first reading is behind the      *)
(* counter by at least the posts answered since, so the second is ahead of *)
(* it by all of them; and a credit counted, or about to be, has paid a     *)
(* player whom no other credit has paid.                                   *)
(***************************************************************************)

PaidPlayers == {p \in Players : paid[p] > 0}

\* Whoever was paid has had a deposit applied.
PaidForDeposits ==
  /\ paid \in [Players -> Nat]
  /\ \A p \in PaidPlayers : \E f \in applied : PlayerOf[f] = p /\ TypeOf[f] = "deposit"

\* A credit that is not counted yet.
CreditPending == IF uncounted = <<"credits", "welcome", "processed">> THEN 1 ELSE 0

CreditedIsPaid ==
  restarts = 0 => counters["credits"] + CreditPending <= Cardinality(PaidPlayers)

RouteTypeOK ==
  demo \in [at : {"none", "before", "post", "answer", "wait", "read", "done", "failed"},
            posted : Nat, todo : SUBSET (Lanes \cup {"metrics"}), tagged : SUBSET Lanes,
            before : [Counters -> Nat], after : [Counters -> Nat]]

Begun == demo.at \in {"before", "post", "answer", "wait", "read", "done"}
Measuring == demo.at \in {"post", "answer", "wait", "read", "done"}

\* Where the handler is, next to where the story is.
RouteFollowsStory ==
  /\ beat # "idle" => run \in Runs
  /\ Begun => run \in Runs
  /\ beat = "sign" => demo = NotBegun
  /\ demo.at \in {"none", "before"} => demo.posted = 0
  /\ demo.at \in {"post", "answer"} => demo.posted < Len(RunEvents[run])
  /\ demo.at \in {"wait", "read", "done"} => demo.posted = Len(RunEvents[run])
  /\ demo.at = "done" => demo.todo = {}
  /\ Shown => demo.at = "done"

\* The readings of the counters, between and after which the run's posts are.
ReadingsSpanRun ==
  restarts = 0 =>
    /\ Measuring => demo.before["ingested"] + demo.posted <= counters["ingested"]
    /\ demo.at \in {"read", "done"} /\ "metrics" \notin demo.todo =>
         /\ demo.before["ingested"] + Len(RunEvents[run]) <= demo.after["ingested"]
         /\ demo.after["credits"] <= Cardinality(PaidPlayers)

RouteInv == RouteTypeOK /\ RouteFollowsStory /\ ReadingsSpanRun
ArenaInv == MetricsInv /\ PaidForDeposits /\ CreditedIsPaid /\ RouteInv
-----------------------------------------------------------------------------
\* Players paid for deposits are as many as the deposits of some applied events at most.
LEMMA PaidPlayersFinite ==
  ASSUME MetricsTypeOK, PaidForDeposits
  PROVE  IsFiniteSet(PaidPlayers) /\ Cardinality(PaidPlayers) \in Nat
<1>1. IsFiniteSet(applied)
  BY EventSetsFinite
<1> DEFINE player == [f \in applied |-> PlayerOf[f]]
           T == {PlayerOf[f] : f \in applied}
<1>2. IsFiniteSet(T)
  <2>1. player \in Surjection(applied, T)
    BY DEF Surjection
  <2> QED  BY <1>1, <2>1, FS_Surjection
<1>3. PaidPlayers \subseteq T
  BY DEF PaidForDeposits
<1> QED  BY <1>2, <1>3, FS_Subset, FS_CardinalityType
\* A player once paid stays paid, and who is paid has had a deposit applied.
LEMMA PaidStep ==
  ASSUME MetricsTypeOK, PaidForDeposits, AnyStep
  PROVE  PaidForDeposits' /\ PaidPlayers \subseteq PaidPlayers'
<1> USE MetricsAssumption
<1>1. ASSUME hand \in Events, ApplyOnce(hand)
      PROVE  PaidForDeposits' /\ PaidPlayers \subseteq PaidPlayers'
  <2>1. CASE FirstDeposit(hand)
    <3>1. PlayerOf[hand] \in Players /\ paid' = [paid EXCEPT ![PlayerOf[hand]] = @ + WelcomeCredit]
      BY <1>1, <2>1 DEF ApplyOnce
    <3>2. /\ paid' \in [Players -> Nat]
          /\ \A p \in Players : p # PlayerOf[hand] => paid'[p] = paid[p]
          /\ paid'[PlayerOf[hand]] > 0
      BY <3>1 DEF PaidForDeposits
    <3>3. PaidPlayers' = PaidPlayers \cup {PlayerOf[hand]}
      BY <3>1, <3>2 DEF PaidPlayers
    <3>4. TypeOf[hand] = "deposit" /\ applied' = applied \cup {hand}
      BY <1>1, <2>1 DEF ApplyOnce, FirstDeposit
    <3> QED  BY <3>2, <3>3, <3>4 DEF PaidForDeposits
  <2>2. CASE ~FirstDeposit(hand)
    BY <1>1, <2>2 DEF ApplyOnce, PaidForDeposits, PaidPlayers
  <2> QED  BY <2>1, <2>2
<1>2. CASE HandleCommits \/ CommitAnswerLost
  <2>1. hand \in Events /\ ApplyOnce(hand)
    BY <1>2 DEF HandleCommits, CommitAnswerLost, Working, MetricsTypeOK
  <2> QED  BY <1>1, <2>1
<1>3. CASE ~HandleCommits /\ ~CommitAnswerLost
  <2>1. paid' = paid /\ applied' = applied
    BY <1>3 DEF AnyStep, BackendNext, ConsumerWorks, Enqueue, Save, CountIngested, Take, SkipDuplicate,
       AttemptFails, Park, Count, Crash, StartApp, deliveryVars
  <2> QED  BY <2>1 DEF PaidForDeposits, PaidPlayers
<1> QED  BY <1>2, <1>3

\* Without a restart a step takes nothing off a counter, nor off the players paid.
LEMMA CountersGrow ==
  ASSUME MetricsInv, PaidForDeposits, AnyStep, restarts' = 0
  PROVE  /\ restarts = 0
         /\ \A c \in Counters : counters[c] \in Nat /\ counters'[c] \in Nat /\ counters[c] <= counters'[c]
         /\ Cardinality(PaidPlayers) \in Nat /\ Cardinality(PaidPlayers') \in Nat
         /\ Cardinality(PaidPlayers) <= Cardinality(PaidPlayers')
<1>1. MetricsTypeOK /\ uncounted \in Queues /\ MetricsInv'
  BY MetricsInvStep DEF MetricsInv
<1>2. restarts = 0 /\ ~Crash
  BY <1>1 DEF AnyStep, BackendNext, ConsumerWorks, MetricsTypeOK, Enqueue, CountIngested, Take, HandleCommits,
     SkipDuplicate, AttemptFails, CommitAnswerLost, Count, Crash, StartApp
<1>3. counters \in [Counters -> Nat] /\ counters' \in [Counters -> Nat]
  BY <1>1 DEF MetricsInv, MetricsTypeOK
<1>4. \A c \in Counters : counters[c] <= counters'[c]
  <2>1. CASE \E k \in Counters : counters' = [counters EXCEPT ![k] = @ + 1]
    BY <1>3, <2>1
  <2>2. CASE counters' = counters
    BY <1>3, <2>2
  <2>3. Count => Head(uncounted) \in Counters
    BY <1>1, QueueStep DEF Count
  <2>4. "ingested" \in Counters
    BY DEF Counters
  <2> QED
    BY <1>2, <2>1, <2>2, <2>3, <2>4 DEF AnyStep, BackendNext, ConsumerWorks, Enqueue, CountIngested, Take,
       HandleCommits, SkipDuplicate, AttemptFails, CommitAnswerLost, Count, StartApp
<1>5. PaidForDeposits' /\ PaidPlayers \subseteq PaidPlayers'
  BY <1>1, PaidStep
<1>6. IsFiniteSet(PaidPlayers)
  BY <1>1, PaidPlayersFinite
<1>7. IsFiniteSet(PaidPlayers')
  <2>1. IsFiniteSet(applied')
    BY <1>1, MetricsAssumption, FS_Subset DEF MetricsInv, MetricsTypeOK
  <2> DEFINE player == [f \in applied' |-> PlayerOf[f]]
             T == {PlayerOf[f] : f \in applied'}
  <2>2. player \in Surjection(applied', T)
    BY DEF Surjection
  <2>3. IsFiniteSet(T)
    BY <2>1, <2>2, FS_Surjection
  <2>4. PaidPlayers' \subseteq T
    BY <1>5 DEF PaidForDeposits
  <2> QED  BY <2>3, <2>4, FS_Subset
<1> QED  BY <1>2, <1>3, <1>4, <1>5, <1>6, <1>7, FS_Subset, FS_CardinalityType

\* The queue of a first deposit is no other queue, nor what is left of one.
LEMMA CreditQueue ==
  /\ <<"credits", "welcome", "processed">> \notin
       {<<>>, <<"processed">>, <<"welcome", "processed">>, <<"retries">>, <<"dlq">>}
  /\ \A q \in Queues : q # <<>> => Tail(q) # <<"credits", "welcome", "processed">>
<1>1. <<"credits", "welcome", "processed">> \notin
        {<<>>, <<"processed">>, <<"welcome", "processed">>, <<"retries">>, <<"dlq">>}
  <2> DEFINE q == <<"credits", "welcome", "processed">>
  <2>1. Len(q) = 3
    OBVIOUS
  <2>2. Len(<<>>) = 0 /\ Len(<<"processed">>) = 1 /\ Len(<<"welcome", "processed">>) = 2
    OBVIOUS
  <2>3. Len(<<"retries">>) = 1 /\ Len(<<"dlq">>) = 1
    OBVIOUS
  <2> HIDE DEF q
  <2> QED  BY <2>1, <2>2, <2>3
<1>2. ASSUME NEW q \in Queues, q # <<>>
      PROVE  Tail(q) # <<"credits", "welcome", "processed">>
  <2>1. Tail(<<"processed">>) = <<>> /\ Tail(<<"welcome", "processed">>) = <<"processed">>
    OBVIOUS
  <2>2. Tail(<<"credits", "welcome", "processed">>) = <<"welcome", "processed">>
    OBVIOUS
  <2>3. Tail(q) \in {<<>>, <<"processed">>, <<"welcome", "processed">>}
    <3>1. q \in {<<"retries">>, <<"dlq">>} => Tail(q) = <<>>
      BY QueueTails
    <3> QED  BY <1>2, <2>1, <2>2, <3>1, Zenon DEF Queues
  <2> QED  BY <1>1, <2>3
<1> QED  BY <1>1, <1>2

\* A credit is counted once, after the player was paid for the first time.
LEMMA CreditStep ==
  ASSUME MetricsInv, PaidForDeposits, CreditedIsPaid, AnyStep
  PROVE  CreditedIsPaid'
<1> SUFFICES ASSUME restarts' = 0
             PROVE  counters'["credits"] + CreditPending' <= Cardinality(PaidPlayers')
  BY DEF CreditedIsPaid
<1>1. MetricsTypeOK /\ uncounted \in Queues /\ "credits" \in Counters
  BY DEF MetricsInv, Counters
<1>2. /\ restarts = 0
      /\ counters["credits"] \in Nat /\ counters'["credits"] \in Nat
      /\ Cardinality(PaidPlayers) \in Nat /\ Cardinality(PaidPlayers') \in Nat
      /\ Cardinality(PaidPlayers) <= Cardinality(PaidPlayers')
  BY <1>1, CountersGrow
<1>3. counters["credits"] + CreditPending <= Cardinality(PaidPlayers)
  BY <1>2 DEF CreditedIsPaid
<1>4. counters \in [Counters -> Nat] /\ CreditPending \in {0, 1} /\ CreditPending' \in {0, 1}
  BY <1>1 DEF MetricsTypeOK, CreditPending
<1>5. CASE HandleCommits /\ FirstDeposit(hand)
  <2>1. /\ hand \in Events /\ TypeOf[hand] = "deposit" /\ counters' = counters
        /\ paid' = [paid EXCEPT ![PlayerOf[hand]] = @ + WelcomeCredit]
        /\ CreditPending = 0
    BY <1>1, <1>5 DEF HandleCommits, ApplyOnce, FirstDeposit, Working, MetricsTypeOK, CreditPending
  <2>2. PlayerOf[hand] \in Players /\ PlayerOf[hand] \notin PaidPlayers
    BY <1>5, <2>1, MetricsAssumption DEF FirstDeposit, PaidForDeposits
  <2>3. PaidPlayers' = PaidPlayers \cup {PlayerOf[hand]}
    BY <2>1, <2>2, MetricsAssumption DEF PaidForDeposits, PaidPlayers
  <2>4. Cardinality(PaidPlayers') = Cardinality(PaidPlayers) + 1
    BY <1>1, <2>2, <2>3, PaidPlayersFinite, FS_AddElement
  <2> QED  BY <1>2, <1>3, <1>4, <2>1, <2>4
<1>6. CASE Count
  <2>1. CASE Head(uncounted) = "credits"
    <3>1. counters'["credits"] = counters["credits"] + 1
      BY <1>1, <1>4, <1>6, <2>1 DEF Count
    <3>2. uncounted = <<"credits", "welcome", "processed">>
      BY <1>1, <2>1, <1>6 DEF Queues, Count
    <3>3. Tail(uncounted) = <<"welcome", "processed">>
      BY <3>2
    <3>4. uncounted' \in {<<>>, <<"welcome", "processed">>}
      BY <1>6, <3>3 DEF Count, Idle
    <3>5. CreditPending = 1 /\ CreditPending' = 0
      BY <3>2, <3>4, CreditQueue DEF CreditPending
    <3> QED  BY <1>2, <1>3, <3>1, <3>5
  <2>2. CASE Head(uncounted) # "credits"
    <3>1. counters'["credits"] = counters["credits"]
      BY <1>1, <1>4, <1>6, <2>2 DEF Count
    <3>2. uncounted' \in {<<>>, Tail(uncounted)}
      BY <1>6 DEF Count, Idle
    <3>3. CreditPending' = 0
      BY <1>1, <1>6, <3>2, CreditQueue DEF Count, CreditPending
    <3> QED  BY <1>2, <1>3, <1>4, <3>1, <3>3
  <2> QED  BY <2>1, <2>2
<1>7. ASSUME NEW e \in Events, CountIngested(e)
      PROVE  counters'["credits"] + CreditPending' <= Cardinality(PaidPlayers')
  BY <1>1, <1>2, <1>3, <1>4, <1>7 DEF CountIngested, CreditPending
<1>8. CASE ~(HandleCommits /\ FirstDeposit(hand)) /\ ~Count /\ ~\E e \in Events : CountIngested(e)
  <2>1. ~Crash
    BY <1>1, <1>2 DEF Crash, MetricsTypeOK
  <2>2. counters' = counters /\ (uncounted' = uncounted \/ uncounted' \in {<<>>, <<"retries">>, <<"dlq">>, <<"processed">>})
    BY <1>8, <2>1 DEF AnyStep, BackendNext, ConsumerWorks, Enqueue, Take, HandleCommits,
       SkipDuplicate, AttemptFails, CommitAnswerLost, StartApp, countingVars, Idle
  <2>3. CreditPending' \in {0, CreditPending}
    BY <2>2, CreditQueue DEF CreditPending
  <2> QED  BY <1>2, <1>3, <1>4, <2>2, <2>3
<1> QED  BY <1>5, <1>6, <1>7, <1>8
\* What the arena and everybody next to it do to the process's state is what clients do.
LEMMA ArenaIsClient ==
  ASSUME ArenaInv, [ArenaNext]_<<metricsVars, healthVars, arenaVars>>
  PROVE  AnyStep \/ UNCHANGED metricsVars
<1>1. CASE RouteSteps
  <2>1. CASE PostEvent \/ EventAccepted
    <3>1. NextEvent \in Events
      <4>1. run \in Runs /\ demo.posted \in Nat /\ demo.posted < Len(RunEvents[run])
        BY <2>1 DEF ArenaInv, RouteInv, RouteTypeOK, RouteFollowsStory, Begun, PostEvent, EventAccepted, At
      <4>2. RunEvents[run] \in Seq(Events)
        BY <4>1, ArenaAssumption DEF Runs
      <4> QED  BY <4>1, <4>2 DEF NextEvent
    <3> QED  BY <2>1, <3>1 DEF PostEvent, EventAccepted, AnyStep
  <2>2. CASE ~PostEvent /\ ~EventAccepted
    BY <1>1, <2>2 DEF RouteSteps, ReadBefore, WaitOver, RouteFails, ReadAnswers
  <2> QED  BY <2>1, <2>2
<1>2. CASE StrayAnswer
  <2>1. answering \subseteq Events
    BY DEF ArenaInv, MetricsInv, MetricsTypeOK
  <2> QED  BY <1>2, <2>1 DEF StrayAnswer, AnyStep
<1>3. CASE MetricsNext
  BY <1>3, MetricsAssumption DEF MetricsNext, AnyStep, PartnerPosts
<1>4. CASE UNCHANGED metricsVars
  BY <1>4
<1> QED  BY <1>1, <1>2, <1>3, <1>4 DEF ArenaNext, Ignite

\* So the process's invariant is kept, and its counters grow until it restarts.
LEMMA ArenaGrows ==
  ASSUME ArenaInv, [ArenaNext]_<<metricsVars, healthVars, arenaVars>>
  PROVE  /\ MetricsInv' /\ PaidForDeposits' /\ CreditedIsPaid'
         /\ restarts' = 0 =>
              /\ restarts = 0
              /\ counters["ingested"] \in Nat /\ counters'["ingested"] \in Nat
              /\ counters["ingested"] <= counters'["ingested"]
              /\ Cardinality(PaidPlayers) \in Nat /\ Cardinality(PaidPlayers') \in Nat
              /\ Cardinality(PaidPlayers) <= Cardinality(PaidPlayers')
<1>1. MetricsInv /\ PaidForDeposits /\ CreditedIsPaid /\ MetricsTypeOK /\ "ingested" \in Counters
  BY DEF ArenaInv, MetricsInv, Counters
<1>2. MetricsInv'
  BY <1>1, ArenaIsClient, MetricsInvStep
<1>3. CASE AnyStep
  BY <1>1, <1>2, <1>3, PaidStep, CreditStep, CountersGrow
<1>4. CASE UNCHANGED metricsVars
  <2>1. /\ PaidPlayers' = PaidPlayers /\ counters' = counters /\ restarts' = restarts
        /\ PaidForDeposits' /\ CreditedIsPaid'
    BY <1>1, <1>4 DEF metricsVars, deliveryVars, PaidPlayers, PaidForDeposits, CreditedIsPaid, CreditPending
  <2>2. Cardinality(PaidPlayers) \in Nat /\ counters["ingested"] \in Nat
    BY <1>1, PaidPlayersFinite DEF MetricsTypeOK
  <2> QED  BY <1>2, <2>1, <2>2
<1> QED  BY <1>3, <1>4, ArenaIsClient

\* A run has events.
LEMMA RunLength ==
  ASSUME NEW r \in Runs
  PROVE  Len(RunEvents[r]) \in Nat \ {0}
<1>1. RunEvents[r] \in Seq(Events) /\ RunEvents[r] # <<>>
  BY ArenaAssumption DEF Runs
<1> QED  BY <1>1

\* The handler's variables keep their types.
LEMMA RouteTypeStep ==
  ASSUME ArenaInv, [ArenaNext]_<<metricsVars, healthVars, arenaVars>>
  PROVE  RouteTypeOK'
<1>1. RouteTypeOK /\ counters \in [Counters -> Nat]
  BY DEF ArenaInv, RouteInv, MetricsInv, MetricsTypeOK
<1>2. CASE demo' = NotBegun \/ demo' = demo \/ RouteFails
  BY <1>1, <1>2 DEF RouteTypeOK, NotBegun, RouteFails, Zeros
<1>3. CASE ReadBefore \/ PostEvent \/ EventAccepted \/ WaitOver \/ SendRequest
  <2>1. CASE ReadBefore
    BY <1>1, <2>1 DEF ReadBefore, RouteTypeOK
  <2>2. CASE PostEvent \/ SendRequest
    BY <1>1, <2>2 DEF PostEvent, SendRequest, Goto, RouteTypeOK
  <2>3. CASE EventAccepted
    <3>1. \E step \in {"wait", "post"} : demo' = [demo EXCEPT !.posted = @ + 1, !.at = step]
      BY <2>3 DEF EventAccepted
    <3>2. demo.posted + 1 \in Nat
      BY <1>1 DEF RouteTypeOK
    <3> QED  BY <1>1, <3>1, <3>2 DEF RouteTypeOK
  <2>4. CASE WaitOver
    BY <1>1, <2>4 DEF WaitOver, RouteTypeOK
  <2> QED  BY <1>3, <2>1, <2>2, <2>3, <2>4
<1>4. ASSUME NEW x, ReadAnswers(x) PROVE RouteTypeOK'
  BY <1>1, <1>4 DEF ReadAnswers, RouteTypeOK
<1> QED
  BY <1>2, <1>3, <1>4 DEF ArenaNext, Ignite, Beats, StreamBeat, AcmeBeat, NovaBeat, PayoffBeat, RunFails,
     RouteSteps, arenaVars
\* The handler has posted what its place in the loop says, and the page shows a run
\* whose answer is there.
LEMMA StoryStep ==
  ASSUME ArenaInv, [ArenaNext]_<<metricsVars, healthVars, arenaVars>>
  PROVE  RouteFollowsStory'
<1>1. RouteTypeOK /\ RouteFollowsStory
  BY DEF ArenaInv, RouteInv
<1>2. CASE Ignite
  BY <1>2 DEF Ignite, RouteFollowsStory, NotBegun, Begun, Shown
<1>3. CASE RunFails
  BY <1>1, <1>3 DEF RunFails, RouteFollowsStory, NotBegun, Begun, Shown, NextBeat
<1>4. CASE SendRequest
  <2>1. /\ demo' = [demo EXCEPT !.at = "before"] /\ demo.posted = 0 /\ demo'.at = "before" /\ demo'.posted = 0
        /\ run' = run /\ run \in Runs /\ beat' = "ingest"
    BY <1>1, <1>4 DEF SendRequest, NextBeat, Goto, RouteFollowsStory, NotBegun, RouteTypeOK
  <2> QED  BY <2>1 DEF RouteFollowsStory, Begun, Shown
<1>5. CASE StreamBeat \/ AcmeBeat \/ NovaBeat \/ PayoffBeat
  BY <1>1, <1>5 DEF StreamBeat, AcmeBeat, NovaBeat, PayoffBeat, NextBeat, RouteFollowsStory, Begun, Shown, At
<1>6. ASSUME RouteSteps, UNCHANGED <<beat, busy, run>>
      PROVE  RouteFollowsStory'
  <2>1. CASE ReadBefore
    <3>1. /\ demo.at = "before" /\ demo'.at = "post" /\ demo'.posted = 0
          /\ demo.posted = 0 /\ run \in Runs /\ beat # "sign" /\ ~Shown
      BY <1>1, <2>1 DEF ReadBefore, At, RouteFollowsStory, RouteTypeOK, NotBegun, Begun
    <3>2. 0 < Len(RunEvents[run])
      BY <3>1, RunLength
    <3> QED  BY <1>1, <1>6, <3>1, <3>2 DEF RouteFollowsStory, Begun, Shown
  <2>2. CASE PostEvent
    <3>1. /\ demo.at = "post" /\ demo'.at = "answer" /\ demo'.posted = demo.posted
          /\ beat # "sign" /\ ~Shown
      BY <1>1, <2>2 DEF PostEvent, Goto, At, RouteFollowsStory, RouteTypeOK, NotBegun
    <3> QED  BY <1>1, <1>6, <3>1 DEF RouteFollowsStory, Begun, Shown
  <2>3. CASE EventAccepted
    <3>1. /\ demo.at = "answer" /\ demo'.posted = demo.posted + 1
          /\ demo'.at = IF demo.posted + 1 = Len(RunEvents[run]) THEN "wait" ELSE "post"
          /\ beat # "sign" /\ ~Shown /\ run \in Runs
          /\ demo.posted \in Nat /\ demo.posted < Len(RunEvents[run])
      BY <1>1, <2>3 DEF EventAccepted, At, RouteFollowsStory, RouteTypeOK, NotBegun, Begun
    <3>2. Len(RunEvents[run]) \in Nat
      BY <3>1, RunLength
    <3>3. IF demo'.at = "wait" THEN demo'.posted = Len(RunEvents[run])
                               ELSE demo'.at = "post" /\ demo'.posted < Len(RunEvents[run])
      BY <3>1, <3>2
    <3> QED  BY <1>1, <1>6, <3>1, <3>3 DEF RouteFollowsStory, Begun, Shown
  <2>4. CASE WaitOver
    <3>1. /\ demo.at = "wait" /\ demo'.at = "read" /\ demo'.posted = demo.posted
          /\ beat # "sign" /\ ~Shown
      BY <1>1, <2>4 DEF WaitOver, At, RouteFollowsStory, RouteTypeOK, NotBegun
    <3> QED  BY <1>1, <1>6, <3>1 DEF RouteFollowsStory, Begun, Shown
  <2>5. ASSUME NEW x, ReadAnswers(x) PROVE RouteFollowsStory'
    <3>1. /\ demo.at = "read" /\ demo'.at \in {"read", "done"} /\ demo'.posted = demo.posted
          /\ demo'.at = "done" => demo'.todo = {}
          /\ beat # "sign" /\ ~Shown
      BY <1>1, <2>5 DEF ReadAnswers, At, RouteFollowsStory, RouteTypeOK, NotBegun
    <3> QED  BY <1>1, <1>6, <3>1 DEF RouteFollowsStory, Begun, Shown
  <2>6. CASE RouteFails
    <3>1. /\ demo.at \notin {"none", "done"} /\ demo'.at = "failed"
          /\ beat # "sign" /\ ~Shown
      BY <1>1, <2>6 DEF RouteFails, At, RouteFollowsStory, RouteTypeOK, NotBegun
    <3> QED  BY <1>1, <1>6, <3>1 DEF RouteFollowsStory, Begun, Shown
  <2> QED  BY <1>6, <2>1, <2>2, <2>3, <2>4, <2>5, <2>6 DEF RouteSteps
<1>7. CASE UNCHANGED arenaVars
  BY <1>1, <1>7 DEF arenaVars, RouteFollowsStory, Begun, Shown
<1> QED  BY <1>2, <1>3, <1>4, <1>5, <1>6, <1>7 DEF ArenaNext, Beats

\* Readings taken stay on their side of the counters.
LEMMA ReadingsKept ==
  ASSUME ArenaInv, [ArenaNext]_<<metricsVars, healthVars, arenaVars>>, restarts' = 0,
         demo'.before = demo.before, demo'.after = demo.after, demo'.posted = demo.posted,
         run' = run, Measuring' => Measuring,
         demo'.at \in {"read", "done"} /\ "metrics" \notin demo'.todo =>
           demo.at \in {"read", "done"} /\ "metrics" \notin demo.todo
  PROVE  ReadingsSpanRun'
<1>1. /\ restarts = 0
      /\ counters["ingested"] \in Nat /\ counters'["ingested"] \in Nat
      /\ counters["ingested"] <= counters'["ingested"]
      /\ Cardinality(PaidPlayers) \in Nat /\ Cardinality(PaidPlayers') \in Nat
      /\ Cardinality(PaidPlayers) <= Cardinality(PaidPlayers')
  BY ArenaGrows
<1>2. /\ demo.before["ingested"] \in Nat /\ demo.posted \in Nat /\ demo.after["credits"] \in Nat
  BY DEF ArenaInv, RouteInv, RouteTypeOK, Counters
<1> QED  BY <1>1, <1>2 DEF ArenaInv, RouteInv, ReadingsSpanRun

\* Each reading is of the counters as they are: the first before the run's posts, the
\* second after all of them are counted.
LEMMA ReadingsStep ==
  ASSUME ArenaInv, [ArenaNext]_<<metricsVars, healthVars, arenaVars>>
  PROVE  ReadingsSpanRun'
<1> SUFFICES ASSUME restarts' = 0 PROVE ReadingsSpanRun'
  BY DEF ReadingsSpanRun
<1>1. RouteTypeOK /\ RouteFollowsStory /\ ReadingsSpanRun /\ CreditedIsPaid
  BY DEF ArenaInv, RouteInv
<1>2. /\ restarts = 0
      /\ counters["ingested"] \in Nat /\ counters'["ingested"] \in Nat
      /\ counters["ingested"] <= counters'["ingested"]
      /\ Cardinality(PaidPlayers) \in Nat
  BY ArenaGrows
<1>3. /\ demo.before["ingested"] \in Nat /\ demo.posted \in Nat
      /\ counters \in [Counters -> Nat] /\ {"ingested", "credits"} \subseteq Counters
  BY <1>1 DEF RouteTypeOK, Counters, ArenaInv, MetricsInv, MetricsTypeOK
<1>4. CASE Ignite \/ RunFails \/ RouteFails \/ SendRequest
  <2>1. demo'.at \in {"none", "failed", "before"}
    BY <1>1, <1>4 DEF Ignite, RunFails, RouteFails, SendRequest, Goto, NotBegun, RouteTypeOK
  <2> QED  BY <2>1 DEF ReadingsSpanRun, Measuring
<1>5. CASE demo' = demo /\ run' = run
  <2>1. Measuring' = Measuring
    BY <1>5 DEF Measuring
  <2> QED  BY <1>5, <2>1, ReadingsKept
<1>6. ASSUME RouteSteps, UNCHANGED <<beat, busy, run>>
      PROVE  ReadingsSpanRun'
  <2>1. CASE ReadBefore
    <3>1. /\ demo'.before = counters /\ demo'.posted = 0 /\ demo'.at = "post" /\ counters' = counters
      BY <1>1, <2>1 DEF ReadBefore, At, RouteFollowsStory, RouteTypeOK, metricsVars
    <3> QED  BY <1>3, <3>1 DEF ReadingsSpanRun
  <2>2. CASE PostEvent
    <3>1. /\ demo' = [demo EXCEPT !.at = "answer"] /\ demo.at = "post"
          /\ demo'.before = demo.before /\ demo'.after = demo.after /\ demo'.posted = demo.posted
          /\ demo'.at = "answer"
      BY <1>1, <2>2 DEF PostEvent, Goto, At, RouteTypeOK
    <3> QED  BY <1>6, <3>1, ReadingsKept DEF Measuring
  <2>3. CASE EventAccepted
    <3>1. /\ demo'.before = demo.before /\ demo'.posted = demo.posted + 1 /\ demo'.at \in {"wait", "post"}
          /\ demo.at = "answer" /\ counters'["ingested"] = counters["ingested"] + 1
      BY <1>1, <1>3, <2>3 DEF EventAccepted, At, CountIngested, RouteTypeOK
    <3>2. demo.before["ingested"] + demo.posted <= counters["ingested"]
      BY <1>1, <1>2, <3>1 DEF ReadingsSpanRun, Measuring
    <3>3. demo.before["ingested"] + (demo.posted + 1) <= counters["ingested"] + 1
      BY <1>2, <1>3, <3>2
    <3> QED  BY <3>1, <3>3 DEF ReadingsSpanRun
  <2>4. CASE WaitOver
    <3>1. /\ demo.at = "wait" /\ demo'.at = "read" /\ "metrics" \in demo'.todo
          /\ demo'.before = demo.before /\ demo'.after = demo.after /\ demo'.posted = demo.posted
      BY <1>1, <2>4 DEF WaitOver, At, RouteTypeOK
    <3> QED  BY <1>6, <3>1, ReadingsKept DEF Measuring
  <2>5. ASSUME NEW x \in demo.todo, ReadAnswers(x) PROVE ReadingsSpanRun'
    <3>1. /\ demo.at = "read" /\ demo'.at \in {"read", "done"}
          /\ demo'.before = demo.before /\ demo'.posted = demo.posted
          /\ demo'.todo = demo.todo \ {x}
          /\ demo'.after = IF x = "metrics" THEN counters ELSE demo.after
          /\ counters' = counters /\ PaidPlayers' = PaidPlayers
      BY <1>1, <2>5 DEF ReadAnswers, At, RouteTypeOK, metricsVars, deliveryVars, PaidPlayers
    <3>2. CASE x = "metrics"
      <4>1. demo.before["ingested"] + Len(RunEvents[run]) <= counters["ingested"]
        BY <1>1, <1>2, <3>1 DEF ReadingsSpanRun, Measuring, RouteFollowsStory
      <4>2. counters["credits"] <= Cardinality(PaidPlayers)
        BY <1>1, <1>2, <1>3 DEF CreditedIsPaid, CreditPending
      <4>3. demo.before["ingested"] + demo.posted <= counters["ingested"]
        BY <1>1, <1>2, <3>1 DEF ReadingsSpanRun, Measuring
      <4> QED  BY <1>6, <3>1, <3>2, <4>1, <4>2, <4>3 DEF ReadingsSpanRun
    <3>3. CASE x # "metrics"
      BY <1>6, <3>1, <3>3, ReadingsKept DEF Measuring
    <3> QED  BY <3>2, <3>3
  <2> QED  BY <1>4, <1>6, <2>1, <2>2, <2>3, <2>4, <2>5 DEF RouteSteps
<1> QED
  BY <1>4, <1>5, <1>6 DEF ArenaNext, Beats, StreamBeat, AcmeBeat, NovaBeat, PayoffBeat, NextBeat, arenaVars

\* Nothing is asked, nothing counted.
LEMMA ArenaInitInv == MetricsInit /\ HealthInit /\ ArenaInit => ArenaInv
<1> SUFFICES ASSUME MetricsInit, ArenaInit PROVE ArenaInv
  OBVIOUS
<1>1. MetricsInv
  BY MetricsInitInv
<1>2. PaidForDeposits
  BY DEF MetricsInit, DeliveryInit, PaidForDeposits, PaidPlayers
<1>3. CreditedIsPaid
  <2>1. CreditPending = 0
    BY CreditQueue DEF MetricsInit, CreditPending
  <2>2. Cardinality(PaidPlayers) \in Nat
    BY <1>1, <1>2, PaidPlayersFinite DEF MetricsInv
  <2> QED  BY <2>1, <2>2 DEF MetricsInit, CreditedIsPaid, Zeros, Counters
<1>4. RouteInv
  BY DEF ArenaInit, NotBegun, Zeros, RouteInv, RouteTypeOK, RouteFollowsStory, ReadingsSpanRun, Begun, Measuring, Shown
<1> QED  BY <1>1, <1>2, <1>3, <1>4 DEF ArenaInv

\* DeltaCoversRun holds always: until a restart, "this run" counts at least the run's own
\* posts and never more credits than players were paid.
THEOREM ArenaDeltaCoversRun == ArenaSpec => []DeltaCoversRun
<1>1. ArenaInv /\ [ArenaNext]_<<metricsVars, healthVars, arenaVars>> => ArenaInv'
  BY ArenaGrows, RouteTypeStep, StoryStep, ReadingsStep DEF ArenaInv, RouteInv
<1>2. ArenaInv => DeltaCoversRun
  <2> SUFFICES ASSUME ArenaInv, Shown, restarts = 0
               PROVE  /\ Delta("ingested") >= Len(RunEvents[run])
                      /\ Delta("credits") <= Cardinality({p \in Players : paid[p] > 0})
    BY DEF DeltaCoversRun
  <2>1. /\ demo.at = "done" /\ demo.todo = {} /\ run \in Runs
    BY DEF ArenaInv, RouteInv, RouteFollowsStory, Begun
  <2>2. /\ demo.before["ingested"] + Len(RunEvents[run]) <= demo.after["ingested"]
        /\ demo.after["credits"] <= Cardinality(PaidPlayers)
    BY <2>1 DEF ArenaInv, RouteInv, ReadingsSpanRun
  <2>3. /\ {demo.before["ingested"], demo.after["ingested"], demo.before["credits"], demo.after["credits"]} \subseteq Nat
    BY DEF ArenaInv, RouteInv, RouteTypeOK, Counters
  <2>4. Cardinality(PaidPlayers) \in Nat /\ Len(RunEvents[run]) \in Nat
    BY <2>1, RunLength, PaidPlayersFinite DEF ArenaInv, MetricsInv
  <2> QED  BY <2>2, <2>3, <2>4 DEF Delta, PaidPlayers
<1> QED  BY <1>1, <1>2, ArenaInitInv, PTL DEF ArenaSpec

\* To the path the arena, its visitors and partners are clients: what they and the
\* process do is what Delivery promises, whoever ignites, leaves or crashes.
THEOREM ArenaImplementsDelivery == ArenaSpec => DeliverySpec
<1>1. ArenaInv /\ [ArenaNext]_<<metricsVars, healthVars, arenaVars>> =>
        ArenaInv' /\ [DeliveryNext]_deliveryVars
  <2> SUFFICES ASSUME ArenaInv, [ArenaNext]_<<metricsVars, healthVars, arenaVars>>
               PROVE  ArenaInv' /\ [DeliveryNext]_deliveryVars
    OBVIOUS
  <2>1. ArenaInv'
    BY ArenaGrows, RouteTypeStep, StoryStep, ReadingsStep DEF ArenaInv, RouteInv
  <2>2. AnyStep \/ UNCHANGED metricsVars
    BY ArenaIsClient
  <2> QED  BY <2>1, <2>2, AnyStepDelivers DEF ArenaInv, MetricsInv, metricsVars
<1>2. MetricsInit => DeliveryInit
  BY DEF MetricsInit
<1> QED  BY <1>1, <1>2, ArenaInitInv, PTL DEF ArenaSpec, DeliverySpec
-----------------------------------------------------------------------------
(***************************************************************************)
(* A list of dead letters never waits in vain, whatever is written, read   *)
(* or failed meanwhile.  The invariant ties the reader's place to what it  *)
(* was promised: while retention is behind it, the letters it has read are *)
(* those from where it started up to where it is.                          *)
(***************************************************************************)

ReadsInOrder == \A k \in 1..Len(out) : out[k] = last - want + (k - 1)

ReadingOnTrack ==
  /\ letters \in Seq(Letter) /\ first \in Nat \ {0} /\ first <= Len(letters) + 1
  /\ request \in [brand : Brands, n : Queries]
  /\ want \in Nat /\ last \in Nat /\ pos \in Nat /\ trimmed \in BOOLEAN
  /\ out \in Seq(Nat) /\ last <= Len(letters) + 1
  /\ lpc = "offsets" => want = 0 /\ out = <<>> /\ ~trimmed
  /\ lpc = "read" /\ ~trimmed => first <= pos /\ pos = last - want + Len(out) /\ ReadsInOrder
  /\ want > 0 => want < last /\ want <= MaxInspect

ListInv == ReadingOnTrack /\ TimeoutMeansTrimmed

\* There are no letters, and nobody reads.
LEMMA ListInitInv == ListInit => ListInv
<1> SUFFICES ASSUME ListInit PROVE ListInv
  OBVIOUS
<1>1. letters \in Seq(Letter) /\ out \in Seq(Nat) /\ Len(letters) = 0
  BY DEF ListInit
<1>2. /\ first = 1 /\ lpc = "offsets" /\ last = 0 /\ want = 0 /\ pos = 1 /\ out = <<>>
      /\ request \in [brand : Brands, n : Queries] /\ trimmed \in BOOLEAN /\ ~trimmed
  BY DEF ListInit
<1> QED  BY <1>1, <1>2 DEF ListInv, ReadingOnTrack, TimeoutMeansTrimmed

\* A letter is written behind the others.
LEMMA LettersKept ==
  ASSUME letters \in Seq(Letter), PublishDLQ
  PROVE  /\ letters' \in Seq(Letter) /\ Len(letters') = Len(letters) + 1
         /\ \A i \in 1..Len(letters) : letters'[i] = letters[i]
<1>1. PICK b \in Brands, e \in EventIds, s \in 0..Skew :
        letters' = Append(letters, [brand |-> b, event |-> e, failedAt |-> Len(letters) - s])
  BY DEF PublishDLQ
<1>2. [brand |-> b, event |-> e, failedAt |-> Len(letters) - s] \in Letter
  BY DlqListAssumption DEF Letter
<1> QED  BY <1>1, <1>2

\* A read takes the next letter as long as retention is behind it, and has one to take
\* until it has all.
LEMMA ListStep ==
  ASSUME ListInv, [ListNext]_listVars
  PROVE  ListInv'
<1> USE DlqListAssumption
<1>1. ReadingOnTrack /\ TimeoutMeansTrimmed /\ Len(letters) \in Nat /\ Len(out) \in Nat
  BY DEF ListInv, ReadingOnTrack
<1>2. CASE PublishDLQ
  <2>1. letters' \in Seq(Letter) /\ Len(letters') = Len(letters) + 1
    BY <1>1, <1>2, LettersKept DEF ReadingOnTrack
  <2> QED  BY <1>1, <1>2, <2>1 DEF PublishDLQ, ListInv, ReadingOnTrack, ReadsInOrder, TimeoutMeansTrimmed
<1>3. CASE Retention
  <2>1. /\ UNCHANGED <<letters, lpc, request, last, want, pos, out>>
        /\ first' = first + 1 /\ first' <= Len(letters) + 1
        /\ trimmed' \in BOOLEAN /\ (trimmed => trimmed')
        /\ lpc = "read" /\ ~trimmed' => first' <= pos
        /\ lpc = "offsets" => trimmed' = trimmed
    <3>1. trimmed' = (trimmed \/ (lpc = "read" /\ pos < first'))
      BY <1>3 DEF Retention
    <3>2. trimmed' \in BOOLEAN /\ (trimmed => trimmed') /\ (~trimmed' => ~(lpc = "read" /\ pos < first'))
      BY <3>1, Zenon
    <3>3. lpc = "offsets" => trimmed' = trimmed
      BY <1>1, <3>1, Zenon DEF ReadingOnTrack
    <3> QED  BY <1>1, <1>3, <3>2, <3>3 DEF Retention, ReadingOnTrack
  <2>2. ReadsInOrder' = ReadsInOrder
    BY <2>1 DEF ReadsInOrder
  <2> QED  BY <1>1, <2>1, <2>2 DEF ListInv, ReadingOnTrack, TimeoutMeansTrimmed
<1>4. CASE ReadOffsets
  <2>1. CASE lpc' = "listed" /\ UNCHANGED <<want, pos>>
    BY <1>1, <1>4, <2>1 DEF ReadOffsets, ListInv, ReadingOnTrack, TimeoutMeansTrimmed
  <2>2. CASE /\ lpc' = "read" /\ want' = Want(first, last') /\ pos' = Start(first, last')
             /\ first < last'
    <3>1. last' = Len(letters) + 1 /\ last' \in Nat /\ first \in Nat \ {0}
      BY <1>1, <1>4 DEF ReadOffsets, ReadingOnTrack
    <3>2. /\ want' \in Nat /\ pos' = last' - want' /\ pos' \in Nat /\ first <= pos'
          /\ want' > 0 /\ want' < last' /\ want' <= MaxInspect
      BY <2>2, <3>1 DEF Want, Start
    <3>3. /\ UNCHANGED <<letters, first, request, out, trimmed>> /\ out = <<>> /\ ~trimmed
      BY <1>1, <1>4 DEF ReadOffsets, ReadingOnTrack
    <3>4. ReadsInOrder' /\ Len(out') = 0
      BY <3>3 DEF ReadsInOrder
    <3> QED  BY <1>1, <2>2, <3>1, <3>2, <3>3, <3>4 DEF ListInv, ReadingOnTrack, TimeoutMeansTrimmed
  <2> QED  BY <1>1, <1>4, <2>1, <2>2 DEF ReadOffsets, ReadingOnTrack
<1>5. CASE ReadMessage
  <2>1. /\ out' = Append(out, ReadAt) /\ pos' = ReadAt + 1 /\ lpc' = "read" /\ ReadAt \in Nat
        /\ UNCHANGED <<letters, first, request, last, want, trimmed>> /\ lpc = "read"
    BY <1>1, <1>5 DEF ReadMessage, ReadAt, ReadingOnTrack
  <2>2. /\ out' \in Seq(Nat) /\ Len(out') = Len(out) + 1
        /\ \A k \in 1..Len(out) : out'[k] = out[k]
        /\ out'[Len(out) + 1] = ReadAt
    BY <1>1, <2>1 DEF ReadingOnTrack
  <2>3. ASSUME ~trimmed
        PROVE  first <= pos' /\ pos' = last - want + Len(out') /\ ReadsInOrder'
    <3>1. ReadAt = pos /\ first <= pos /\ pos = last - want + Len(out) /\ pos \in Nat
      BY <1>1, <2>1, <2>3 DEF ReadAt, ReadingOnTrack
    <3>2. \A k \in 1..Len(out) : out'[k] = last - want + (k - 1)
      BY <1>1, <2>1, <2>2, <2>3 DEF ReadingOnTrack, ReadsInOrder
    <3>3. 1..Len(out') = 1..Len(out) \cup {Len(out) + 1}
      BY <1>1, <2>2
    <3>4. out'[Len(out) + 1] = last - want + ((Len(out) + 1) - 1)
      BY <1>1, <2>2, <3>1 DEF ReadingOnTrack
    <3>5. ReadsInOrder'
      BY <2>1, <3>2, <3>3, <3>4 DEF ReadsInOrder
    <3>6. first <= pos' /\ pos' = last - want + Len(out')
      BY <1>1, <2>1, <2>2, <3>1 DEF ReadingOnTrack
    <3> QED  BY <3>5, <3>6
  <2>4. pos' \in Nat
    BY <2>1
  <2> QED  BY <1>1, <2>1, <2>2, <2>3, <2>4 DEF ListInv, ReadingOnTrack, TimeoutMeansTrimmed
<1>6. CASE Answer
  BY <1>1, <1>6 DEF Answer, ListInv, ReadingOnTrack, ReadsInOrder, TimeoutMeansTrimmed
<1>7. CASE ReadTimesOut
  <2>1. trimmed
    BY <1>1, <1>7 DEF ReadTimesOut, ReadAt, ReadingOnTrack
  <2> QED  BY <1>1, <1>7, <2>1 DEF ReadTimesOut, ListInv, ReadingOnTrack, ReadsInOrder, TimeoutMeansTrimmed
<1>8. CASE ReadFails
  BY <1>1, <1>8 DEF ReadFails, ListInv, ReadingOnTrack, ReadsInOrder, TimeoutMeansTrimmed
<1>9. CASE NextRequest
  <2>1. /\ lpc' = "offsets" /\ last' = 0 /\ want' = 0 /\ pos' = 1 /\ out' = <<>>
        /\ trimmed' \in BOOLEAN /\ ~trimmed'
        /\ request' \in [brand : Brands, n : Queries] /\ UNCHANGED <<letters, first>>
    BY <1>9 DEF NextRequest
  <2>2. out' \in Seq(Nat)
    BY <2>1
  <2> QED  BY <1>1, <2>1, <2>2 DEF ListInv, ReadingOnTrack, TimeoutMeansTrimmed
<1>10. CASE UNCHANGED listVars
  BY <1>1, <1>10 DEF listVars, ListInv, ReadingOnTrack, ReadsInOrder, TimeoutMeansTrimmed
<1> QED  BY <1>2, <1>3, <1>4, <1>5, <1>6, <1>7, <1>8, <1>9, <1>10 DEF ListNext

\* TimeoutMeansTrimmed holds always: on a topic nobody trims, the read loop waits only
\* for letters that are there.
THEOREM DlqListTimesOutIfTrimmed == ListSpec => []TimeoutMeansTrimmed
BY ListInitInv, ListStep, PTL DEF ListSpec, ListInv

-----------------------------------------------------------------------------
(***************************************************************************)
(* A list is what the code's comment says, the newest letters of its brand,*)
(* and so is the page of the inspector.  A set that an order decides on    *)
(* can be sorted: each member goes behind those before it.                 *)
(***************************************************************************)

\* R decides between any two members of S.
Orders(R, S) ==
  /\ \A x, y \in S : x # y => <<x, y>> \in R \/ <<y, x>> \in R
  /\ \A x \in S : <<x, x>> \notin R
  /\ \A x, y, z \in S : <<x, y>> \in R /\ <<y, z>> \in R => <<x, z>> \in R

SortedUp(s, R) == \A i, j \in DOMAIN s : i < j => <<s[i], s[j]>> \in R

\* A finite set with an order has a sorted sequence.
LEMMA SortExists ==
  ASSUME NEW S, IsFiniteSet(S), NEW R, Orders(R, S)
  PROVE  \E s \in SetToSeqs(S) : SortedUp(s, R)
<1> DEFINE n == Cardinality(S)
           Before(x) == {y \in S : <<y, x>> \in R}
           rank == [x \in S |-> Cardinality(Before(x)) + 1]
<1>1. n \in Nat
  BY FS_CardinalityType
<1>2. ASSUME NEW x \in S
      PROVE  IsFiniteSet(Before(x)) /\ Cardinality(Before(x)) \in Nat /\ Cardinality(Before(x)) < n
  <2>1. Before(x) \subseteq S \ {x}
    BY DEF Orders
  <2>2. IsFiniteSet(S \ {x}) /\ Cardinality(S \ {x}) = n - 1
    BY FS_RemoveElement
  <2>3. IsFiniteSet(Before(x)) /\ Cardinality(Before(x)) <= Cardinality(S \ {x})
    BY <2>1, <2>2, FS_Subset
  <2>4. Cardinality(Before(x)) \in Nat
    BY <2>3, FS_CardinalityType
  <2> HIDE DEF n, Before
  <2> QED  BY <1>1, <2>2, <2>3, <2>4
<1>3. ASSUME NEW x \in S, NEW y \in S, <<x, y>> \in R
      PROVE  rank[x] < rank[y]
  <2>1. Before(x) \cup {x} \subseteq Before(y) /\ x \notin Before(x)
    BY <1>3 DEF Orders
  <2>2. Cardinality(Before(x) \cup {x}) = Cardinality(Before(x)) + 1
    BY <1>2, <2>1, FS_AddElement
  <2>3. Cardinality(Before(x) \cup {x}) <= Cardinality(Before(y))
    BY <1>2, <2>1, FS_Subset
  <2>4. Cardinality(Before(x)) \in Nat /\ Cardinality(Before(y)) \in Nat
    BY <1>2
  <2>5. rank[x] = Cardinality(Before(x)) + 1 /\ rank[y] = Cardinality(Before(y)) + 1
    OBVIOUS
  <2> HIDE DEF Before, rank
  <2> QED  BY <2>2, <2>3, <2>4, <2>5
<1>4. rank \in [S -> 1..n]
  <2>1. \A x \in S : Cardinality(Before(x)) + 1 \in 1..n
    <3> HIDE DEF n, Before
    <3> QED  BY <1>1, <1>2
  <2> HIDE DEF n, Before
  <2> QED  BY <2>1
<1>5. \A x, y \in S : rank[x] = rank[y] => x = y
  <2> SUFFICES ASSUME NEW x \in S, NEW y \in S, x # y PROVE rank[x] # rank[y]
    OBVIOUS
  <2>1. rank[x] < rank[y] \/ rank[y] < rank[x]
    <3> HIDE DEF rank
    <3> QED  BY <1>3 DEF Orders
  <2>2. rank[x] \in Int /\ rank[y] \in Int
    <3> HIDE DEF rank, n
    <3> QED  BY <1>1, <1>4
  <2> HIDE DEF rank
  <2> QED  BY <2>1, <2>2
<1> HIDE DEF rank, Before, n
<1>6. rank \in Surjection(S, 1..n)
  <2>1. rank \in Injection(S, 1..n)
    BY <1>4, <1>5 DEF Injection, IsInjective
  <2>2. IsFiniteSet(1..n) /\ Cardinality(1..n) = n
    BY <1>1, FS_Interval
  <2>3. Cardinality(S) = Cardinality(1..n)
    BY <2>2 DEF n
  <2> QED  BY <2>1, <2>2, <2>3, FS_Injection
<1> DEFINE s == [k \in 1..n |-> CHOOSE x \in S : rank[x] = k]
<1>7. \A k \in 1..n : s[k] \in S /\ rank[s[k]] = k
  BY <1>6 DEF Surjection
<1>8. s \in [1..n -> S] /\ \A i, j \in 1..n : i # j => s[i] # s[j]
  BY <1>7
<1>9. ASSUME NEW i \in 1..n, NEW j \in 1..n, i < j
      PROVE  <<s[i], s[j]>> \in R
  <2>1. s[i] \in S /\ s[j] \in S /\ s[i] # s[j] /\ rank[s[i]] = i /\ rank[s[j]] = j
    BY <1>7, <1>8, <1>9
  <2>2. ~(rank[s[j]] < rank[s[i]])
    BY <1>1, <1>9, <2>1
  <2> HIDE DEF s
  <2> QED  BY <1>3, <2>1, <2>2 DEF Orders
<1> HIDE DEF s
<1>10. s \in SetToSeqs(S) /\ DOMAIN s = 1..n
  BY <1>8 DEF SetToSeqs, n
<1> QED  BY <1>9, <1>10 DEF SortedUp
\* The order of the list decides between any letters there are.
NewerPairs == {p \in (1..Len(letters)) \X (1..Len(letters)) : Newer(p[1], p[2])}

LEMMA NewerOrders ==
  ASSUME letters \in Seq(Letter), NEW S \in SUBSET (1..Len(letters))
  PROVE  Orders(NewerPairs, S)
<1>1. \A i \in 1..Len(letters) : letters[i].failedAt \in Int /\ letters[i].event \in Int
  <2>1. \A i \in 1..Len(letters) : letters[i] \in Letter
    OBVIOUS
  <2> QED  BY <2>1, DlqListAssumption DEF Letter
<1>2. \A i, j \in S : <<i, j>> \in NewerPairs <=> Newer(i, j)
  BY DEF NewerPairs
<1>3. \A i \in S : i \in 1..Len(letters) /\ i \in Int
  OBVIOUS
<1>4. \A i, j \in S : i # j => Newer(i, j) \/ Newer(j, i)
  BY <1>1, <1>3 DEF Newer
<1>5. \A i \in S : ~Newer(i, i)
  BY <1>1, <1>3 DEF Newer
<1>6. \A i, j, k \in S : Newer(i, j) /\ Newer(j, k) => Newer(i, k)
  BY <1>1, <1>3 DEF Newer
<1> QED  BY <1>2, <1>4, <1>5, <1>6 DEF Orders

\* Sorted sorts.
LEMMA SortedByNewer ==
  ASSUME letters \in Seq(Letter), NEW S \in SUBSET (1..Len(letters))
  PROVE  /\ Sorted(S, Newer) \in SetToSeqs(S)
         /\ \A i, j \in DOMAIN Sorted(S, Newer) :
              i < j => Newer(Sorted(S, Newer)[i], Sorted(S, Newer)[j])
<1>1. IsFiniteSet(S)
  <2>1. IsFiniteSet(1..Len(letters))
    BY FS_Interval
  <2> QED  BY <2>1, FS_Subset
<1>2. PICK s \in SetToSeqs(S) : SortedUp(s, NewerPairs)
  BY <1>1, NewerOrders, SortExists
<1>3. \A i, j \in DOMAIN s : i < j => Newer(s[i], s[j])
  BY <1>2 DEF SortedUp, NewerPairs
<1> QED  BY <1>2, <1>3, Zenon DEF Sorted

\* Sequences that take every member of a finite set once.
LEMMA SetToSeqsTakeAll ==
  ASSUME NEW S, IsFiniteSet(S), NEW s \in SetToSeqs(S)
  PROVE  /\ s \in Seq(S) /\ Len(s) = Cardinality(S) /\ Len(s) \in Nat /\ DOMAIN s = 1..Len(s)
         /\ \A i, j \in DOMAIN s : s[i] = s[j] => i = j
         /\ {s[i] : i \in DOMAIN s} = S
<1>1. Cardinality(S) \in Nat
  BY FS_CardinalityType
<1>2. s \in [1..Cardinality(S) -> S] /\ \A i, j \in 1..Cardinality(S) : i # j => s[i] # s[j]
  BY DEF SetToSeqs
<1>3. s \in Seq(S) /\ Len(s) = Cardinality(S) /\ DOMAIN s = 1..Len(s)
  BY <1>1, <1>2
<1>4. s \in Injection(1..Cardinality(S), S)
  BY <1>2 DEF Injection, IsInjective
<1>5. Cardinality(1..Cardinality(S)) = Cardinality(S)
  BY <1>1, FS_Interval
<1>6. s \in Surjection(1..Cardinality(S), S)
  BY <1>4, <1>5, FS_Injection
<1> QED  BY <1>1, <1>2, <1>3, <1>6 DEF Surjection

\* What is left of a sorted set when it is cut.
LEMMA FirstNTakes ==
  ASSUME NEW S, IsFiniteSet(S), NEW s \in SetToSeqs(S), NEW n \in Nat
  PROVE  /\ FirstN(s, n) \in Seq(S)
         /\ Len(FirstN(s, n)) = IF Cardinality(S) < n THEN Cardinality(S) ELSE n
         /\ Len(FirstN(s, n)) \in Nat /\ DOMAIN FirstN(s, n) = 1..Len(FirstN(s, n))
         /\ Len(FirstN(s, n)) <= Len(s)
         /\ \A i \in DOMAIN FirstN(s, n) : FirstN(s, n)[i] = s[i]
<1>1. s \in Seq(S) /\ Len(s) = Cardinality(S) /\ Len(s) \in Nat
  BY SetToSeqsTakeAll
<1> DEFINE m == IF Len(s) < n THEN Len(s) ELSE n
<1>2. FirstN(s, n) = SubSeq(s, 1, m) /\ m \in Nat /\ m <= Len(s)
  BY <1>1 DEF FirstN
<1>3. m = IF Cardinality(S) < n THEN Cardinality(S) ELSE n
  BY <1>1
<1> HIDE DEF m
<1>4. /\ SubSeq(s, 1, m) \in Seq(S) /\ Len(SubSeq(s, 1, m)) = m
      /\ \A i \in 1..m : SubSeq(s, 1, m)[i] = s[i]
  BY <1>1, <1>2
<1>5. DOMAIN SubSeq(s, 1, m) = 1..m
  BY <1>2, <1>4
<1> QED  BY <1>1, <1>2, <1>3, <1>4, <1>5
\* A sequence without repetition has as many members as places.
LEMMA RangeCount ==
  ASSUME NEW S, NEW s \in Seq(S), \A i, j \in DOMAIN s : s[i] = s[j] => i = j
  PROVE  /\ IsFiniteSet({s[i] : i \in DOMAIN s})
         /\ Cardinality({s[i] : i \in DOMAIN s}) = Len(s)
<1> DEFINE T == {s[i] : i \in DOMAIN s}
<1>1. Len(s) \in Nat /\ DOMAIN s = 1..Len(s)
  OBVIOUS
<1>2. s \in Surjection(1..Len(s), T) /\ s \in Injection(1..Len(s), T)
  BY <1>1 DEF Surjection, Injection, IsInjective
<1>3. IsFiniteSet(1..Len(s)) /\ Cardinality(1..Len(s)) = Len(s)
  BY <1>1, FS_Interval
<1> QED  BY <1>2, <1>3, FS_Surjection

\* The first n of a set, sorted, or all if there are fewer: each is before the others.
IsCut(list, S, n, R) ==
  /\ list \in Seq(S)
  /\ {list[i] : i \in DOMAIN list} \subseteq S
  /\ Cardinality({list[i] : i \in DOMAIN list}) = Len(list)
  /\ Len(list) = IF Cardinality(S) < n THEN Cardinality(S) ELSE n
  /\ SortedUp(list, R)
  /\ \A i \in {list[k] : k \in DOMAIN list}, j \in S \ {list[k] : k \in DOMAIN list} :
       <<i, j>> \in R

\* That is what cutting a sorted sequence leaves.
LEMMA SortedCut ==
  ASSUME NEW S, IsFiniteSet(S), NEW R, NEW s \in SetToSeqs(S), SortedUp(s, R), NEW n \in Nat,
         NEW list, list = FirstN(s, n)
  PROVE  IsCut(list, S, n, R)
<1> DEFINE listed == {list[i] : i \in DOMAIN list}
<1>1. /\ s \in Seq(S) /\ Len(s) \in Nat /\ DOMAIN s = 1..Len(s)
      /\ \A i, j \in DOMAIN s : s[i] = s[j] => i = j
      /\ {s[i] : i \in DOMAIN s} = S
  BY SetToSeqsTakeAll
<1>2. /\ list \in Seq(S) /\ Len(list) \in Nat /\ DOMAIN list = 1..Len(list) /\ Len(list) <= Len(s)
      /\ Len(list) = IF Cardinality(S) < n THEN Cardinality(S) ELSE n
      /\ \A i \in DOMAIN list : list[i] = s[i]
  BY FirstNTakes
<1>3. DOMAIN list \subseteq DOMAIN s
  BY <1>1, <1>2
<1>4. SortedUp(list, R)
  BY <1>2, <1>3 DEF SortedUp
<1>5. listed \subseteq S
  BY <1>2
<1>6. Cardinality(listed) = Len(list)
  <2>1. \A i, j \in DOMAIN list : list[i] = list[j] => i = j
    BY <1>1, <1>2, <1>3
  <2> QED  BY <1>2, <2>1, RangeCount
<1>7. ASSUME NEW i \in listed, NEW j \in S \ listed
      PROVE  <<i, j>> \in R
  <2>1. PICK k \in DOMAIN list : i = list[k]
    OBVIOUS
  <2>2. PICK l \in DOMAIN s : j = s[l]
    BY <1>1
  <2>3. l \notin DOMAIN list
    BY <1>2, <1>7, <2>2
  <2>4. k \in DOMAIN s /\ k < l /\ i = s[k]
    BY <1>1, <1>2, <1>3, <2>1, <2>2, <2>3
  <2> QED  BY <2>2, <2>4 DEF SortedUp
<1> QED  BY <1>2, <1>4, <1>5, <1>6, <1>7 DEF IsCut

\* So the list of the newest letters is made.
LEMMA NewestCut ==
  ASSUME letters \in Seq(Letter), NEW S \in SUBSET (1..Len(letters)), NEW n \in Nat,
         NEW list, list = FirstN(Sorted(S, Newer), n)
  PROVE  /\ IsFiniteSet(S) /\ list \in Seq(S)
         /\ IsNewest(list, n, S)
         /\ \A i, j \in DOMAIN list : i < j => Newer(list[i], list[j])
<1> DEFINE s == Sorted(S, Newer)
<1>1. IsFiniteSet(S)
  <2>1. IsFiniteSet(1..Len(letters))
    BY FS_Interval
  <2> QED  BY <2>1, FS_Subset
<1>2. s \in SetToSeqs(S) /\ \A i, j \in DOMAIN s : i < j => Newer(s[i], s[j])
  BY SortedByNewer
<1> HIDE DEF s
<1>3. s \in Seq(S) /\ DOMAIN s = 1..Len(s)
  BY <1>1, <1>2, SetToSeqsTakeAll
<1>4. SortedUp(s, NewerPairs)
  <2>1. \A i \in DOMAIN s : s[i] \in S
    BY <1>3
  <2>2. \A i \in DOMAIN s : s[i] \in 1..Len(letters)
    BY <2>1
  <2> QED  BY <1>2, <2>2 DEF SortedUp, NewerPairs
<1>5. IsCut(list, S, n, NewerPairs)
  BY <1>1, <1>2, <1>4, SortedCut DEF s
<1>6. \A i, j : <<i, j>> \in NewerPairs => Newer(i, j)
  BY DEF NewerPairs
<1>7. \A i, j \in DOMAIN list : i < j => Newer(list[i], list[j])
  BY <1>5, <1>6 DEF IsCut, SortedUp
<1>8. IsNewest(list, n, S)
  BY <1>5, <1>6 DEF IsCut, IsNewest
<1> QED  BY <1>1, <1>5, <1>7, <1>8 DEF IsCut

\* An answer is made of all the letters read, and stays right while others are written.
LEMMA RecentStep ==
  ASSUME ListInv, ListIsRecent, [ListNext]_listVars
  PROVE  ListIsRecent'
<1> DEFINE Right(list, lo) ==
             /\ IsNewest(list, ListSize(request.n), BrandLetters(request.brand, lo))
             /\ \A i, j \in DOMAIN list : i < j => letters[list[j]].failedAt <= letters[list[i]].failedAt
<1> SUFFICES ASSUME lpc' = "listed", ~trimmed', want' > 0
             PROVE  (Right(answer, last - want))'
  BY DEF ListIsRecent
<1> USE DEF ListInv
<1>1. /\ letters \in Seq(Letter) /\ want \in Nat /\ last \in Nat /\ Len(letters) \in Nat
      /\ last <= Len(letters) + 1 /\ request \in [brand : Brands, n : Queries]
  BY DEF ReadingOnTrack
<1>2. want > 0 => BrandLetters(request.brand, last - want) \subseteq 1..Len(letters)
  BY <1>1 DEF BrandLetters, ReadingOnTrack
<1>3. CASE Answer
  <2> DEFINE S == {i \in {out[k] : k \in DOMAIN out} : letters[i].brand = request.brand}
             B == BrandLetters(request.brand, last - want)
  <2>1. /\ UNCHANGED <<letters, request, last, want, trimmed>> /\ lpc = "read" /\ ~trimmed /\ want > 0
        /\ Len(out) = want /\ out \in Seq(Nat) /\ answer' = FirstN(Sorted(S, Newer), ListSize(request.n))
    BY <1>3 DEF Answer, Listed, ReadingOnTrack
  <2>2. \A k \in 1..want : out[k] = last - want + (k - 1)
    BY <2>1 DEF ReadingOnTrack, ReadsInOrder
  <2>3. {out[k] : k \in DOMAIN out} = (last - want)..(last - 1)
    <3>1. DOMAIN out = 1..want
      BY <1>1, <2>1
    <3>2. \A i \in (last - want)..(last - 1) : i - (last - want) + 1 \in 1..want /\ out[i - (last - want) + 1] = i
      BY <1>1, <2>2
    <3>3. \A k \in 1..want : out[k] \in (last - want)..(last - 1)
      BY <1>1, <2>2
    <3> QED  BY <3>1, <3>2, <3>3
  <2>4. S = B
    BY <2>3 DEF BrandLetters
  <2>5. ListSize(request.n) \in Nat
    BY <1>1, DlqListAssumption DEF ListSize
  <2> HIDE DEF S, B
  <2>6. B \subseteq 1..Len(letters)
    BY <1>2, <2>1 DEF B
  <2>7. /\ IsNewest(answer', ListSize(request.n), B) /\ answer' \in Seq(B)
        /\ \A i, j \in DOMAIN answer' : i < j => Newer(answer'[i], answer'[j])
    BY <1>1, <2>1, <2>4, <2>5, <2>6, NewestCut
  <2>8. ASSUME NEW i \in DOMAIN answer', NEW j \in DOMAIN answer', i < j
        PROVE  letters[answer'[j]].failedAt <= letters[answer'[i]].failedAt
    <3>1. Newer(answer'[i], answer'[j]) /\ answer'[i] \in B /\ answer'[j] \in B
      BY <2>7, <2>8
    <3>2. letters[answer'[i]] \in Letter /\ letters[answer'[j]] \in Letter
      <4>1. \A x \in 1..Len(letters) : letters[x] \in Letter
        BY <1>1
      <4> QED  BY <2>6, <3>1, <4>1
    <3> QED  BY <3>1, <3>2 DEF Newer, Letter
  <2>9. (BrandLetters(request.brand, last - want))' = B /\ ListSize(request'.n) = ListSize(request.n)
    BY <2>1 DEF BrandLetters, B
  <2>10. IsNewest(answer, ListSize(request.n), B)'
    <3>1. B' = B
      BY <2>9 DEF B
    <3>2. \A i, j : Newer(i, j)' <=> Newer(i, j)
      BY <2>1 DEF Newer
    <3> QED  BY <2>1, <2>7, <2>9, <3>1, <3>2 DEF IsNewest
  <2> QED  BY <2>1, <2>8, <2>10 DEF B
<1>4. CASE PublishDLQ
  <2>1. /\ UNCHANGED <<first, lpc, request, last, want, answer, trimmed>>
        /\ want > 0 /\ Right(answer, last - want)
    BY <1>4 DEF PublishDLQ, ListIsRecent
  <2> DEFINE B == BrandLetters(request.brand, last - want)
  <2>2. \A i \in 1..Len(letters) : letters'[i] = letters[i]
    BY <1>1, <1>4, LettersKept
  <2>3. B \subseteq 1..Len(letters)
    BY <1>2, <2>1
  <2>4. (BrandLetters(request.brand, last - want))' = B
    <3>1. (last - want)..(last - 1) \subseteq 1..Len(letters)
      BY <1>1, <2>1 DEF ReadingOnTrack
    <3> QED  BY <2>1, <2>2, <3>1 DEF BrandLetters
  <2> HIDE DEF B
  <2>5. {answer[i] : i \in DOMAIN answer} \subseteq B
    BY <2>1 DEF IsNewest, B
  <2>6. \A i, j \in B : Newer(i, j)' <=> Newer(i, j)
    BY <2>2, <2>3 DEF Newer
  <2>7. \A i \in DOMAIN answer : letters'[answer[i]] = letters[answer[i]]
    BY <2>2, <2>3, <2>5
  <2>8. (IsNewest(answer, ListSize(request.n), B))
    BY <2>1 DEF B
  <2>9. IsNewest(answer, ListSize(request.n), B)'
    <3>1. B' = B
      BY <2>4 DEF B
    <3> QED  BY <2>1, <2>5, <2>6, <2>8, <3>1 DEF IsNewest
  <2> QED  BY <2>1, <2>7, <2>9 DEF B
<1>5. CASE Retention \/ UNCHANGED listVars
  <2>1. /\ UNCHANGED <<letters, lpc, request, last, want, answer>> /\ ~trimmed
    <3>1. CASE Retention
      <4>1. trimmed' = (trimmed \/ (lpc = "read" /\ pos < first'))
        BY <3>1 DEF Retention
      <4>2. ~trimmed
        BY <4>1, Zenon
      <4> QED  BY <3>1, <4>2 DEF Retention
    <3>2. CASE UNCHANGED listVars
      BY <3>2 DEF listVars
    <3> QED  BY <1>5, <3>1, <3>2
  <2>2. Right(answer, last - want)
    BY <2>1 DEF ListIsRecent
  <2> QED  BY <2>1, <2>2 DEF IsNewest, BrandLetters, Newer
<1>6. ~ReadOffsets
  BY DEF ReadOffsets, ReadingOnTrack
<1>7. ~ReadMessage /\ ~ReadTimesOut /\ ~ReadFails /\ ~NextRequest
  BY DEF ReadMessage, ReadTimesOut, ReadFails, NextRequest
<1> QED  BY <1>3, <1>4, <1>5, <1>6, <1>7 DEF ListNext

\* ListIsRecent holds always: unless retention overtook the read, a list is the newest
\* letters of its brand among the last MaxInspect, newest first.
THEOREM DlqListIsRecent == ListSpec => []ListIsRecent
<1>1. ListInit => ListIsRecent
  BY DEF ListInit, ListIsRecent
<1> QED  BY <1>1, ListInitInv, ListStep, RecentStep, PTL DEF ListSpec
-----------------------------------------------------------------------------
(***************************************************************************)
(* The inspector shows the newest letters of both brands.  A letter that   *)
(* was there when the load began is in its brand's list, or the list is    *)
(* full of newer ones; and a letter of a full list that the page has no    *)
(* room for is behind those it shows.                                      *)
(***************************************************************************)

\* The letters a load must account for.
Due(i, b) == i \in first..loadFrom /\ i > Len(letters) - MaxInspect /\ letters[i].brand = b

\* A brand's list, some time after it was made.
BrandListOK(b, s) ==
  /\ s \in Seq(1..Len(letters)) /\ Len(s) <= ShowN
  /\ Cardinality({s[k] : k \in DOMAIN s}) = Len(s)
  /\ \A i \in 1..Len(letters) : Due(i, b) /\ i \notin {s[k] : k \in DOMAIN s} =>
       Len(s) = ShowN /\ \A k \in DOMAIN s : Newer(s[k], i)

LoadInv ==
  /\ letters \in Seq(Letter) /\ first \in Nat \ {0} /\ first <= Len(letters) + 1
  /\ Len(letters) <= MaxLetters
  /\ loadFrom \in 0..Len(letters) /\ shownFrom \in 0..Len(letters)
  /\ items \in Seq(1..Len(letters))
  /\ DOMAIN lists = Brands
  /\ \A b \in Brands : \A s \in lists[b] : BrandListOK(b, s)

InspectInv == LoadInv /\ InspectorIsRecent

\* Multiples of a unit are a unit apart.
LEMMA UnitsApart ==
  ASSUME NEW g \in Nat \ {0}, NEW x \in Int, NEW y \in Int, x % g = 0, y % g = 0, y < x
  PROVE  y + g <= x
<1> DEFINE a == x \div g
           b == y \div g
<1>1. ASSUME NEW n \in Int PROVE n \div g \in Int /\ n = g * (n \div g) + (n % g)
  OBVIOUS
<1>2. a \in Int /\ b \in Int /\ x = g * a /\ y = g * b
  BY <1>1
<1> HIDE DEF a, b
<1>3. b < a
  <2> SUFFICES ASSUME a <= b PROVE FALSE
    BY <1>2
  <2>1. PICK d \in Nat : b = a + d
    <3>1. b - a \in Nat /\ b = a + (b - a)
      BY <1>2
    <3> QED  BY <3>1
  <2>2. y = x + g * d /\ g * d \in Nat
    BY <1>2, <2>1
  <2> QED  BY <2>2
<1>4. PICK d \in Nat : a = b + 1 + d
  <2>1. a - b - 1 \in Nat /\ a = b + 1 + (a - b - 1)
    BY <1>2, <1>3
  <2> QED  BY <2>1
<1>5. x = y + g + g * d /\ g * d \in Nat
  BY <1>2, <1>4
<1> QED  BY <1>5

\* What is a multiple of a unit is one of the smaller units.
LEMMA UnitOfUnit ==
  ASSUME NEW g \in Units, NEW h \in Units, g <= h, NEW t \in Int, t % h = 0
  PROVE  g \in Nat \ {0} /\ t % g = 0
<1>1. g \in Nat \ {0} /\ h \in Nat \ {0}
  BY InspectAssumption
<1>2. ASSUME NEW n \in Int, NEW m \in Nat \ {0}
      PROVE  n \div m \in Int /\ n = m * (n \div m) + (n % m)
  OBVIOUS
<1>3. h % g = 0
  <2>1. CASE g = h
    BY <1>1, <2>1
  <2>2. CASE g < h
    BY <2>2, InspectAssumption
  <2> QED  BY <1>1, <2>1, <2>2
<1>4. PICK m \in Int : h = g * m
  BY <1>1, <1>2, <1>3
<1>5. PICK q \in Int : t = h * q
  <2>1. t \div h \in Int /\ t = h * (t \div h)
    BY <1>1, <1>2
  <2> QED  BY <2>1
<1>6. t = g * (m * q) /\ m * q \in Int
  BY <1>1, <1>4, <1>5
<1>7. ASSUME NEW n \in Int PROVE (g * n) % g = 0
  BY <1>1
<1> QED  BY <1>1, <1>6, <1>7

\* What begins the beginning of a text begins the text.
LEMMA BeginsFurther ==
  ASSUME NEW t \in Int, NEW u \in Int, NEW w \in Int, Begins(t, u), Begins(u, w)
  PROVE  Begins(t, w)
<1>1. PICK g \in Units : t % g = 0 /\ u < t + g
  BY DEF Begins
<1>2. PICK h \in Units : u % h = 0 /\ w < u + h
  BY DEF Begins
<1>3. t <= u /\ u <= w /\ g \in Nat \ {0} /\ h \in Nat \ {0}
  BY InspectAssumption DEF Begins
<1>4. CASE h <= g
  <2>1. t % h = 0 /\ g % h = 0
    <3>1. g % g = 0
      BY <1>3
    <3> QED  BY <1>1, <1>3, <1>4, <3>1, UnitOfUnit
  <2>2. (t + g) % h = 0
    <3>1. ASSUME NEW n \in Int PROVE n \div h \in Int /\ n = h * (n \div h) + (n % h)
      BY <1>3
    <3>2. PICK a \in Int, b \in Int : t = h * a /\ g = h * b
      <4>1. t \div h \in Int /\ t = h * (t \div h)
        BY <1>3, <2>1, <3>1
      <4>2. g \div h \in Int /\ g = h * (g \div h)
        BY <1>3, <2>1, <3>1
      <4> QED  BY <4>1, <4>2
    <3>3. t + g = h * (a + b) /\ a + b \in Int
      BY <1>3, <3>2
    <3>4. ASSUME NEW n \in Int PROVE (h * n) % h = 0
      BY <1>3
    <3> QED  BY <3>3, <3>4
  <2>3. u < t + g /\ t + g \in Int
    BY <1>1, <1>3
  <2>4. u + h <= t + g
    BY <1>2, <1>3, <2>2, <2>3, UnitsApart
  <2> QED  BY <1>1, <1>2, <1>3, <2>4 DEF Begins
<1>5. CASE g < h
  <2>1. u % g = 0
    BY <1>2, <1>3, <1>5, UnitOfUnit
  <2>2. u = t
    BY <1>1, <1>3, <2>1, UnitsApart
  <2> QED  BY <2>2
<1> QED  BY <1>3, <1>4, <1>5

\* The order of the texts decides between any two times.
LEMMA TextsOrder ==
  /\ \A t, u \in Int : t # u => TextAfter(t, u) \/ TextAfter(u, t)
  /\ \A t \in Int : ~TextAfter(t, t)
  /\ \A t, u, w \in Int : TextAfter(t, u) /\ TextAfter(u, w) => TextAfter(t, w)
<1>1. \A t, u \in Int : t # u => TextAfter(t, u) \/ TextAfter(u, t)
  BY DEF TextAfter
<1>2. \A t \in Int : ~TextAfter(t, t)
  BY DEF TextAfter
<1>3. ASSUME NEW t \in Int, NEW u \in Int, NEW w \in Int, TextAfter(t, u), TextAfter(u, w)
      PROVE  TextAfter(t, w)
  <2>1. /\ Begins(t, w) /\ t <= u /\ u <= w => Begins(t, u)
        /\ Begins(w, t) /\ w <= u /\ u <= t => Begins(w, u)
        /\ Begins(u, t) /\ u <= w /\ w <= t => Begins(u, w)
        /\ Begins(u, w) /\ u <= t /\ t <= w => Begins(u, t)
        /\ Begins(t, u) /\ t <= w /\ w <= u => Begins(t, w)
        /\ Begins(w, u) /\ w <= t /\ t <= u => Begins(w, t)
    <3>1. ASSUME NEW a \in Int, NEW b \in Int, NEW c \in Int, Begins(a, c), a <= b, b <= c
          PROVE  Begins(a, b)
      <4>1. PICK g \in Units : a % g = 0 /\ c < a + g
        BY <3>1 DEF Begins
      <4>2. g \in Int
        BY InspectAssumption
      <4> QED  BY <3>1, <4>1, <4>2 DEF Begins
    <3> QED  BY <3>1
  <2>2. /\ Begins(t, u) /\ Begins(u, w) => Begins(t, w)
        /\ Begins(w, t) /\ Begins(t, u) => Begins(w, u)
        /\ Begins(u, w) /\ Begins(w, t) => Begins(u, t)
    BY BeginsFurther
  <2> HIDE DEF Begins
  <2> QED  BY <1>3, <2>1, <2>2 DEF TextAfter
<1> QED  BY <1>1, <1>2, <1>3

\* The order of the texts keeps that of the seconds.
LEMMA TextsKeepSeconds ==
  ASSUME NEW t \in Int, NEW u \in Int
  PROVE  /\ Second(t) \in Int
         /\ t >= u \/ TextAfter(t, u) => Second(t) >= Second(u)
<1> DEFINE S == TicksPerSecond
           a == Second(t)
           b == Second(u)
<1>1. S \in Nat \ {0} /\ S \in Units
  BY InspectAssumption
<1>2. ASSUME NEW n \in Int
      PROVE  Second(n) \in Int /\ S * Second(n) <= n /\ n < S * Second(n) + S
  BY <1>1 DEF Second
<1>3. /\ a \in Int /\ S * a <= t /\ t < S * a + S
      /\ b \in Int /\ S * b <= u /\ u < S * b + S
  BY <1>2
<1> HIDE DEF a, b, S
<1>4. ASSUME a < b PROVE t < u /\ S * a + S <= u
  <2>1. PICK d \in Nat : b = a + 1 + d
    <3>1. b - a - 1 \in Nat /\ b = a + 1 + (b - a - 1)
      BY <1>3, <1>4
    <3> QED  BY <3>1
  <2>2. S * b = S * a + S + S * d /\ S * d \in Nat /\ S * a \in Int
    BY <1>1, <1>3, <2>1
  <2> QED  BY <1>1, <1>3, <2>2
<1>5. ASSUME a < b, Begins(t, u) PROVE FALSE
  <2>1. PICK g \in Units : t % g = 0 /\ u < t + g
    BY <1>5 DEF Begins
  <2>2. g \in Nat \ {0} /\ g <= S
    BY InspectAssumption DEF S
  <2>3. (S * a + S) % S = 0 /\ S * a + S \in Int
    <3>1. S * a + S = S * (a + 1) /\ a + 1 \in Int
      BY <1>1, <1>3
    <3>2. ASSUME NEW n \in Int PROVE (S * n) % S = 0 /\ S * n \in Int
      BY <1>1
    <3> QED  BY <3>1, <3>2
  <2>4. (S * a + S) % g = 0
    BY <1>1, <2>2, <2>3, UnitOfUnit
  <2>5. t + g <= S * a + S
    BY <1>3, <2>1, <2>2, <2>3, <2>4, UnitsApart
  <2> QED  BY <1>4, <1>5, <2>1, <2>2, <2>3, <2>5
<1> QED  BY <1>3, <1>4, <1>5 DEF TextAfter, a, b

\* The order of the page, as pairs.
ShownPairs == {p \in (1..Len(letters)) \X (1..Len(letters)) : ShownBefore(p[1], p[2])}

LEMMA ShownOrders ==
  ASSUME letters \in Seq(Letter), NEW S \in SUBSET (1..Len(letters))
  PROVE  Orders(ShownPairs, S)
<1>1. \A i \in 1..Len(letters) : /\ letters[i].failedAt \in Int /\ letters[i].event \in Int
                                 /\ letters[i].brand \in Brands /\ BrandRank[letters[i].brand] \in Nat
  <2>1. \A i \in 1..Len(letters) : letters[i] \in Letter
    OBVIOUS
  <2> QED  BY <2>1, DlqListAssumption, InspectAssumption DEF Letter
<1>2. \A i, j \in S : <<i, j>> \in ShownPairs <=> ShownBefore(i, j)
  BY DEF ShownPairs
<1>3. \A i \in S : i \in 1..Len(letters) /\ i \in Int
  OBVIOUS
<1>4. \A i, j \in S : letters[i].brand # letters[j].brand => BrandRank[letters[i].brand] # BrandRank[letters[j].brand]
  BY <1>1, <1>3, InspectAssumption DEF IsInjective
<1>5. \A i, j \in S : i # j => ShownBefore(i, j) \/ ShownBefore(j, i)
  BY <1>1, <1>3, <1>4, TextsOrder DEF ShownBefore, Newer
<1>6. \A i \in S : ~ShownBefore(i, i)
  BY <1>1, <1>3, TextsOrder DEF ShownBefore, Newer
<1>7. ASSUME NEW i \in S, NEW j \in S, NEW k \in S, ShownBefore(i, j), ShownBefore(j, k)
      PROVE  ShownBefore(i, k)
  <2> DEFINE t == letters[i].failedAt
             u == letters[j].failedAt
             w == letters[k].failedAt
  <2>1. {t, u, w} \subseteq Int
    BY <1>1, <1>3
  <2>2. TextAfter(t, u) /\ TextAfter(u, w) => TextAfter(t, w)
    BY <2>1, TextsOrder
  <2>3. CASE TextAfter(t, u) \/ TextAfter(u, w)
    BY <1>7, <2>2, <2>3 DEF ShownBefore
  <2>4. CASE ~TextAfter(t, u) /\ ~TextAfter(u, w)
    BY <1>1, <1>3, <1>4, <1>7, <2>4 DEF ShownBefore, Newer
  <2> QED  BY <2>3, <2>4
<1> QED  BY <1>2, <1>5, <1>6, <1>7 DEF Orders

\* What the page shows of a set of letters.
LEMMA ShownCut ==
  ASSUME letters \in Seq(Letter), NEW S \in SUBSET (1..Len(letters)), NEW n \in Nat
  PROVE  IsFiniteSet(S) /\ IsCut(FirstN(Sorted(S, ShownBefore), n), S, n, ShownPairs)
<1>1. IsFiniteSet(S)
  <2>1. IsFiniteSet(1..Len(letters))
    BY FS_Interval
  <2> QED  BY <2>1, FS_Subset
<1>2. PICK s \in SetToSeqs(S) : SortedUp(s, ShownPairs)
  BY <1>1, ShownOrders, SortExists
<1>3. \A i, j \in DOMAIN s : i < j => ShownBefore(s[i], s[j])
  BY <1>2 DEF SortedUp, ShownPairs
<1> DEFINE t == Sorted(S, ShownBefore)
<1>4. t \in SetToSeqs(S) /\ \A i, j \in DOMAIN t : i < j => ShownBefore(t[i], t[j])
  BY <1>2, <1>3, Zenon DEF Sorted
<1> HIDE DEF t
<1>5. SortedUp(t, ShownPairs)
  <2>1. t \in Seq(S) /\ DOMAIN t = 1..Len(t)
    BY <1>1, <1>4, SetToSeqsTakeAll
  <2>2. \A i \in DOMAIN t : t[i] \in S
    BY <2>1
  <2>3. \A i \in DOMAIN t : t[i] \in 1..Len(letters)
    BY <2>2
  <2> QED  BY <1>4, <2>3 DEF SortedUp, ShownPairs
<1>6. IsCut(FirstN(t, n), S, n, ShownPairs)
  BY <1>1, <1>4, <1>5, SortedCut
<1> QED  BY <1>1, <1>6 DEF t

\* A sequence of a set's members is one of any larger set.
LEMMA SeqOfMore ==
  ASSUME NEW S, NEW T, S \subseteq T, NEW s \in Seq(S)
  PROVE  s \in Seq(T)
<1>1. Len(s) \in Nat /\ DOMAIN s = 1..Len(s) /\ \A i \in 1..Len(s) : s[i] \in S
  OBVIOUS
<1>2. s \in [1..Len(s) -> T]
  BY <1>1
<1> QED  BY <1>1, <1>2

\* The list a brand is given accounts for the letters due.
LEMMA ListBrandStep ==
  ASSUME LoadInv, NEW b \in Brands
  PROVE  BrandListOK(b, BrandList(b, ShowN))
<1> DEFINE S == {i \in first..Len(letters) : i > Len(letters) - MaxInspect /\ letters[i].brand = b}
           s == BrandList(b, ShowN)
           listed == {s[k] : k \in DOMAIN s}
<1>1. /\ letters \in Seq(Letter) /\ S \in SUBSET (1..Len(letters)) /\ ShowN \in Nat
      /\ loadFrom \in Nat /\ loadFrom <= Len(letters) /\ Len(letters) \in Nat /\ first \in Nat
  BY DlqListAssumption, InspectAssumption DEF LoadInv
<1>2. s = FirstN(Sorted(S, Newer), ShowN)
  BY DEF BrandList
<1>3. IsFiniteSet(S) /\ s \in Seq(S) /\ IsNewest(s, ShowN, S)
  <2> HIDE DEF S, s
  <2> QED  BY <1>1, <1>2, NewestCut
<1>4. \A i \in 1..Len(letters) : Due(i, b) => i \in S
  BY <1>1 DEF Due
<1> HIDE DEF S, s
<1>5. /\ listed \subseteq S /\ Cardinality(listed) = Len(s)
      /\ Len(s) = IF Cardinality(S) < ShowN THEN Cardinality(S) ELSE ShowN
      /\ \A i \in listed, j \in S \ listed : Newer(i, j)
  BY <1>3 DEF IsNewest
<1>6. s \in Seq(1..Len(letters))
  BY <1>1, <1>3, SeqOfMore
<1>7. Len(s) <= ShowN /\ Cardinality(S) \in Nat
  <2>1. Cardinality(S) \in Nat
    BY <1>3, FS_CardinalityType
  <2> QED  BY <1>1, <1>5, <2>1
<1>8. ASSUME NEW i \in 1..Len(letters), Due(i, b), i \notin listed
      PROVE  Len(s) = ShowN /\ \A k \in DOMAIN s : Newer(s[k], i)
  <2>1. i \in S
    BY <1>4, <1>8
  <2>2. Len(s) = ShowN
    <3>1. Cardinality(S) # Cardinality(listed)
      BY <1>3, <1>5, <1>8, <2>1, FS_Subset
    <3> QED  BY <1>5, <3>1
  <2> QED  BY <1>5, <1>8, <2>1, <2>2
<1> QED  BY <1>5, <1>6, <1>7, <1>8 DEF BrandListOK, s
\* A list accounts for the letters due to it while others are written or dropped.
LEMMA BrandListKept ==
  ASSUME LoadInv, letters' \in Seq(Letter), Len(letters') \in Nat, Len(letters) <= Len(letters'),
         \A i \in 1..Len(letters) : letters'[i] = letters[i],
         first' \in Nat, first <= first', loadFrom' = loadFrom,
         NEW b \in Brands, NEW s, BrandListOK(b, s)
  PROVE  BrandListOK(b, s)'
<1>1. /\ letters \in Seq(Letter) /\ Len(letters) \in Nat /\ first \in Nat /\ loadFrom \in 0..Len(letters)
      /\ MaxInspect \in Nat
  BY DlqListAssumption DEF LoadInv
<1>2. /\ s \in Seq(1..Len(letters)) /\ Len(s) <= ShowN /\ Cardinality({s[k] : k \in DOMAIN s}) = Len(s)
  BY DEF BrandListOK
<1>3. s \in Seq(1..Len(letters'))
  <2>1. 1..Len(letters) \subseteq 1..Len(letters')
    BY <1>1
  <2> QED  BY <1>2, <2>1, SeqOfMore
<1>4. \A i \in 1..Len(letters') : Due(i, b)' => i \in 1..Len(letters) /\ Due(i, b)
  BY <1>1 DEF Due
<1>5. \A i, j \in 1..Len(letters) : Newer(i, j) => Newer(i, j)'
  BY DEF Newer
<1>6. \A k \in DOMAIN s : s[k] \in 1..Len(letters)
  BY <1>2
<1>7. ASSUME NEW i \in 1..Len(letters'), Due(i, b)', i \notin {s[k] : k \in DOMAIN s}
      PROVE  Len(s) = ShowN /\ \A k \in DOMAIN s : Newer(s[k], i)'
  BY <1>4, <1>5, <1>6, <1>7 DEF BrandListOK
<1> QED  BY <1>2, <1>3, <1>7 DEF BrandListOK

\* The page accounts for the letters its load began with.
LEMMA ShowStep ==
  ASSUME LoadInv, \A b \in Brands : lists[b] # {},
         NEW i \in first..loadFrom, i > Len(letters) - MaxInspect, ~Contains(Merged, i)
  PROVE  /\ Len(Merged) = ShowN
         /\ \A k \in DOMAIN Merged : Second(letters[Merged[k]].failedAt) >= Second(letters[i].failedAt)
<1> DEFINE U == FirstLetters(ShowN)
           list == Merged
           shown == {list[k] : k \in DOMAIN list}
<1>1. /\ letters \in Seq(Letter) /\ Len(letters) \in Nat /\ Len(letters) <= MaxLetters /\ MaxLetters \in Nat
      /\ ShowN \in Nat /\ loadFrom \in 0..Len(letters) /\ first \in Nat \ {0}
      /\ \A b \in Brands : \A s \in lists[b] : BrandListOK(b, s)
  BY DlqListAssumption, InspectAssumption DEF LoadInv
<1>2. ASSUME NEW b \in Brands, NEW s \in lists[b]
      PROVE  /\ FirstN(s, ShowN) = s /\ s \in Seq(1..Len(letters))
             /\ \A x : Contains(s, x) <=> x \in {s[k] : k \in DOMAIN s}
  <2>1. s \in Seq(1..Len(letters)) /\ Len(s) <= ShowN /\ Len(s) \in Nat /\ DOMAIN s = 1..Len(s)
    <3>1. BrandListOK(b, s)
      BY <1>1, <1>2
    <3>2. s \in Seq(1..Len(letters)) /\ Len(s) <= ShowN
      BY <3>1 DEF BrandListOK
    <3> QED  BY <3>2
  <2>2. FirstN(s, ShowN) = SubSeq(s, 1, Len(s))
    BY <1>1, <2>1 DEF FirstN
  <2>3. SubSeq(s, 1, Len(s)) = s
    BY <2>1
  <2> QED  BY <2>1, <2>2, <2>3 DEF Contains
<1>3. U = {x \in 1..MaxLetters : \E b \in Brands : \E s \in lists[b] : x \in {s[k] : k \in DOMAIN s}}
  <2>1. \A b \in Brands : \A s \in lists[b] : FirstN(s, ShowN) = s
    BY <1>2
  <2>2. \A b \in Brands : \A s \in lists[b] : \A x : Contains(s, x) <=> x \in {s[k] : k \in DOMAIN s}
    BY <1>2
  <2> QED  BY <2>1, <2>2 DEF FirstLetters, Offsets
<1>4. \A b \in Brands : \A s \in lists[b] : {s[k] : k \in DOMAIN s} \subseteq 1..Len(letters)
  BY <1>2
<1>5. U \in SUBSET (1..Len(letters))
  BY <1>3, <1>4
<1>6. \A b \in Brands : \A s \in lists[b] : {s[k] : k \in DOMAIN s} \subseteq U
  <2>1. 1..Len(letters) \subseteq 1..MaxLetters
    BY <1>1
  <2> QED  BY <1>3, <1>4, <2>1
<1>7. list = FirstN(Sorted(U, ShownBefore), ShowN)
  BY DEF Merged
<1> HIDE DEF U, list
<1>8. IsFiniteSet(U) /\ IsCut(list, U, ShowN, ShownPairs)
  BY <1>1, <1>5, <1>7, ShownCut
<1>9. /\ list \in Seq(U) /\ shown \subseteq U /\ Cardinality(shown) = Len(list)
      /\ Len(list) = IF Cardinality(U) < ShowN THEN Cardinality(U) ELSE ShowN
      /\ \A x \in shown, y \in U \ shown : ShownBefore(x, y)
  BY <1>8 DEF IsCut, ShownPairs
<1>10. i \in 1..Len(letters) /\ i \notin shown /\ letters[i] \in Letter
  <2>1. i \in 1..Len(letters)
    BY <1>1
  <2>2. DOMAIN list = 1..Len(list)
    BY <1>9
  <2> QED  BY <1>1, <2>1, <2>2 DEF Contains, list
<1>11. \A x \in 1..Len(letters) : letters[x].failedAt \in Int
  <2>1. \A x \in 1..Len(letters) : letters[x] \in Letter
    BY <1>1
  <2> QED  BY <2>1 DEF Letter
<1>12. \A x, y \in 1..Len(letters) :
         /\ Second(letters[x].failedAt) \in Int
         /\ ShownBefore(x, y) \/ Newer(x, y) => Second(letters[x].failedAt) >= Second(letters[y].failedAt)
  <2> SUFFICES ASSUME NEW x \in 1..Len(letters), NEW y \in 1..Len(letters)
               PROVE  /\ Second(letters[x].failedAt) \in Int
                      /\ ShownBefore(x, y) \/ Newer(x, y) =>
                           Second(letters[x].failedAt) >= Second(letters[y].failedAt)
    OBVIOUS
  <2>1. letters[x].failedAt \in Int /\ letters[y].failedAt \in Int
    BY <1>11
  <2>2. ShownBefore(x, y) \/ Newer(x, y) =>
          \/ letters[x].failedAt >= letters[y].failedAt
          \/ TextAfter(letters[x].failedAt, letters[y].failedAt)
    BY <2>1 DEF ShownBefore, Newer
  <2> QED  BY <2>1, <2>2, TextsKeepSeconds
<1> HIDE DEF shown
<1>13. Cardinality(U) \in Nat /\ IsFiniteSet(shown)
  BY <1>8, <1>9, FS_Subset, FS_CardinalityType
<1>14. CASE i \in U
  <2>1. Cardinality(shown) # Cardinality(U)
    BY <1>8, <1>9, <1>10, <1>14, FS_Subset
  <2>2. Len(list) = ShowN
    BY <1>9, <2>1
  <2>3. \A x \in shown : Second(letters[x].failedAt) >= Second(letters[i].failedAt)
    BY <1>5, <1>9, <1>10, <1>12, <1>14
  <2> QED  BY <2>2, <2>3 DEF shown, list
<1>15. CASE i \notin U
  <2> DEFINE b == letters[i].brand
  <2>1. b \in Brands
    BY <1>10 DEF Letter
  <2>2. PICK s \in lists[b] : TRUE
    BY <2>1
  <2> DEFINE R == {s[k] : k \in DOMAIN s}
  <2>3. R \subseteq U /\ i \notin R
    BY <1>6, <1>15, <2>1, <2>2
  <2>4. BrandListOK(b, s)
    BY <1>1, <2>1, <2>2
  <2>5. Due(i, b)
    BY DEF Due
  <2>6. Len(s) = ShowN /\ Cardinality(R) = ShowN /\ \A x \in R : Newer(x, i)
    BY <1>10, <2>3, <2>4, <2>5 DEF BrandListOK
  <2> HIDE DEF R
  <2>7. IsFiniteSet(R) /\ Cardinality(R) <= Cardinality(U)
    BY <1>8, <2>3, FS_Subset
  <2>8. Len(list) = ShowN
    BY <1>1, <1>9, <1>13, <2>6, <2>7
  <2>9. ASSUME NEW x \in shown
        PROVE  Second(letters[x].failedAt) >= Second(letters[i].failedAt)
    <3>1. CASE x \in R
      BY <1>5, <1>9, <1>10, <1>12, <2>6, <3>1
    <3>2. CASE x \notin R
      <4>1. ~(R \subseteq shown)
        <5>1. R \subseteq shown => R = shown
          BY <1>9, <1>13, <2>6, <2>8, FS_Subset
        <5> QED  BY <3>2, <5>1
      <4>2. PICK y \in R : y \notin shown
        BY <4>1
      <4>3. ShownBefore(x, y) /\ Newer(y, i) /\ {x, y, i} \subseteq 1..Len(letters)
        BY <1>5, <1>9, <1>10, <2>3, <2>6, <4>2
      <4>4. /\ Second(letters[x].failedAt) >= Second(letters[y].failedAt)
            /\ Second(letters[y].failedAt) >= Second(letters[i].failedAt)
        BY <1>12, <4>3
      <4> QED  BY <1>12, <4>3, <4>4
    <3> QED  BY <3>1, <3>2
  <2> QED  BY <2>8, <2>9 DEF shown, list
<1> QED  BY <1>14, <1>15
\* The page is made of letters of the lists.
LEMMA MergedLetters ==
  ASSUME LoadInv
  PROVE  Merged \in Seq(1..Len(letters))
<1> DEFINE U == FirstLetters(ShowN)
<1>1. /\ letters \in Seq(Letter) /\ ShowN \in Nat
      /\ \A b \in Brands : \A s \in lists[b] : BrandListOK(b, s)
  BY InspectAssumption DEF LoadInv
<1>2. ASSUME NEW b \in Brands, NEW s \in lists[b], NEW x, Contains(FirstN(s, ShowN), x)
      PROVE  x \in 1..Len(letters)
  <2>1. BrandListOK(b, s)
    BY <1>1, <1>2
  <2>2. s \in Seq(1..Len(letters)) /\ Len(s) <= ShowN
    BY <2>1 DEF BrandListOK
  <2>3. Len(s) \in Nat /\ FirstN(s, ShowN) = SubSeq(s, 1, Len(s))
    BY <1>1, <2>2 DEF FirstN
  <2>4. SubSeq(s, 1, Len(s)) = s
    BY <2>2
  <2> QED  BY <1>2, <2>2, <2>3, <2>4 DEF Contains
<1>3. U \in SUBSET (1..Len(letters))
  BY <1>2 DEF FirstLetters
<1> HIDE DEF U
<1>4. Merged \in Seq(U)
  <2>1. IsCut(FirstN(Sorted(U, ShownBefore), ShowN), U, ShowN, ShownPairs)
    BY <1>1, <1>3, ShownCut
  <2> QED  BY <2>1 DEF IsCut, Merged, U
<1> QED  BY <1>3, <1>4, SeqOfMore

\* Nothing is written, nothing shown.
LEMMA InspectInitInv == ListInit /\ InspectInit => InspectInv
<1> SUFFICES ASSUME ListInit, InspectInit PROVE InspectInv
  OBVIOUS
<1>1. letters \in Seq(Letter) /\ Len(letters) = 0 /\ items \in Seq(1..0)
  BY DEF ListInit, InspectInit
<1>2. LoadInv
  BY <1>1, DlqListAssumption DEF ListInit, InspectInit, LoadInv, NoLists
<1>3. InspectorIsRecent
  BY DEF ListInit, InspectInit, InspectorIsRecent
<1> QED  BY <1>2, <1>3 DEF InspectInv

\* Whatever is written or dropped, what was loaded goes on to account for its letters.
LEMMA TopicStep ==
  ASSUME InspectInv, PublishDLQ \/ Retention, UNCHANGED inspectVars
  PROVE  InspectInv'
<1> USE DEF InspectInv
<1>1. /\ letters \in Seq(Letter) /\ Len(letters) \in Nat /\ first \in Nat \ {0} /\ first <= Len(letters) + 1
      /\ loadFrom \in 0..Len(letters) /\ shownFrom \in 0..Len(letters) /\ items \in Seq(1..Len(letters))
      /\ Len(letters) <= MaxLetters /\ MaxLetters \in Nat /\ MaxInspect \in Nat
  BY DlqListAssumption DEF LoadInv
<1>2. UNCHANGED <<items, lists, loadFrom, shownFrom>>
  BY DEF inspectVars
<1>3. /\ letters' \in Seq(Letter) /\ Len(letters') \in Nat /\ Len(letters) <= Len(letters')
      /\ Len(letters') <= MaxLetters
      /\ \A i \in 1..Len(letters) : letters'[i] = letters[i]
      /\ first' \in Nat \ {0} /\ first <= first' /\ first' <= Len(letters') + 1
  <2>1. CASE PublishDLQ
    <3>1. /\ letters' \in Seq(Letter) /\ Len(letters') = Len(letters) + 1
          /\ \A i \in 1..Len(letters) : letters'[i] = letters[i]
      BY <1>1, <2>1, LettersKept
    <3> QED  BY <1>1, <2>1, <3>1 DEF PublishDLQ
  <2>2. CASE Retention
    BY <1>1, <2>2 DEF Retention
  <2> QED  BY <2>1, <2>2
<1>4. 1..Len(letters) \subseteq 1..Len(letters')
  BY <1>1, <1>3
<1>5. items' \in Seq(1..Len(letters'))
  BY <1>1, <1>2, <1>4, SeqOfMore
<1>6. \A b \in Brands : \A s \in lists[b] : BrandListOK(b, s)'
  <2> SUFFICES ASSUME NEW b \in Brands, NEW s \in lists[b] PROVE BrandListOK(b, s)'
    OBVIOUS
  <2>1. BrandListOK(b, s) /\ first \in Nat /\ first' \in Nat
    BY <1>1, <1>3 DEF LoadInv
  <2> QED  BY <1>2, <1>3, <2>1, BrandListKept
<1>7. LoadInv'
  BY <1>1, <1>2, <1>3, <1>5, <1>6 DEF LoadInv
<1>8. InspectorIsRecent'
  <2> SUFFICES ASSUME NEW i \in first'..shownFrom, i > Len(letters') - MaxInspect, ~Contains(items, i)
               PROVE  /\ Len(items) = ShowN
                      /\ \A k \in DOMAIN items : Second(letters'[items[k]].failedAt) >= Second(letters'[i].failedAt)
    BY <1>2 DEF InspectorIsRecent, Second
  <2>1. i \in first..shownFrom /\ i > Len(letters) - MaxInspect /\ i \in 1..Len(letters)
    BY <1>1, <1>3
  <2>2. /\ Len(items) = ShowN
        /\ \A k \in DOMAIN items : Second(letters[items[k]].failedAt) >= Second(letters[i].failedAt)
    BY <2>1 DEF InspectorIsRecent
  <2>3. \A k \in DOMAIN items : items[k] \in 1..Len(letters)
    BY <1>1
  <2> QED  BY <1>3, <2>1, <2>2, <2>3
<1> QED  BY <1>7, <1>8

\* A page that shows what it has, and whose topic is as it was, stays right.
LEMMA PageKept ==
  ASSUME InspectInv, UNCHANGED <<listVars, items, shownFrom>>
  PROVE  InspectorIsRecent'
BY DEF InspectInv, InspectorIsRecent, Contains, listVars, Second

\* The page's own steps: a load begins with no lists, each list is made at one moment,
\* and the last completes the page.
LEMMA PageStep ==
  ASSUME InspectInv, InspectSteps, UNCHANGED listVars
  PROVE  InspectInv'
<1> USE DEF InspectInv
<1>1. LoadInv /\ UNCHANGED <<letters, first>> /\ Len(letters) \in Nat
  BY DEF LoadInv, listVars
<1>2. \A b, s : BrandListOK(b, s) /\ loadFrom' = loadFrom => BrandListOK(b, s)'
  BY <1>1 DEF BrandListOK, Due, Newer
<1>3. CASE RefreshLetters \/ RedriveAnswered
  <2>1. lists' = NoLists /\ loadFrom' = Len(letters) /\ UNCHANGED <<items, shownFrom>>
    BY <1>3 DEF RefreshLetters, RedriveAnswered, Load
  <2>2. LoadInv'
    BY <1>1, <2>1 DEF LoadInv, NoLists
  <2> QED  BY <2>1, <2>2, PageKept
<1>4. ASSUME NEW b \in Brands, ListBrand(b) PROVE InspectInv'
  <2>1. /\ lists' = [lists EXCEPT ![b] = {BrandList(b, ShowN)}]
        /\ UNCHANGED <<items, loadFrom, shownFrom>>
    BY <1>4 DEF ListBrand
  <2>2. BrandListOK(b, BrandList(b, ShowN))
    BY ListBrandStep DEF InspectInv
  <2>3. DOMAIN lists' = Brands /\ \A c \in Brands : lists'[c] = IF c = b THEN {BrandList(b, ShowN)} ELSE lists[c]
    BY <1>1, <2>1 DEF LoadInv
  <2>4. \A c \in Brands : \A s \in lists'[c] : BrandListOK(c, s)
    BY <1>1, <2>2, <2>3 DEF LoadInv
  <2>5. \A c \in Brands : \A s \in lists'[c] : BrandListOK(c, s)'
    BY <1>2, <2>1, <2>4
  <2>6. LoadInv'
    BY <1>1, <2>1, <2>3, <2>5 DEF LoadInv
  <2> QED  BY <2>1, <2>6, PageKept
<1>5. CASE ShowItems
  <2>1. /\ \A b \in Brands : lists[b] # {}
        /\ items' = Merged /\ shownFrom' = loadFrom /\ loadFrom' = loadFrom /\ lists' = NoLists
    BY <1>5 DEF ShowItems, EndLoad
  <2>2. Merged \in Seq(1..Len(letters))
    BY <2>1, MergedLetters
  <2>3. LoadInv'
    BY <1>1, <2>1, <2>2 DEF LoadInv, NoLists
  <2>4. InspectorIsRecent'
    <3>1. \A i \in first..loadFrom :
            i > Len(letters) - MaxInspect /\ ~Contains(Merged, i) =>
              /\ Len(Merged) = ShowN
              /\ \A k \in DOMAIN Merged : Second(letters[Merged[k]].failedAt) >= Second(letters[i].failedAt)
      BY <1>1, <2>1, ShowStep
    <3> HIDE DEF Merged
    <3> QED  BY <1>1, <2>1, <3>1 DEF InspectorIsRecent, Contains, Second
  <2> QED  BY <2>3, <2>4
<1>6. CASE LoadFails
  <2>1. lists' = NoLists /\ UNCHANGED <<items, loadFrom, shownFrom>>
    BY <1>6 DEF LoadFails, EndLoad
  <2>2. LoadInv'
    BY <1>1, <2>1 DEF LoadInv, NoLists
  <2> QED  BY <2>1, <2>2, PageKept
<1>7. CASE RedriveClick \/ FindLetter \/ RedriveFails
  <2>1. UNCHANGED <<items, lists, loadFrom, shownFrom>>
    BY <1>7 DEF RedriveClick, FindLetter, RedriveFails
  <2>2. LoadInv'
    BY <1>1, <1>2, <2>1 DEF LoadInv
  <2> QED  BY <2>1, <2>2, PageKept
<1> QED  BY <1>3, <1>4, <1>5, <1>6, <1>7 DEF InspectSteps

\* InspectorIsRecent holds always: of the letters written before the load it shows began,
\* the page hides none that failed in a later second than one it shows.
THEOREM DlqInspectorIsRecent == InspectSpec => []InspectorIsRecent
<1>1. InspectInv /\ [InspectNext]_<<listVars, inspectVars>> => InspectInv'
  <2> SUFFICES ASSUME InspectInv, [InspectNext]_<<listVars, inspectVars>> PROVE InspectInv'
    OBVIOUS
  <2>1. CASE UNCHANGED <<listVars, inspectVars>>
    <3>1. LoadInv'
      <4>1. UNCHANGED <<letters, first, items, lists, loadFrom, shownFrom>>
        BY <2>1 DEF listVars, inspectVars
      <4>2. \A b, s : BrandListOK(b, s) => BrandListOK(b, s)'
        BY <4>1 DEF BrandListOK, Due, Newer
      <4> QED  BY <4>1, <4>2 DEF InspectInv, LoadInv
    <3> QED  BY <2>1, <3>1, PageKept DEF InspectInv, inspectVars
  <2> QED  BY <2>1, TopicStep, PageStep DEF InspectNext
<1> QED  BY <1>1, InspectInitInv, PTL DEF InspectSpec, InspectInv
-----------------------------------------------------------------------------
(***************************************************************************)
(* The shadow board flags what it says, for any limit, window and pack.    *)
(* Of a pack in order, the first bet of a burst starts the minute that the *)
(* last one looks back on.                                                 *)
(***************************************************************************)

RowIsOfPack ==
  /\ pack \in Seq(ShadowEvents)
  /\ row \subseteq {[rule |-> RuleFlags, model |-> MockFlags, agree |-> RuleFlags = MockFlags]}

\* A non-empty set of positions has a first and a last one.
LEMMA FirstAndLast ==
  ASSUME NEW n \in Nat, NEW T \in SUBSET (1..n), T # {}
  PROVE  /\ \E i \in T : \A j \in T : i <= j
         /\ \E i \in T : \A j \in T : j <= i
<1>1. \E i \in T : \A j \in T : i <= j
  <2>1. T \subseteq Nat
    OBVIOUS
  <2>2. PICK i \in T : \A j \in T : <<j, i>> \notin OpToRel(<, Nat)
    BY <2>1, NatLessThanWellFounded, WFMin
  <2>3. i \in Nat
    BY <2>1, <2>2
  <2>4. ASSUME NEW j \in T PROVE i <= j
    <3>1. j \in Nat
      BY <2>1
    <3>2. ~(j < i)
      BY <2>2, <2>3, <3>1 DEF OpToRel
    <3> QED  BY <2>3, <3>1, <3>2
  <2> QED  BY <2>2, <2>4
<1>2. \E i \in T : \A j \in T : j <= i
  <2> DEFINE D == {n - i : i \in T}
  <2>0. \A i \in T : i \in Nat /\ n - i \in Nat
    <3>1. \A i \in T : i \in 1..n
      OBVIOUS
    <3> QED  BY <3>1
  <2>1. D \subseteq Nat /\ D # {}
    BY <2>0
  <2>2. PICK d \in D : \A e \in D : <<e, d>> \notin OpToRel(<, Nat)
    <3> HIDE DEF D
    <3> QED  BY <2>1, NatLessThanWellFounded, WFMin
  <2>3. PICK i \in T : d = n - i
    OBVIOUS
  <2>4. \A j \in T : n - j \in D
    OBVIOUS
  <2> HIDE DEF D
  <2>5. ASSUME NEW j \in T PROVE j <= i
    <3>1. n - j \in Nat /\ n - i \in Nat /\ <<n - j, n - i>> \notin OpToRel(<, Nat)
      BY <2>0, <2>2, <2>3, <2>4
    <3>2. ~(n - j < n - i)
      BY <3>1 DEF OpToRel
    <3> QED  BY <2>0, <3>2
  <2> QED  BY <2>5
<1> QED  BY <1>1, <1>2

\* Bets are positions in the pack, finitely many, with times.
LEMMA PackBetsFinite ==
  ASSUME pack \in Seq(ShadowEvents)
  PROVE  /\ Len(pack) \in Nat /\ PackBets \in SUBSET (1..Len(pack)) /\ IsFiniteSet(PackBets)
         /\ \A i \in PackBets : pack[i].at \in Times /\ pack[i].at \in Nat
         /\ DOMAIN pack = 1..Len(pack) /\ Minute \in Nat /\ VelocityLimit \in Nat \ {0}
<1>1. Len(pack) \in Nat /\ DOMAIN pack = 1..Len(pack) /\ PackBets \in SUBSET (1..Len(pack))
  BY DEF PackBets
<1>2. \A i \in PackBets : pack[i] \in ShadowEvents
  BY <1>1
<1>3. IsFiniteSet(PackBets)
  <2>1. IsFiniteSet(1..Len(pack))
    BY <1>1, FS_Interval
  <2> QED  BY <1>1, <2>1, FS_Subset
<1> QED  BY <1>1, <1>2, <1>3, ShadowAssumption DEF ShadowEvents

\* The bets that the rule counts at i, and i.
LookBack(i) == {j \in PackBets : j < i /\ pack[i].at - pack[j].at <= Minute}

LEMMA LookBackCount ==
  ASSUME pack \in Seq(ShadowEvents), NEW i \in PackBets
  PROVE  /\ IsFiniteSet(LookBack(i) \cup {i}) /\ Cardinality(LookBack(i)) \in Nat
         /\ Cardinality(LookBack(i) \cup {i}) = Cardinality(LookBack(i)) + 1
<1>1. i \in Nat /\ IsFiniteSet(PackBets) /\ LookBack(i) \subseteq PackBets
  BY PackBetsFinite DEF LookBack
<1>2. i \notin LookBack(i)
  BY <1>1 DEF LookBack
<1> QED  BY <1>1, <1>2, FS_Subset, FS_AddElement, FS_CardinalityType

\* The rule flags only what the mock flags, who knows no window.
LEMMA RuleFlagsLess ==
  ASSUME pack \in Seq(ShadowEvents), RuleFlags
  PROVE  MockFlags
<1>1. PICK i \in PackBets : Cardinality(LookBack(i)) + 1 >= VelocityLimit
  BY DEF RuleFlags, LookBack
<1>2. IsFiniteSet(PackBets) /\ LookBack(i) \cup {i} \subseteq PackBets /\ VelocityLimit \in Nat
  BY PackBetsFinite DEF LookBack
<1>3. Cardinality(LookBack(i) \cup {i}) <= Cardinality(PackBets) /\ Cardinality(PackBets) \in Nat
  BY <1>2, FS_Subset, FS_CardinalityType
<1>4. Cardinality(LookBack(i)) \in Nat /\ Cardinality(LookBack(i) \cup {i}) = Cardinality(LookBack(i)) + 1
  BY <1>1, LookBackCount
<1>5. Cardinality(PackBets) >= VelocityLimit
  BY <1>1, <1>2, <1>3, <1>4
<1> QED  BY <1>5 DEF MockFlags

\* Of a pack in order the rule flags exactly the bursts.
LEMMA RuleFlagsBursts ==
  ASSUME pack \in Seq(ShadowEvents), InOrder
  PROVE  RuleFlags <=> Burst
<1> DEFINE Within(from) == {i \in PackBets : pack[i].at \in from..(from + Minute)}
<1>1. /\ Len(pack) \in Nat /\ PackBets \in SUBSET (1..Len(pack)) /\ IsFiniteSet(PackBets)
      /\ \A i \in PackBets : pack[i].at \in Times /\ pack[i].at \in Nat
      /\ DOMAIN pack = 1..Len(pack) /\ Minute \in Nat /\ VelocityLimit \in Nat \ {0}
  BY PackBetsFinite
<1>2. \A i, j \in PackBets : i <= j => pack[i].at <= pack[j].at
  <2>1. \A i, j \in PackBets : i \in DOMAIN pack /\ j \in DOMAIN pack /\ i \in Nat /\ j \in Nat
    BY <1>1
  <2> QED  BY <1>1, <2>1 DEF InOrder
<1>3. \A from \in Nat : IsFiniteSet(Within(from)) /\ Cardinality(Within(from)) \in Nat
  BY <1>1, FS_Subset, FS_CardinalityType
<1>4. ASSUME RuleFlags PROVE Burst
  <2>1. PICK i \in PackBets : Cardinality(LookBack(i)) + 1 >= VelocityLimit
    BY <1>4 DEF RuleFlags, LookBack
  <2> DEFINE T == LookBack(i) \cup {i}
  <2>2. T \subseteq PackBets /\ T # {} /\ T \in SUBSET (1..Len(pack))
    BY <1>1 DEF LookBack
  <2>3. PICK m \in T : \A j \in T : m <= j
    <3> HIDE DEF T
    <3> QED  BY <1>1, <2>2, FirstAndLast
  <2>4. T \subseteq Within(pack[m].at)
    <3> SUFFICES ASSUME NEW j \in T PROVE j \in PackBets /\ pack[j].at \in pack[m].at..(pack[m].at + Minute)
      OBVIOUS
    <3>1. j \in PackBets /\ m \in PackBets /\ pack[m].at <= pack[j].at
      BY <1>2, <2>2, <2>3
    <3>2. \A k \in T : k <= i /\ pack[i].at - pack[k].at <= Minute
      BY <1>1 DEF LookBack
    <3>3. pack[j].at <= pack[i].at /\ pack[i].at - pack[m].at <= Minute
      BY <1>2, <2>3, <3>1, <3>2
    <3> QED  BY <1>1, <3>1, <3>3
  <2>5. pack[m].at \in Times /\ pack[m].at \in Nat
    BY <1>1, <2>2, <2>3
  <2>6. Cardinality(T) <= Cardinality(Within(pack[m].at))
    BY <1>3, <2>4, <2>5, FS_Subset
  <2>7. Cardinality(Within(pack[m].at)) >= VelocityLimit
    <3>1. Cardinality(LookBack(i)) \in Nat /\ Cardinality(T) = Cardinality(LookBack(i)) + 1
      BY <2>1, LookBackCount
    <3>2. Cardinality(Within(pack[m].at)) \in Nat /\ VelocityLimit \in Nat
      BY <1>1, <1>3, <2>5
    <3> HIDE DEF Within, T
    <3> QED  BY <2>1, <2>6, <3>1, <3>2
  <2> QED  BY <2>5, <2>7 DEF Burst
<1>5. ASSUME Burst PROVE RuleFlags
  <2>1. PICK from \in Times : Cardinality(Within(from)) >= VelocityLimit
    BY <1>5 DEF Burst
  <2>2. from \in Nat
    BY <2>1, ShadowAssumption
  <2>3. Within(from) # {}
    <3>1. Cardinality(Within(from)) # 0
      <4> HIDE DEF Within
      <4> QED  BY <1>1, <2>1, <2>2, <1>3
    <3> QED  BY <3>1, FS_EmptySet
  <2>4. Within(from) \in SUBSET (1..Len(pack))
    BY <1>1
  <2>5. PICK i \in Within(from) : \A j \in Within(from) : j <= i
    <3> HIDE DEF Within
    <3> QED  BY <1>1, <2>3, <2>4, FirstAndLast
  <2>6. Within(from) \subseteq LookBack(i) \cup {i} /\ i \in PackBets
    <3> SUFFICES ASSUME NEW j \in Within(from), j # i PROVE j \in LookBack(i)
      OBVIOUS
    <3>1. j \in PackBets /\ j < i
      BY <1>1, <2>4, <2>5
    <3>2. pack[i].at - pack[j].at <= Minute
      BY <1>1, <2>2
    <3> QED  BY <3>1, <3>2 DEF LookBack
  <2>7. Cardinality(Within(from)) <= Cardinality(LookBack(i) \cup {i})
    BY <2>6, LookBackCount, FS_Subset
  <2>8. Cardinality(LookBack(i)) + 1 >= VelocityLimit
    <3>1. Cardinality(LookBack(i)) \in Nat /\ Cardinality(LookBack(i) \cup {i}) = Cardinality(LookBack(i)) + 1
      BY <2>6, LookBackCount
    <3>2. Cardinality(Within(from)) \in Nat /\ VelocityLimit \in Nat
      BY <1>1, <1>3, <2>2
    <3> HIDE DEF Within
    <3> QED  BY <2>1, <2>7, <3>1, <3>2
  <2> QED  BY <2>6, <2>8 DEF RuleFlags, LookBack
<1> QED  BY <1>4, <1>5

\* BoardIsRight holds always: of a pack in order the rule flags exactly the bursts, and
\* the mock can only disagree by flagging more.
THEOREM ShadowBoardIsRight == ShadowSpec => []BoardIsRight
<1>1. ShadowInit => RowIsOfPack
  BY DEF ShadowInit, RowIsOfPack
<1>2. RowIsOfPack /\ [ShadowNext]_shadowVars => RowIsOfPack'
  <2> SUFFICES ASSUME RowIsOfPack, [ShadowNext]_shadowVars PROVE RowIsOfPack'
    OBVIOUS
  <2>1. CASE Record
    BY <2>1 DEF Record, RowIsOfPack
  <2>2. CASE Score
    BY <2>2 DEF Score, RowIsOfPack, RuleFlags, MockFlags, PackBets
  <2>3. CASE UNCHANGED shadowVars
    <3>1. pack' = pack /\ row' = row
      BY <2>3 DEF shadowVars
    <3>2. PackBets' = PackBets
      BY <3>1 DEF PackBets
    <3>3. RuleFlags' = RuleFlags /\ MockFlags' = MockFlags
      BY <3>1, <3>2 DEF RuleFlags, MockFlags
    <3> HIDE DEF RuleFlags, MockFlags
    <3> QED  BY <3>1, <3>3 DEF RowIsOfPack
  <2> QED  BY <2>1, <2>2, <2>3 DEF ShadowNext
<1>3. RowIsOfPack => BoardIsRight
  <2> SUFFICES ASSUME RowIsOfPack, NEW r \in row, InOrder
               PROVE  (r.rule <=> Burst) /\ (~r.agree => r.model)
    BY DEF BoardIsRight
  <2>1. pack \in Seq(ShadowEvents) /\ r = [rule |-> RuleFlags, model |-> MockFlags, agree |-> RuleFlags = MockFlags]
    BY DEF RowIsOfPack
  <2>2. RuleFlags \in BOOLEAN /\ MockFlags \in BOOLEAN
    BY DEF RuleFlags, MockFlags
  <2>3. r.rule = RuleFlags /\ r.model = MockFlags /\ r.agree = (RuleFlags = MockFlags)
    BY <2>1, Zenon
  <2>4. (RuleFlags <=> Burst) /\ (RuleFlags => MockFlags)
    BY <2>1, RuleFlagsBursts, RuleFlagsLess
  <2>5. ~(RuleFlags = MockFlags) => MockFlags
    BY <2>2, <2>4, Zenon
  <2> QED  BY <2>3, <2>4, <2>5, Zenon
<1> QED  BY <1>1, <1>2, <1>3, PTL DEF ShadowSpec
-----------------------------------------------------------------------------
(***************************************************************************)
(* "Run contract" judges the program, for any counters it starts from, any *)
(* number of attempts and of polls, while no attempt fails but the         *)
(* injected ones.  The invariant counts the poison event's retries from    *)
(* the reading before its post on: the handler has never read more of its  *)
(* dead letter than of the retries that came first.                        *)
(***************************************************************************)

\* Nobody else posts, and no crash comes in between.
Quiet == restarts = 0 /\ accepted \cap PartnerEvents = {}

PoisonId == ProbeEvent["poison"]
EarlySteps == {"none", "before", "first", "second", "poll", "after",
               "shadowBefore", "shadowAfter", "noPoison"}
LateSteps == {"poison", "watch", "watchPlayer", "iso", "cross", "done"}

ProbeTypeOK ==
  /\ kpc \in EarlySteps \cup LateSteps \cup {"failed"}
  /\ (runs = 0 /\ kpc = "none") \/ (runs = 1 /\ kpc # "none")
  /\ seen \in [Reads \cup {"watch"} -> [Counters -> Nat]]
  /\ balance \in [{"poll", "watch"} -> Nat]

\* What is accepted is a partner's or the run's; at first only the deposit posted twice.
RunPosted ==
  /\ accepted \subseteq PartnerEvents \cup {ProbeEvent[p] : p \in Posts}
  /\ kpc \in EarlySteps => accepted \subseteq PartnerEvents \cup {ProbeEvent["first"]}

\* A player is paid at most once, and so is what the poll saw.
PaidAtMostOnce ==
  /\ \A p \in Players : paid[p] <= WelcomeCredit
  /\ balance["poll"] <= WelcomeCredit

\* Attempts are counted of the event in hand, which is parked before its letter is
\* counted; no injected failure is ever applied.
HandOK ==
  /\ hand = NoEvent => failed = 0
  /\ uncounted = <<"dlq">> => hand \in parked
  /\ applied \cap Poison = {}

\* A retry that is not counted yet.
RetryPending == IF uncounted = <<"retries">> THEN 1 ELSE 0

RetriesBefore == seen["noPoison"]["retries"]

OnlyPoisonParked ==
  Quiet /\ InjectOn => parked \subseteq {PoisonId} /\ (counters["dlq"] > 0 => PoisonId \in parked)

\* The retries of the poison event, of a process that had counted as many before it.
RetriesFrom(base) ==
  /\ base <= counters["retries"]
  /\ hand = PoisonId /\ uncounted # <<"dlq">> => base + failed <= counters["retries"] + RetryPending
  /\ PoisonId \in parked => base + MaxAttempts - 1 <= counters["retries"]

RetriesCounted == Quiet /\ InjectOn /\ kpc \in LateSteps => RetriesFrom(RetriesBefore)

\* What the handler has read.
ReadingsRight ==
  /\ Quiet => seen["after"]["credits"] <= 1
  /\ kpc \in EarlySteps => seen["watch"]["dlq"] = 0
  /\ Quiet /\ InjectOn => balance["watch"] = 0
  /\ Quiet /\ InjectOn /\ kpc \in LateSteps /\ seen["watch"]["dlq"] > 0 =>
       /\ PoisonId \in parked
       /\ RetriesBefore + MaxAttempts - 1 <= seen["watch"]["retries"]

ContractInv ==
  /\ MetricsInv /\ PaidForDeposits /\ CreditedIsPaid
  /\ ProbeTypeOK /\ RunPosted /\ PaidAtMostOnce /\ HandOK
  /\ OnlyPoisonParked /\ RetriesCounted /\ ReadingsRight

CalmContractNext == ContractNext /\ OnlyInjectedFail
ContractStep == [CalmContractNext]_<<metricsVars, contractVars>>
-----------------------------------------------------------------------------
\* The steps of the handler, in two halves: the reading before the poison event's post
\* is between them.
LEMMA ThenGoes ==
  /\ \A k \in EarlySteps \ {"none", "noPoison"} : Then[k] \in EarlySteps \ {"none"}
  /\ Then["noPoison"] = IF InjectOn THEN "poison" ELSE "iso"
  /\ \A k \in LateSteps \ {"done"} : Then[k] \in LateSteps
BY DEF Then, EarlySteps, LateSteps

\* The handler posts events, and no injected one but the poison event.
LEMMA ProbeEvents ==
  /\ \A p \in Posts : ProbeEvent[p] \in Events
  /\ InjectOn => PoisonId \in Poison
  /\ \A p \in Posts \ {"poison"} : ProbeEvent[p] \notin Poison
BY ProbeAssumption DEF PoisonId, InjectOn, Posts

\* What the handler and everybody next to it do to the process's state is what clients do.
LEMMA ContractIsClient ==
  ASSUME ContractNext
  PROVE  AnyStep \/ UNCHANGED metricsVars
<1>1. CASE MetricsNext
  BY <1>1, MetricsAssumption DEF MetricsNext, AnyStep, PartnerPosts
<1>2. CASE PostProbe
  BY <1>2, ProbeEvents DEF PostProbe, AnyStep
<1>3. CASE ProbeAccepted
  BY <1>3, ProbeEvents DEF ProbeAccepted, AnyStep
<1> QED
  BY <1>1, <1>2, <1>3 DEF ContractNext, ContractSteps, ReadMetrics, PollPlayer, WatchCounters,
     WatchPlayer, CrossRead, ContractFails

\* Events stay accepted and restarts are counted, so it has been quiet as long as it is.
LEMMA QuietBefore ==
  ASSUME MetricsTypeOK, AnyStep \/ UNCHANGED metricsVars, Quiet'
  PROVE  Quiet /\ accepted \subseteq accepted' /\ restarts' = 0 /\ ~Crash
<1>1. CASE AnyStep
  BY <1>1 DEF Quiet, AnyStep, BackendNext, ConsumerWorks, MetricsTypeOK, Enqueue, Save, CountIngested, Take,
     HandleCommits, ApplyOnce, SkipDuplicate, AttemptFails, Park, CommitAnswerLost, Count, Crash, StartApp,
     deliveryVars
<1>2. CASE UNCHANGED metricsVars
  BY <1>2 DEF Quiet, metricsVars, deliveryVars, Crash, MetricsTypeOK
<1> QED  BY <1>1, <1>2

\* Where a step may take the handler, and what it leaves of the readings.
HandlerGoes ==
  /\ kpc' \in EarlySteps => kpc \in EarlySteps
  /\ kpc' \in LateSteps => kpc \in LateSteps \/ (kpc = "noPoison" /\ ReadMetrics)
  /\ kpc' \in EarlySteps \cup LateSteps \cup {"failed"}
  /\ (runs' = 0 /\ kpc' = "none") \/ (runs' = 1 /\ kpc' # "none")

ReadingsGo ==
  /\ \A r \in Reads : seen'[r] = IF ReadMetrics /\ kpc = r THEN counters ELSE seen[r]
  /\ seen'["watch"] = IF WatchCounters THEN counters ELSE seen["watch"]
  /\ seen' \in [Reads \cup {"watch"} -> [Counters -> Nat]]

LEMMA HandlerMoves ==
  ASSUME ProbeTypeOK, counters \in [Counters -> Nat], ContractStep
  PROVE  HandlerGoes /\ ReadingsGo
<1>1. "watch" \notin Reads /\ "none" \notin Reads \cup Posts \cup {"poll", "watch", "watchPlayer", "cross"}
  BY DEF Reads, Posts
<1>2. ASSUME kpc' = Then[kpc], kpc # "noPoison", kpc \notin Ended, runs' = runs
      PROVE  HandlerGoes
  <2>1. CASE kpc \in EarlySteps
    <3>1. kpc' \in EarlySteps \ {"none"}
      BY <1>2, <2>1, ThenGoes DEF Ended
    <3> QED  BY <1>2, <2>1, <3>1 DEF HandlerGoes, ProbeTypeOK, Ended, EarlySteps, LateSteps
  <2>2. CASE kpc \in LateSteps
    <3>1. kpc' \in LateSteps
      BY <1>2, <2>2, ThenGoes DEF Ended
    <3> QED  BY <1>2, <2>2, <3>1 DEF HandlerGoes, ProbeTypeOK, Ended, EarlySteps, LateSteps
  <2> QED  BY <1>2, <2>1, <2>2 DEF ProbeTypeOK, Ended
<1>3. ASSUME kpc' = kpc \/ (kpc' = "failed" /\ kpc \notin Ended), runs' = runs
      PROVE  HandlerGoes
  BY <1>3 DEF HandlerGoes, ProbeTypeOK, Ended, EarlySteps, LateSteps
<1>4. ASSUME seen' = seen, ~ReadMetrics, ~WatchCounters
      PROVE  ReadingsGo
  BY <1>4 DEF ReadingsGo, ProbeTypeOK
<1>5. CASE RunContract
  <2>1. HandlerGoes
    BY <1>5 DEF RunContract, HandlerGoes, ProbeTypeOK, EarlySteps, LateSteps
  <2>2. ~ReadMetrics /\ ~WatchCounters
    BY <1>5 DEF RunContract, Ended, ReadMetrics, WatchCounters, Reads
  <2> QED  BY <1>4, <1>5, <2>1, <2>2 DEF RunContract
<1>6. CASE ReadMetrics
  <2>1. kpc \in Reads /\ kpc' = Then[kpc] /\ runs' = runs /\ seen' = [seen EXCEPT ![kpc] = counters]
    BY <1>6 DEF ReadMetrics
  <2>2. HandlerGoes
    <3>1. CASE kpc = "noPoison"
      BY <1>6, <2>1, <3>1, ThenGoes DEF HandlerGoes, ProbeTypeOK, EarlySteps, LateSteps
    <3>2. kpc \notin Ended
      BY <2>1 DEF Reads, Ended
    <3> QED  BY <1>2, <2>1, <3>1, <3>2
  <2>3. ~WatchCounters
    BY <1>1, <2>1 DEF WatchCounters
  <2>4. ReadingsGo
    BY <1>1, <1>6, <2>1, <2>3 DEF ProbeTypeOK, ReadingsGo
  <2> QED  BY <2>2, <2>4
<1>7. CASE WatchCounters
  <2>1. /\ kpc = "watch" /\ runs' = runs /\ kpc' = Then[kpc]
        /\ seen' = [seen EXCEPT !["watch"] = counters]
    BY <1>7 DEF WatchCounters
  <2>2. kpc # "noPoison" /\ kpc \notin Ended /\ ~ReadMetrics
    BY <1>1, <2>1 DEF Ended, ReadMetrics
  <2>3. ReadingsGo
    BY <1>1, <1>7, <2>1, <2>2 DEF ProbeTypeOK, ReadingsGo
  <2> QED  BY <1>2, <1>3, <2>1, <2>2, <2>3
<1>8. CASE ~RunContract /\ ~ReadMetrics /\ ~WatchCounters
  <2>1. CASE ProbeAccepted \/ PollPlayer \/ CrossRead
    <3>1. seen' = seen /\ runs' = runs /\ kpc' \in {kpc, Then[kpc]} /\ kpc \in Posts \cup {"poll", "cross"}
      BY <2>1 DEF ProbeAccepted, PollPlayer, CrossRead
    <3>2. kpc # "noPoison" /\ kpc \notin Ended
      BY <3>1 DEF Posts, Ended
    <3> QED  BY <1>2, <1>3, <1>4, <1>8, <3>1, <3>2
  <2>2. CASE PostProbe \/ ContractFails \/ UNCHANGED contractVars
    <3>1. seen' = seen /\ runs' = runs /\ (kpc' = kpc \/ (kpc' = "failed" /\ kpc \notin Ended))
      BY <2>2 DEF PostProbe, ContractFails, contractVars
    <3> QED  BY <1>3, <1>4, <1>8, <3>1
  <2>3. CASE WatchPlayer
    <3>1. seen' = seen /\ runs' = runs /\ kpc = "watchPlayer" /\ kpc' \in {"watch", Then[kpc]}
      BY <2>3 DEF WatchPlayer
    <3>2. kpc' = "watch" => HandlerGoes
      BY <3>1 DEF HandlerGoes, ProbeTypeOK, EarlySteps, LateSteps
    <3>3. kpc # "noPoison" /\ kpc \notin Ended
      BY <3>1 DEF Ended
    <3> QED  BY <1>2, <1>4, <1>8, <3>1, <3>2, <3>3
  <2> QED  BY <1>8, <2>1, <2>2, <2>3 DEF ContractStep, CalmContractNext, ContractNext, ContractSteps
<1> QED  BY <1>5, <1>6, <1>7, <1>8
\* Only the run's posts and partners' are accepted, and first the deposit.
LEMMA RunPostedStep ==
  ASSUME ProbeTypeOK, RunPosted, HandlerGoes, ContractStep
  PROVE  RunPosted'
<1>1. CASE PostProbe
  <2>1. kpc \in Posts /\ kpc' = kpc /\ accepted' = accepted \cup {ProbeEvent[kpc]}
    BY <1>1 DEF PostProbe, Enqueue, Save
  <2>2. kpc \in EarlySteps => kpc \in {"first", "second"}
    BY <2>1 DEF Posts, EarlySteps
  <2>3. ProbeEvent["first"] = ProbeEvent["second"]
    BY ProbeAssumption
  <2> QED  BY <2>1, <2>2, <2>3 DEF RunPosted
<1>2. CASE \E e \in PartnerEvents : PartnerPosts(e)
  BY <1>2 DEF PartnerPosts, Enqueue, Save, RunPosted, HandlerGoes
<1>3. CASE accepted' = accepted
  BY <1>3 DEF RunPosted, HandlerGoes
<1>4. \/ PostProbe \/ (\E e \in PartnerEvents : PartnerPosts(e)) \/ accepted' = accepted
  BY DEF ContractStep, CalmContractNext, ContractNext, ContractSteps, RunContract, ReadMetrics, ProbeAccepted,
     PollPlayer, WatchCounters, WatchPlayer, CrossRead, ContractFails, MetricsNext, BackendNext, ConsumerWorks,
     CountIngested, Take, HandleCommits, ApplyOnce, SkipDuplicate, AttemptFails, Park, CommitAnswerLost, Count, Crash, StartApp,
     metricsVars, deliveryVars
<1> QED  BY <1>1, <1>2, <1>3, <1>4

\* The first deposit applied pays a player who has nothing yet.
LEMMA PaidOnceStep ==
  ASSUME MetricsTypeOK, PaidForDeposits, ProbeTypeOK, PaidAtMostOnce, ContractStep
  PROVE  PaidAtMostOnce' /\ balance' \in [{"poll", "watch"} -> Nat]
<1> USE MetricsAssumption
<1>1. ASSUME hand \in Events, ApplyOnce(hand)
      PROVE  \A p \in Players : paid'[p] <= WelcomeCredit
  <2>1. CASE FirstDeposit(hand)
    <3>1. PlayerOf[hand] \in Players /\ PlayerOf[hand] \notin PaidPlayers
      BY <1>1, <2>1 DEF FirstDeposit, PaidForDeposits
    <3>2. paid[PlayerOf[hand]] = 0
      BY <3>1 DEF PaidPlayers, PaidForDeposits
    <3>3. paid' = [paid EXCEPT ![PlayerOf[hand]] = @ + WelcomeCredit]
      BY <1>1, <2>1 DEF ApplyOnce
    <3> QED  BY <3>1, <3>2, <3>3 DEF PaidForDeposits, PaidAtMostOnce
  <2>2. CASE ~FirstDeposit(hand)
    BY <1>1, <2>2 DEF ApplyOnce, PaidAtMostOnce
  <2> QED  BY <2>1, <2>2
<1>2. \A p \in Players : paid'[p] <= WelcomeCredit
  <2>1. CASE HandleCommits \/ CommitAnswerLost
    <3>1. hand \in Events /\ ApplyOnce(hand)
      BY <2>1 DEF HandleCommits, CommitAnswerLost, Working, MetricsTypeOK
    <3> QED  BY <1>1, <3>1
  <2>2. CASE paid' = paid
    BY <2>2 DEF PaidAtMostOnce
  <2>3. HandleCommits \/ CommitAnswerLost \/ paid' = paid
    <3>1. AnyStep \/ UNCHANGED metricsVars
      BY ContractIsClient DEF ContractStep, CalmContractNext
    <3> QED
      BY <3>1 DEF AnyStep, BackendNext, ConsumerWorks, Enqueue, Save, CountIngested, Take, SkipDuplicate,
         AttemptFails, Park, Count, Crash, StartApp, deliveryVars, metricsVars
  <2> QED  BY <2>1, <2>2, <2>3
<1>3. /\ Player("first") \in Players /\ Player("poison") \in Players
      /\ paid[Player("first")] \in Nat /\ paid[Player("poison")] \in Nat
      /\ paid[Player("first")] <= WelcomeCredit
  <2>1. ProbeEvent["first"] \in Events /\ ProbeEvent["poison"] \in Events
    BY ProbeEvents DEF Posts
  <2>2. Player("first") \in Players /\ Player("poison") \in Players
    BY <2>1 DEF Player
  <2> QED  BY <2>2 DEF PaidForDeposits, PaidAtMostOnce
<1>4. CASE PollPlayer
  <2>1. balance' = [balance EXCEPT !["poll"] = paid[Player("first")]]
    BY <1>4 DEF PollPlayer
  <2> QED  BY <1>2, <1>3, <2>1 DEF ProbeTypeOK, PaidAtMostOnce
<1>5. CASE WatchPlayer
  <2>1. balance' = [balance EXCEPT !["watch"] = paid[Player("poison")]]
    BY <1>5 DEF WatchPlayer
  <2> QED  BY <1>2, <1>3, <2>1 DEF ProbeTypeOK, PaidAtMostOnce
<1>6. CASE balance' = balance
  BY <1>2, <1>6 DEF ProbeTypeOK, PaidAtMostOnce
<1> QED
  BY <1>4, <1>5, <1>6 DEF ContractStep, CalmContractNext, ContractNext, ContractSteps, RunContract, ReadMetrics,
     PostProbe, ProbeAccepted, WatchCounters, CrossRead, ContractFails, contractVars

\* The queues of a failed attempt are no other queue's, nor what is left of one.
LEMMA FailureQueues ==
  /\ <<"retries">> # <<"dlq">> /\ <<"retries">> # <<>> /\ <<"dlq">> # <<>>
  /\ <<"dlq">> \notin {<<"processed">>, <<"credits", "welcome", "processed">>}
  /\ <<"retries">> \notin {<<"processed">>, <<"credits", "welcome", "processed">>}
  /\ \A q \in Queues : q # <<>> => Tail(q) \notin {<<"retries">>, <<"dlq">>}
<1>1. Len(<<"retries">>) = 1 /\ Len(<<"dlq">>) = 1 /\ Len(<<>>) = 0
  OBVIOUS
<1>2. <<"retries">>[1] = "retries" /\ <<"dlq">>[1] = "dlq" /\ <<"processed">>[1] = "processed"
  OBVIOUS
<1>3. /\ <<"retries">> # <<"dlq">> /\ <<"retries">> # <<>> /\ <<"dlq">> # <<>>
      /\ <<"dlq">> # <<"processed">> /\ <<"retries">> # <<"processed">>
  BY <1>1, <1>2
<1>4. <<"credits", "welcome", "processed">> \notin {<<"retries">>, <<"dlq">>}
  BY CreditQueue
<1>5. ASSUME NEW q \in Queues, q # <<>>
      PROVE  Tail(q) \notin {<<"retries">>, <<"dlq">>}
  <2>1. Tail(q) \in {<<"retries">>, <<"dlq">>} => q \in {<<"processed">>, <<"retries">>, <<"dlq">>}
    BY <1>5, QueueStep
  <2>2. Tail(<<"processed">>) = <<>>
    OBVIOUS
  <2> QED  BY <1>3, <2>1, <2>2, QueueTails
<1> QED  BY <1>3, <1>4, <1>5

\* A letter is parked before it is counted; an event starts with no failed attempt.
LEMMA HandStep ==
  ASSUME MetricsTypeOK, uncounted \in Queues, HandOK, AnyStep
  PROVE  HandOK'
<1>1. CASE HandleCommits \/ CommitAnswerLost
  <2>1. /\ hand \notin Poison /\ applied' = applied \cup {hand} /\ hand' = hand /\ hand # NoEvent
        /\ uncounted' \in {<<"credits", "welcome", "processed">>, <<"processed">>, <<"retries">>}
    BY <1>1 DEF HandleCommits, CommitAnswerLost, ApplyOnce, Working
  <2> QED  BY <2>1, FailureQueues DEF HandOK
<1>2. CASE SkipDuplicate \/ Crash
  <2>1. hand' = NoEvent /\ failed' = 0 /\ uncounted' = <<>> /\ applied' = applied
    BY <1>2 DEF SkipDuplicate, Crash, Idle, deliveryVars
  <2> QED  BY <2>1, FailureQueues DEF HandOK
<1>3. CASE AttemptFails
  <2>1. /\ hand' = hand /\ hand # NoEvent /\ applied' = applied
        /\ uncounted' = <<"retries">> \/ (uncounted' = <<"dlq">> /\ hand \in parked')
    BY <1>3 DEF AttemptFails, Working, Park, deliveryVars
  <2> QED  BY <2>1, FailureQueues DEF HandOK
<1>4. CASE Count
  <2>1. applied' = applied /\ uncounted' = Tail(uncounted) /\ uncounted # <<>>
    BY <1>4 DEF Count, Idle, deliveryVars
  <2>2. uncounted' # <<"dlq">>
    BY <2>1, FailureQueues
  <2>3. hand' = NoEvent => failed' = 0
    BY <1>4 DEF Count, Idle, HandOK
  <2> QED  BY <2>1, <2>2, <2>3 DEF HandOK
<1>5. ASSUME NEW e \in Events, Take(e) PROVE HandOK'
  <2>1. NoEvent \notin parked
    BY MetricsAssumption DEF MetricsTypeOK
  <2> QED  BY <1>5, <2>1 DEF Take, HandOK, deliveryVars
<1>6. CASE (\E e \in Events : Enqueue(e) \/ CountIngested(e)) \/ StartApp
  BY <1>6 DEF Enqueue, Save, CountIngested, StartApp, HandOK, deliveryVars, countingVars
<1> QED  BY <1>1, <1>2, <1>3, <1>4, <1>5, <1>6 DEF AnyStep, BackendNext, ConsumerWorks

\* While it is quiet, an attempt that fails for good is the poison event's.
LEMMA OnlyPoisonFails ==
  ASSUME MetricsTypeOK, RunPosted, Quiet, AttemptFails, OnlyInjectedFail
  PROVE  InjectOn /\ hand = PoisonId
<1>1. failed' > failed /\ hand \notin applied' /\ hand # NoEvent
  BY DEF AttemptFails, Working, MetricsTypeOK, Park, deliveryVars
<1>2. hand \in Poison /\ hand \in accepted
  BY <1>1 DEF OnlyInjectedFail, MetricsTypeOK
<1>3. PICK p \in Posts : hand = ProbeEvent[p]
  BY <1>2 DEF RunPosted, Quiet
<1>4. p = "poison"
  BY <1>2, <1>3, ProbeEvents
<1> QED  BY <1>2, <1>3, <1>4 DEF PoisonId, InjectOn
\* What is parked while it is quiet is the poison event, before its letter is counted.
LEMMA ParkedStep ==
  ASSUME MetricsInv, RunPosted, HandOK, OnlyPoisonParked,
         (AnyStep /\ OnlyInjectedFail) \/ UNCHANGED metricsVars
  PROVE  OnlyPoisonParked'
<1> SUFFICES ASSUME Quiet', InjectOn
             PROVE  parked' \subseteq {PoisonId} /\ (counters'["dlq"] > 0 => PoisonId \in parked')
  BY DEF OnlyPoisonParked, InjectOn, PoisonId
<1>1. MetricsTypeOK /\ uncounted \in Queues /\ Quiet /\ ~Crash
  BY QuietBefore DEF MetricsInv
<1>2. parked \subseteq {PoisonId} /\ (counters["dlq"] > 0 => PoisonId \in parked)
  BY <1>1 DEF OnlyPoisonParked
<1>3. CASE AttemptFails /\ OnlyInjectedFail
  <2>1. hand = PoisonId /\ counters' = counters /\ parked' \in {parked, parked \cup {hand}}
    BY <1>1, <1>3, OnlyPoisonFails DEF AttemptFails, Park, deliveryVars
  <2> QED  BY <1>2, <2>1
<1>4. CASE Count
  <2>1. parked' = parked /\ counters' = [counters EXCEPT ![Head(uncounted)] = @ + 1] /\ uncounted # <<>>
    BY <1>4 DEF Count, deliveryVars
  <2>2. CASE Head(uncounted) = "dlq"
    <3>1. uncounted = <<"dlq">>
      BY <1>1, <2>1, <2>2 DEF Queues
    <3> QED  BY <1>2, <2>1, <3>1 DEF HandOK
  <2>3. CASE Head(uncounted) # "dlq"
    <3>1. counters'["dlq"] = counters["dlq"]
      BY <1>1, <2>1, <2>3 DEF MetricsTypeOK, Counters
    <3> QED  BY <1>2, <2>1, <3>1
  <2> QED  BY <2>2, <2>3
<1>5. ASSUME NEW e \in Events, CountIngested(e)
      PROVE  parked' \subseteq {PoisonId} /\ (counters'["dlq"] > 0 => PoisonId \in parked')
  <2>1. parked' = parked /\ counters'["dlq"] = counters["dlq"]
    BY <1>1, <1>5 DEF CountIngested, deliveryVars, MetricsTypeOK, Counters
  <2> QED  BY <1>2, <2>1
<1>6. CASE parked' = parked /\ counters' = counters
  BY <1>2, <1>6
<1> QED
  BY <1>1, <1>3, <1>4, <1>5, <1>6 DEF AnyStep, BackendNext, ConsumerWorks, Enqueue, Save, Take, HandleCommits,
     ApplyOnce, SkipDuplicate, CommitAnswerLost, StartApp, deliveryVars, metricsVars

\* A step of the worker counts the poison event's retries as it fails them.
LEMMA RetriesGo ==
  ASSUME MetricsInv, HandOK, RunPosted, Quiet, Quiet', InjectOn, NEW base \in Nat, RetriesFrom(base),
         parked \subseteq {PoisonId}, (AnyStep /\ OnlyInjectedFail) \/ UNCHANGED metricsVars
  PROVE  /\ base <= counters'["retries"]
         /\ hand' = PoisonId /\ uncounted' # <<"dlq">> => base + failed' <= counters'["retries"] + RetryPending'
         /\ PoisonId \in parked' => base + MaxAttempts - 1 <= counters'["retries"]
<1> DEFINE Goal ==
      /\ base <= counters'["retries"]
      /\ hand' = PoisonId /\ uncounted' # <<"dlq">> => base + failed' <= counters'["retries"] + RetryPending'
      /\ PoisonId \in parked' => base + MaxAttempts - 1 <= counters'["retries"]
<1>1. MetricsTypeOK /\ uncounted \in Queues /\ ~Crash
  BY QuietBefore DEF MetricsInv
<1>2. /\ counters \in [Counters -> Nat] /\ counters["retries"] \in Nat /\ failed \in Nat
      /\ MaxAttempts \in Nat \ {0} /\ RetryPending \in {0, 1} /\ RetryPending' \in {0, 1}
      /\ "retries" \in Counters
  BY <1>1, MetricsAssumption DEF MetricsTypeOK, Counters, RetryPending
<1>3. PoisonId # NoEvent
  BY ProbeEvents, MetricsAssumption DEF PoisonId, Posts
<1>4. CASE AttemptFails /\ OnlyInjectedFail
  <2>1. /\ hand = PoisonId /\ hand' = hand /\ failed' = failed + 1 /\ counters' = counters
        /\ uncounted = <<>>
    BY <1>1, <1>4, OnlyPoisonFails DEF AttemptFails, Working
  <2>2. base + failed <= counters["retries"]
    BY <1>2, <2>1, FailureQueues DEF RetriesFrom, RetryPending
  <2>3. CASE failed' < MaxAttempts
    <3>1. uncounted' = <<"retries">> /\ parked' = parked
      BY <1>4, <2>3 DEF AttemptFails, deliveryVars
    <3>2. RetryPending' = 1
      BY <3>1 DEF RetryPending
    <3> QED  BY <1>2, <2>1, <2>2, <3>1, <3>2 DEF RetriesFrom
  <2>4. CASE ~(failed' < MaxAttempts)
    <3>1. uncounted' = <<"dlq">>
      BY <1>4, <2>4 DEF AttemptFails
    <3>2. base + MaxAttempts - 1 <= counters["retries"]
      BY <1>2, <2>1, <2>2, <2>4
    <3> QED  BY <2>1, <3>1, <3>2 DEF RetriesFrom
  <2> QED  BY <2>3, <2>4
<1>5. CASE Count
  <2>1. /\ parked' = parked /\ uncounted # <<>> /\ uncounted' = Tail(uncounted)
        /\ counters' = [counters EXCEPT ![Head(uncounted)] = @ + 1]
    BY <1>5 DEF Count, Idle, deliveryVars
  <2>2. RetryPending' = 0
    BY <1>1, <2>1, FailureQueues DEF RetryPending
  <2>3. counters["retries"] + RetryPending <= counters'["retries"] /\ counters'["retries"] \in Nat
    <3>1. CASE uncounted = <<"retries">>
      <4>1. Head(uncounted) = "retries" /\ RetryPending = 1
        BY <3>1 DEF RetryPending
      <4> QED  BY <1>2, <2>1, <4>1
    <3>2. CASE uncounted # <<"retries">>
      <4>1. RetryPending = 0
        BY <3>2 DEF RetryPending
      <4>2. counters'["retries"] \in {counters["retries"], counters["retries"] + 1}
        BY <1>2, <2>1
      <4> QED  BY <1>2, <4>1, <4>2
    <3> QED  BY <3>1, <3>2
  <2>4. hand' = PoisonId => hand = PoisonId /\ failed' = failed /\ uncounted # <<"dlq">>
    <3> SUFFICES ASSUME hand' = PoisonId
                 PROVE  hand = PoisonId /\ failed' = failed /\ uncounted # <<"dlq">>
      OBVIOUS
    <3>1. ~Idle
      BY <1>3 DEF Idle
    <3>2. UNCHANGED <<hand, failed>> /\ ~(Tail(uncounted) = <<>> /\ hand \in applied \cup parked)
      BY <1>5, <3>1 DEF Count
    <3>3. uncounted = <<"dlq">> => Tail(uncounted) = <<>> /\ hand \in parked
      BY QueueTails DEF HandOK
    <3> QED  BY <3>2, <3>3
  <2> QED  BY <1>2, <2>1, <2>2, <2>3, <2>4 DEF RetriesFrom
<1>6. ASSUME NEW e \in Events, Take(e) PROVE Goal
  <2>1. UNCHANGED <<counters, parked, failed, uncounted>> /\ failed = 0
    BY <1>6 DEF Take, deliveryVars, HandOK
  <2> QED  BY <1>2, <2>1 DEF RetriesFrom, RetryPending
<1>7. CASE SkipDuplicate
  <2>1. UNCHANGED <<counters, parked>> /\ hand' = NoEvent
    BY <1>7 DEF SkipDuplicate, Idle, deliveryVars
  <2> QED  BY <1>3, <2>1 DEF RetriesFrom
<1>8. CASE HandleCommits \/ CommitAnswerLost
  <2>1. UNCHANGED <<counters, parked, hand>> /\ hand # PoisonId
    BY <1>8, ProbeEvents DEF HandleCommits, CommitAnswerLost, ApplyOnce
  <2> QED  BY <2>1 DEF RetriesFrom
<1>9. ASSUME NEW e \in Events, Enqueue(e) \/ CountIngested(e) PROVE Goal
  <2>1. UNCHANGED <<parked, hand, failed, uncounted>> /\ counters'["retries"] = counters["retries"]
    BY <1>2, <1>9 DEF Enqueue, Save, CountIngested, deliveryVars
  <2> QED  BY <2>1 DEF RetriesFrom, RetryPending
<1>10. CASE StartApp \/ UNCHANGED metricsVars
  <2>1. UNCHANGED <<parked, hand, failed, uncounted, counters>>
    BY <1>10 DEF StartApp, metricsVars, deliveryVars, countingVars
  <2> QED  BY <2>1 DEF RetriesFrom, RetryPending
<1> QED
  BY <1>1, <1>4, <1>5, <1>6, <1>7, <1>8, <1>9, <1>10 DEF AnyStep, BackendNext, ConsumerWorks
\* The handler's reading before the post is the base, and stays it.
LEMMA RetriesCountedStep ==
  ASSUME ContractInv, ContractStep, HandlerGoes, ReadingsGo
  PROVE  RetriesCounted'
<1> SUFFICES ASSUME Quiet', InjectOn, kpc' \in LateSteps
             PROVE  RetriesFrom(RetriesBefore)'
  BY DEF RetriesCounted, InjectOn
<1>1. (AnyStep /\ OnlyInjectedFail) \/ UNCHANGED metricsVars
  BY ContractIsClient DEF ContractStep, CalmContractNext
<1>2. MetricsTypeOK /\ Quiet /\ parked \subseteq {PoisonId} /\ "noPoison" \in Reads
  BY <1>1, QuietBefore DEF ContractInv, MetricsInv, OnlyPoisonParked, Reads
<1>3. CASE kpc \in LateSteps
  <2>1. seen'["noPoison"] = seen["noPoison"]
    BY <1>2, <1>3 DEF ReadingsGo, LateSteps
  <2>2. RetriesBefore \in Nat /\ RetriesBefore' = RetriesBefore
    BY <1>2, <2>1 DEF RetriesBefore, ContractInv, ProbeTypeOK, Counters
  <2>3. RetriesFrom(RetriesBefore)
    BY <1>2, <1>3 DEF ContractInv, RetriesCounted
  <2> HIDE DEF RetriesBefore
  <2>4. /\ RetriesBefore <= counters'["retries"]
        /\ hand' = PoisonId /\ uncounted' # <<"dlq">> =>
             RetriesBefore + failed' <= counters'["retries"] + RetryPending'
        /\ PoisonId \in parked' => RetriesBefore + MaxAttempts - 1 <= counters'["retries"]
    BY <1>1, <1>2, <2>2, <2>3, RetriesGo DEF ContractInv
  <2> QED  BY <2>2, <2>4 DEF RetriesFrom, PoisonId
<1>4. CASE kpc = "noPoison" /\ ReadMetrics
  <2>1. UNCHANGED <<counters, hand, failed, uncounted, parked>> /\ seen'["noPoison"] = counters
    BY <1>2, <1>4 DEF ReadMetrics, ReadingsGo, metricsVars, deliveryVars
  <2>2. RetriesBefore' = counters["retries"] /\ counters["retries"] \in Nat
    BY <1>2, <2>1 DEF RetriesBefore, MetricsTypeOK, Counters
  <2>3. PoisonId \notin accepted
    <3>1. PoisonId # ProbeEvent["first"] /\ PoisonId \notin PartnerEvents
      BY ProbeEvents, ProbeAssumption DEF PoisonId, Posts
    <3>2. kpc \in EarlySteps
      BY <1>4 DEF EarlySteps
    <3> QED  BY <3>1, <3>2 DEF ContractInv, RunPosted
  <2>4. PoisonId \notin parked /\ hand # PoisonId
    <3>1. PoisonId # NoEvent
      BY ProbeEvents, MetricsAssumption DEF PoisonId, Posts
    <3> QED  BY <1>2, <2>3, <3>1 DEF MetricsTypeOK
  <2> QED  BY <2>1, <2>2, <2>4 DEF RetriesFrom, PoisonId
<1> QED  BY <1>3, <1>4 DEF HandlerGoes

\* While it is quiet the poison event's player has nothing, and of the first posts at
\* most one credit is counted.
LEMMA QuietReadings ==
  ASSUME ContractInv, Quiet
  PROVE  /\ InjectOn => paid[Player("poison")] = 0
         /\ kpc \in EarlySteps => counters["credits"] <= 1
<1>1. MetricsTypeOK /\ PaidForDeposits /\ CreditedIsPaid /\ applied \cap Poison = {}
  BY DEF ContractInv, MetricsInv, HandOK
<1>2. ASSUME InjectOn PROVE paid[Player("poison")] = 0
  <2>1. Player("poison") \in Players
    BY ProbeEvents, MetricsAssumption DEF Player, Posts
  <2>2. ASSUME Player("poison") \in PaidPlayers PROVE FALSE
    <3>1. PICK f \in applied : PlayerOf[f] = Player("poison")
      BY <1>1, <2>2 DEF PaidForDeposits
    <3>2. f \in accepted /\ f \notin PartnerEvents
      BY <1>1, <3>1 DEF MetricsTypeOK, Quiet
    <3>3. PICK p \in Posts : f = ProbeEvent[p]
      BY <3>2 DEF ContractInv, RunPosted
    <3>4. p = "poison"
      BY <3>1, <3>3, ProbeAssumption DEF Player
    <3> QED  BY <1>1, <1>2, <3>1, <3>3, <3>4, ProbeEvents DEF PoisonId
  <2> QED  BY <1>1, <2>1, <2>2 DEF PaidPlayers, PaidForDeposits
<1>3. ASSUME kpc \in EarlySteps PROVE counters["credits"] <= 1
  <2>1. accepted \subseteq {ProbeEvent["first"]}
    BY <1>3 DEF ContractInv, RunPosted, Quiet
  <2>2. PaidPlayers \subseteq {Player("first")}
    BY <1>1, <2>1 DEF PaidForDeposits, MetricsTypeOK, Player
  <2>3. Cardinality(PaidPlayers) <= 1 /\ Cardinality(PaidPlayers) \in Nat
    <3>1. IsFiniteSet({Player("first")}) /\ Cardinality({Player("first")}) = 1
      BY FS_Singleton
    <3> QED  BY <1>1, <2>2, <3>1, FS_Subset, PaidPlayersFinite
  <2>4. counters["credits"] + CreditPending <= Cardinality(PaidPlayers)
    BY <1>1 DEF CreditedIsPaid, Quiet
  <2> QED  BY <1>1, <2>3, <2>4 DEF MetricsTypeOK, Counters, CreditPending
<1> QED  BY <1>2, <1>3

\* What the handler reads is how it stands at the moment.
LEMMA ReadingsRightStep ==
  ASSUME ContractInv, ContractStep, HandlerGoes, ReadingsGo
  PROVE  ReadingsRight'
<1>1. (AnyStep /\ OnlyInjectedFail) \/ UNCHANGED metricsVars
  BY ContractIsClient DEF ContractStep, CalmContractNext
<1>2. MetricsTypeOK /\ ReadingsRight /\ {"after", "noPoison"} \subseteq Reads /\ "watch" \notin Reads
  BY DEF ContractInv, MetricsInv, Reads
<1>3. Quiet' => Quiet
  BY <1>1, <1>2, QuietBefore
<1>4. Quiet' => seen'["after"]["credits"] <= 1
  <2>1. CASE ReadMetrics /\ kpc = "after"
    BY <1>2, <1>3, <2>1, QuietReadings DEF ReadingsGo, EarlySteps
  <2>2. CASE ~(ReadMetrics /\ kpc = "after")
    BY <1>2, <1>3, <2>2 DEF ReadingsGo, ReadingsRight
  <2> QED  BY <2>1, <2>2
<1>5. kpc' \in EarlySteps => seen'["watch"]["dlq"] = 0
  <2>1. kpc \in EarlySteps => ~WatchCounters
    BY DEF WatchCounters, EarlySteps
  <2> QED  BY <1>2, <2>1 DEF HandlerGoes, ReadingsGo, ReadingsRight
<1>6. Quiet' /\ InjectOn => balance'["watch"] = 0
  <2>1. CASE WatchPlayer
    BY <1>3, <2>1, QuietReadings DEF WatchPlayer, ContractInv, ProbeTypeOK
  <2>2. CASE PollPlayer
    BY <1>2, <1>3, <2>2 DEF PollPlayer, ContractInv, ProbeTypeOK, ReadingsRight
  <2>3. CASE balance' = balance
    BY <1>2, <1>3, <2>3 DEF ReadingsRight
  <2> QED
    BY <2>1, <2>2, <2>3 DEF ContractStep, CalmContractNext, ContractNext, ContractSteps, RunContract, ReadMetrics,
       PostProbe, ProbeAccepted, WatchCounters, CrossRead, ContractFails, contractVars
<1>7. ASSUME Quiet', InjectOn, kpc' \in LateSteps, seen'["watch"]["dlq"] > 0
      PROVE  PoisonId \in parked' /\ RetriesBefore' + MaxAttempts - 1 <= seen'["watch"]["retries"]
  <2>1. CASE WatchCounters
    <3>1. /\ seen'["watch"] = counters /\ seen'["noPoison"] = seen["noPoison"] /\ kpc \in LateSteps
          /\ parked' = parked
      BY <1>2, <2>1 DEF ReadingsGo, WatchCounters, ReadMetrics, LateSteps, metricsVars, deliveryVars
    <3>2. PoisonId \in parked
      BY <1>3, <1>7, <3>1 DEF ContractInv, OnlyPoisonParked
    <3>3. RetriesBefore + MaxAttempts - 1 <= counters["retries"]
      BY <1>3, <1>7, <3>1, <3>2 DEF ContractInv, RetriesCounted, RetriesFrom
    <3> QED  BY <3>1, <3>2, <3>3 DEF RetriesBefore
  <2>2. CASE ~WatchCounters
    <3>1. seen'["watch"] = seen["watch"] /\ kpc \in LateSteps
      BY <1>2, <1>7, <2>2 DEF HandlerGoes, ReadingsGo, ReadingsRight, EarlySteps
    <3>2. seen'["noPoison"] = seen["noPoison"]
      BY <1>2, <3>1 DEF ReadingsGo, LateSteps
    <3>3. PoisonId \in parked /\ RetriesBefore + MaxAttempts - 1 <= seen["watch"]["retries"]
      BY <1>2, <1>3, <1>7, <3>1 DEF ReadingsRight
    <3>4. parked \subseteq parked'
      BY <1>1 DEF AnyStep, BackendNext, ConsumerWorks, Enqueue, Save, CountIngested, Take, HandleCommits, ApplyOnce,
         SkipDuplicate, AttemptFails, Park, CommitAnswerLost, Count, Crash, StartApp, metricsVars, deliveryVars
    <3> QED  BY <3>1, <3>2, <3>3, <3>4 DEF RetriesBefore
  <2> QED  BY <2>1, <2>2
<1> QED  BY <1>4, <1>5, <1>6, <1>7 DEF ReadingsRight, InjectOn, PoisonId

LEMMA ContractInvStep ==
  ASSUME ContractInv, ContractStep
  PROVE  ContractInv'
<1>1. (AnyStep /\ OnlyInjectedFail) \/ UNCHANGED metricsVars
  BY ContractIsClient DEF ContractStep, CalmContractNext
<1>2. MetricsInv /\ MetricsTypeOK /\ uncounted \in Queues /\ counters \in [Counters -> Nat]
  BY DEF ContractInv, MetricsInv, MetricsTypeOK
<1>3. HandlerGoes /\ ReadingsGo
  BY <1>2, HandlerMoves DEF ContractInv
<1>4. MetricsInv'
  BY <1>1, <1>2, MetricsInvStep
<1>5. PaidForDeposits' /\ CreditedIsPaid' /\ HandOK'
  <2>1. CASE AnyStep
    BY <1>2, <2>1, PaidStep, CreditStep, HandStep DEF ContractInv
  <2>2. CASE UNCHANGED metricsVars
    BY <2>2 DEF ContractInv, metricsVars, deliveryVars, PaidPlayers, PaidForDeposits, CreditedIsPaid, CreditPending, HandOK
  <2> QED  BY <1>1, <2>1, <2>2
<1>6. ProbeTypeOK' /\ PaidAtMostOnce'
  BY <1>2, <1>3, PaidOnceStep DEF ContractInv, ProbeTypeOK, HandlerGoes, ReadingsGo
<1>7. RunPosted'
  BY <1>3, RunPostedStep DEF ContractInv
<1>8. OnlyPoisonParked'
  BY <1>1, ParkedStep DEF ContractInv
<1> QED
  BY <1>3, <1>4, <1>5, <1>6, <1>7, <1>8, RetriesCountedStep, ReadingsRightStep DEF ContractInv

\* Nothing is posted, nothing read.
LEMMA ContractInitInv == MetricsInit /\ ContractInit => ContractInv
<1> SUFFICES ASSUME MetricsInit, ContractInit PROVE ContractInv
  OBVIOUS
<1>1. MetricsInv
  BY MetricsInitInv
<1>2. PaidForDeposits
  BY DEF MetricsInit, DeliveryInit, PaidForDeposits, PaidPlayers
<1>3. CreditedIsPaid
  <2>1. CreditPending = 0
    BY CreditQueue DEF MetricsInit, CreditPending
  <2>2. Cardinality(PaidPlayers) \in Nat
    BY <1>1, <1>2, PaidPlayersFinite DEF MetricsInv
  <2> QED  BY <2>1, <2>2 DEF MetricsInit, CreditedIsPaid, Zeros, Counters
<1>4. ProbeTypeOK
  BY DEF ContractInit, ProbeTypeOK, EarlySteps, Zeros
<1>5. RunPosted /\ PaidAtMostOnce /\ HandOK
  BY MetricsAssumption, FailureQueues DEF MetricsInit, DeliveryInit, ContractInit, RunPosted, PaidAtMostOnce, HandOK
<1>6. OnlyPoisonParked /\ RetriesCounted
  BY DEF MetricsInit, DeliveryInit, ContractInit, OnlyPoisonParked, RetriesCounted, Zeros, Counters, LateSteps
<1>7. ReadingsRight
  BY DEF ContractInit, ReadingsRight, Reads, Zeros, Counters, LateSteps
<1> QED  BY <1>1, <1>2, <1>3, <1>4, <1>5, <1>6, <1>7 DEF ContractInv

\* VerdictsAreTrue holds always, while no attempt fails but the injected ones: a duplicate
\* is never taken for a second credit, and the poison event passes exactly when its letter
\* is seen, which is then parked and unpaid.
THEOREM ContractVerdictsAreTrue == CalmContractSpec => []VerdictsAreTrue
<1>1. ContractInv /\ [CalmContractNext]_<<metricsVars, contractVars>> => ContractInv'
  BY ContractInvStep DEF ContractStep
<1>2. ContractInv => VerdictsAreTrue
  <2> SUFFICES ASSUME ContractInv, kpc = "done", Quiet
               PROVE  /\ CreditOncePass
                      /\ InjectOn => (DlqPass <=> Change("dlq", "noPoison", "watch") >= 1)
                      /\ InjectOn /\ DlqPass => PoisonId \in parked \ applied
    BY DEF VerdictsAreTrue, Quiet, PoisonId
  <2>1. kpc \in LateSteps /\ ReadingsRight /\ ProbeTypeOK
    BY DEF LateSteps, ContractInv
  <2>2. /\ \A r \in Reads \cup {"watch"}, c \in Counters : seen[r][c] \in Nat
        /\ {"before", "after", "noPoison"} \subseteq Reads /\ {"credits", "retries", "dlq"} \subseteq Counters
    BY <2>1 DEF ProbeTypeOK, Reads, Counters
  <2>3. CreditOncePass
    <3>1. seen["after"]["credits"] - seen["before"]["credits"] <= 1
      BY <2>1, <2>2 DEF ReadingsRight
    <3> QED  BY <3>1 DEF CreditOncePass, Change, ContractInv, PaidAtMostOnce
  <2>4. ASSUME InjectOn, Change("dlq", "noPoison", "watch") >= 1
        PROVE  DlqPass /\ PoisonId \in parked \ applied
    <3>1. seen["watch"]["dlq"] > 0
      BY <2>2, <2>4 DEF Change
    <3>2. PoisonId \in parked /\ RetriesBefore + MaxAttempts - 1 <= seen["watch"]["retries"]
      BY <2>1, <2>4, <3>1 DEF ReadingsRight
    <3>3. Change("retries", "noPoison", "watch") >= MaxAttempts - 1
      <4>1. {seen["watch"]["retries"], seen["noPoison"]["retries"], MaxAttempts} \subseteq Nat
        BY <2>2, MetricsAssumption
      <4> QED  BY <3>2, <4>1 DEF Change, RetriesBefore
    <3>4. PoisonId \notin applied
      BY <2>4, ProbeEvents DEF ContractInv, HandOK
    <3> QED  BY <2>1, <2>4, <3>2, <3>3, <3>4 DEF DlqPass, ReadingsRight
  <2> QED  BY <2>3, <2>4 DEF DlqPass
<1> QED  BY <1>1, <1>2, ContractInitInv, PTL DEF CalmContractSpec, CalmContractNext

\* The contract probe too is a client of Delivery, whatever fails or crashes under it.
THEOREM ContractImplementsDelivery == ContractSpec => DeliverySpec
<1>1. MetricsInv /\ [ContractNext]_<<metricsVars, contractVars>> =>
        MetricsInv' /\ [DeliveryNext]_deliveryVars
  <2> SUFFICES ASSUME MetricsInv, [ContractNext]_<<metricsVars, contractVars>>
               PROVE  MetricsInv' /\ [DeliveryNext]_deliveryVars
    OBVIOUS
  <2>1. AnyStep \/ UNCHANGED metricsVars
    BY ContractIsClient
  <2> QED  BY <2>1, MetricsInvStep, AnyStepDelivers DEF MetricsInv, metricsVars
<1>2. MetricsInit => DeliveryInit
  BY DEF MetricsInit
<1> QED  BY <1>1, <1>2, MetricsInitInv, PTL DEF ContractSpec, DeliverySpec
=============================================================================
