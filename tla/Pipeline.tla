------------------------------ MODULE Pipeline ------------------------------
(***************************************************************************)
(* The program as app.Run wires it: ingest and outbox publisher, the topic *)
(* and the consumer with its worker, in one process over one database.     *)
(* When the consumer's Run returns an error, or anything else goes wrong   *)
(* for good, the whole process exits and is started again.                 *)
(***************************************************************************)
EXTENDS Outbox, Consumer

CONSTANT App  \* the one process

ASSUME AppAssumption == Publishers = {App}

VARIABLE redriven  \* dead-lettered events a human sent again, answered 202

ingestVars == <<status, rowId, acked>>
pipelineVars == <<playerRows, ingestVars, publisherVars, topic, faults,
                  dbVars, now, consumerVars, redriven>>

PipelineTypeOK == OutboxTypeOK /\ ConsumerTypeOK /\ redriven \subseteq Events

PipelineInit ==
  /\ OutboxInit
  /\ WorkerInit
  /\ ConsumerLoopInit
  /\ redriven = {}

\* The variables of the other half.
OutboxIdle == UNCHANGED <<ingestVars, publisherVars>>
ConsumerIdle == UNCHANGED <<dbVars, now, consumerVars>>

Serving == pc[App] # "down"

\* POST /v1/events while the process serves.
Post(e) ==
  /\ Serving
  /\ Accept(e)
  /\ ConsumerIdle
  /\ UNCHANGED redriven

\* redriveDeadLetter of the console: the same event, signed and posted again.
Redrive(e) ==
  /\ Serving
  /\ e \in dead
  /\ AcceptDuplicate(e)
  /\ redriven' = redriven \cup {e}
  /\ ConsumerIdle

PublisherRuns ==
  /\ \E w \in Publishers : FlushStep(w)
  /\ ConsumerIdle
  /\ UNCHANGED redriven

PublisherErrs ==
  /\ \E w \in Publishers : FlushFault(w)
  /\ ConsumerIdle
  /\ UNCHANGED redriven

ConsumerRuns == ConsumerStep /\ OutboxIdle /\ UNCHANGED redriven

ConsumerErrs == ConsumerFault /\ OutboxIdle /\ UNCHANGED redriven

\* A crash at any moment takes both loops down.
Crash ==
  /\ StopPublisher(App)
  /\ StopConsumer
  /\ Fault
  /\ UNCHANGED <<redriven>>

\* app.Run returns the consumer's error: the process follows its consumer.
Exit ==
  /\ cpc = "down"
  /\ StopPublisher(App)
  /\ UNCHANGED <<faults, dbVars, now, consumerVars, redriven>>

Start ==
  /\ StartPublisher(App)
  /\ StartConsumer
  /\ UNCHANGED <<redriven>>

ClockTicks ==
  /\ Tick
  /\ OutboxIdle
  /\ UNCHANGED <<topic, faults, consumerVars, redriven>>

PipelineNext ==
  \/ \E e \in Events : Post(e) \/ Redrive(e)
  \/ PublisherRuns
  \/ PublisherErrs
  \/ ConsumerRuns
  \/ ConsumerErrs
  \/ Crash
  \/ Exit
  \/ Start
  \/ ClockTicks

PipelineSpec == PipelineInit /\ [][PipelineNext]_pipelineVars

\* Both goroutines keep being scheduled; a process whose consumer failed exits and
\* an exited process is started again by its supervisor.
PipelineFairSpec ==
  /\ PipelineSpec
  /\ WF_pipelineVars(PublisherRuns)
  /\ WF_pipelineVars(ConsumerRuns)
  /\ WF_pipelineVars(Exit)
  /\ WF_pipelineVars(Start)

-----------------------------------------------------------------------------
\* Where an event that got 202 can be: its row is still to be sent, a message the
\* consumer has not committed carries it, or it is applied or dead-lettered.
\* The one exception is a message whose dead letter could not be written
\* (EnqueueEvent to Handle, through both loops and every crash).
AckedIsAccountedFor ==
  \A e \in acked :
    \/ status[e] \in {"pending", "publishing"}
    \/ Settled(e)
    \/ \E i \in 1..Len(topic) : topic[i] = e /\ (i > committed \/ i \in skipped)

\* Only accepted events have any effect: marks, entries and dead letters are of
\* rows of the outbox, and the player of a saved event can be read.
OnlySavedTakesEffect ==
  /\ processed \cup dead \subseteq Rows
  /\ {PlayerOf[e] : e \in Rows} \subseteq playerRows

\* The program implements Delivery: rows are accepted events, marks are applied
\* ones, dead letters parked ones and balances what was paid.
D == INSTANCE Delivery WITH accepted <- Rows, applied <- processed,
                            parked <- dead, paid <- balance
ImplementsDelivery == D!DeliverySpec

\* Every saved event is applied or dead-lettered in the end, unless its dead letter
\* could not be written.
SavedIsSettled ==
  \A e \in Events :
    (e \in Rows) ~> (Settled(e) \/ \E i \in skipped : topic[i] = e)

\* What the docs say of a redrive: posting a dead-lettered event again runs it
\* again, so it is applied once the cause of the failures is gone.
RedriveIsApplied == \A e \in Events : (e \in redriven) ~> (e \in processed)
=============================================================================
