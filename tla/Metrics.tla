------------------------------ MODULE Metrics -------------------------------
(***************************************************************************)
(* The counters of GET /metrics (internal/metrics), which the console and  *)
(* the demo script read, next to what Delivery says has really happened.   *)
(* A counter is increased after the commit it counts, by the process that  *)
(* did the work, and lives in that process: a crash loses what was not yet *)
(* counted and sets every counter back to zero.                            *)
(*                                                                         *)
(* The outbox and the topic are Pipeline's matter, which implements        *)
(* Delivery: here the consumer takes up the events accepted in any order,  *)
(* and any of them again.                                                  *)
(***************************************************************************)
EXTENDS Delivery, Sequences, FiniteSets

CONSTANTS
  Poison,       (* events that the worker's failure injection hits          *)
  MaxAttempts,  (* attempts before a dead letter, 3 in the code             *)
  NoEvent,      (* the consumer has no event                                *)
  PartnerEvents,(* events partners post                                     *)
  MaxIngested,  (* bound on partners' POSTs, by what one process has counted*)
  MaxRestarts   (* bound on crashes                                         *)

ASSUME MetricsAssumption ==
  /\ IsFiniteSet(Events) /\ NoEvent \notin Events /\ PartnerEvents \subseteq Events
  /\ MaxAttempts \in Nat \ {0} /\ {MaxIngested, MaxRestarts} \subseteq Nat
  /\ PlayerOf \in [Events -> Players] /\ WelcomeCredit \in Nat \ {0}

VARIABLES
  up,         \* the Go process serves
  restarts,   \* crashes so far
  counters,   \* /metrics, without labels; welcome is rule_hits_total{rule="welcome_offer"}
  answering,  \* events of POSTs that are in the outbox, not yet counted and answered
  hand,       \* the event the consumer has
  failed,     \* its failed attempts
  uncounted   \* the counters the consumer is about to increase, in the code's order

metricsVars == <<deliveryVars, up, restarts, counters, answering, hand, failed, uncounted>>
countingVars == <<answering, hand, failed, uncounted>>

Counters == {"ingested", "processed", "credits", "welcome", "retries", "dlq"}
Zeros == [c \in Counters |-> 0]
Idle == hand' = NoEvent /\ failed' = 0 /\ uncounted' = <<>>

MetricsTypeOK ==
  /\ accepted \subseteq Events /\ applied \subseteq accepted /\ parked \subseteq accepted
  /\ up \in BOOLEAN /\ restarts \in 0..MaxRestarts
  /\ counters \in [Counters -> Nat]
  /\ answering \subseteq accepted
  /\ hand \in accepted \cup {NoEvent}
  /\ failed \in 0..MaxAttempts
  /\ uncounted \in Seq(Counters)

MetricsInit ==
  /\ DeliveryInit
  /\ up = TRUE /\ restarts = 0
  /\ counters = Zeros
  /\ answering = {}
  /\ hand = NoEvent /\ failed = 0 /\ uncounted = <<>>

-----------------------------------------------------------------------------
\* EnqueueEvent: a row is saved, or the event already has one; both are answered alike.
Enqueue(e) ==
  /\ up /\ e \notin answering
  /\ answering' = answering \cup {e}
  /\ Save(e)
  /\ UNCHANGED <<up, restarts, counters, hand, failed, uncounted>>

\* Mutant: the answer leaves before the event is counted.
AnswerUncounted(e) ==
  /\ e \in answering /\ answering' = answering \ {e}
  /\ UNCHANGED <<deliveryVars, up, restarts, counters, hand, failed, uncounted>>

\* EventsIngested.Inc, then the 202.
CountIngested(e) ==
  /\ e \in answering /\ answering' = answering \ {e}
  /\ counters' = [counters EXCEPT !["ingested"] = @ + 1]
  /\ UNCHANGED <<deliveryVars, up, restarts, hand, failed, uncounted>>

\* A message reaches the consumer, for the first time or again.  It is dead-lettered
\* at most once here.
Take(e) ==
  /\ up /\ hand = NoEvent /\ e \in accepted \ parked
  /\ hand' = e
  /\ UNCHANGED <<deliveryVars, up, restarts, counters, answering, failed, uncounted>>

Working == up /\ hand # NoEvent /\ uncounted = <<>>

\* Worker.Handle commits; what it will count.
HandleCommits ==
  /\ Working /\ hand \notin applied \cup Poison
  /\ ApplyOnce(hand)
  /\ uncounted' = IF FirstDeposit(hand) THEN <<"credits", "welcome", "processed">>
                                        ELSE <<"processed">>
  /\ UNCHANGED <<up, restarts, counters, answering, hand, failed>>

\* Mutant: a duplicate is counted as processed.
SkipCounts ==
  /\ Working /\ hand \in applied
  /\ uncounted' = <<"processed">>
  /\ UNCHANGED <<deliveryVars, up, restarts, counters, answering, hand, failed>>

\* Handle returns nil for a duplicate and counts nothing.
SkipDuplicate ==
  /\ Working /\ hand \in applied
  /\ Idle
  /\ UNCHANGED <<deliveryVars, up, restarts, counters, answering>>

\* An attempt fails: it is repeated, or the event is dead-lettered.
AttemptFails ==
  /\ Working /\ hand \notin applied
  /\ failed' = failed + 1
  /\ IF failed' < MaxAttempts
       THEN uncounted' = <<"retries">> /\ UNCHANGED deliveryVars
       ELSE uncounted' = <<"dlq">> /\ Park(hand)
  /\ UNCHANGED <<up, restarts, counters, answering, hand>>

\* The commit takes effect and its answer is lost: the attempt that follows finds a
\* duplicate.  (On the last attempt the event is dead-lettered as well: see Consumer.)
CommitAnswerLost ==
  /\ Working /\ hand \notin applied \cup Poison
  /\ failed + 1 < MaxAttempts
  /\ ApplyOnce(hand)
  /\ failed' = failed + 1 /\ uncounted' = <<"retries">>
  /\ UNCHANGED <<up, restarts, counters, answering, hand>>

\* The next counter is increased; after the last one of a finished event the consumer
\* commits its offset and is free.
Count ==
  /\ uncounted # <<>>
  /\ counters' = [counters EXCEPT ![Head(uncounted)] = @ + 1]
  /\ IF Tail(uncounted) = <<>> /\ hand \in applied \cup parked
       THEN Idle
       ELSE uncounted' = Tail(uncounted) /\ UNCHANGED <<hand, failed>>
  /\ UNCHANGED <<deliveryVars, up, restarts, answering>>

\* The process dies, with its counters, its requests and its message.
Crash ==
  /\ up /\ restarts < MaxRestarts
  /\ up' = FALSE /\ restarts' = restarts + 1
  /\ counters' = Zeros /\ answering' = {} /\ Idle
  /\ UNCHANGED deliveryVars

StartApp == ~up /\ up' = TRUE /\ UNCHANGED <<deliveryVars, restarts, counters, countingVars>>

ConsumerWorks == HandleCommits \/ SkipDuplicate \/ AttemptFails \/ Count
BackendNext ==
  \/ \E e \in Events : Take(e)
  \/ ConsumerWorks \/ CommitAnswerLost
  \/ Crash \/ StartApp

\* Partners post their events at any time, any of them again.
PartnerPosts(e) == counters["ingested"] + Cardinality(answering) < MaxIngested /\ Enqueue(e)

MetricsNext ==
  \/ BackendNext
  \/ \E e \in PartnerEvents : PartnerPosts(e) \/ CountIngested(e)

MetricsSpec == MetricsInit /\ [][MetricsNext]_metricsVars

\* The process is started again and goes on with what it has begun and not finished.
BackendFairness == WF_metricsVars(StartApp \/ ConsumerWorks)

-----------------------------------------------------------------------------
\* The lag the console shows, and the demo script waits for.
Lag(c) == c["ingested"] - c["processed"]

\* Until a restart, the lag hides no work: there are never more accepted events without
\* their effect than ingested - processed, apart from those whose POST is not answered
\* (server.go and worker.go count after the commit; duplicates of a POST are counted,
\* duplicates of a message are not).
LagHidesNothing ==
  restarts = 0 => Cardinality(accepted \ applied) <= Lag(counters) + Cardinality(answering)

\* What the console says of a lag, of a process that has not failed at anything: these
\* events are not yet processed.
LagIsBacklog ==
  (restarts = 0 /\ counters["retries"] = 0 /\ Lag(counters) > 0 /\ uncounted = <<>>) =>
    accepted \ applied # {}
=============================================================================
