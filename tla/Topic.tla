------------------------------- MODULE Topic --------------------------------
(***************************************************************************)
(* The Kafka topic player.events, the log between the outbox publisher and *)
(* the consumer, and the budget of faults the environment (database,       *)
(* broker, crashes) may inject into a behaviour.                           *)
(***************************************************************************)
EXTENDS Domain

CONSTANTS
  Unreadable,  (* a message that is not the JSON of an event                *)
  MaxFaults    (* bound on the faults of one behaviour                      *)

ASSUME TopicAssumption == Unreadable \notin Events /\ MaxFaults \in Nat

VARIABLES
  topic,  \* messages of the one partition, appended to and never truncated
  faults  \* faults so far

Messages == Events \cup {Unreadable}

TopicTypeOK == topic \in Seq(Messages) /\ faults \in 0..MaxFaults

TopicInit == topic = <<>> /\ faults = 0

\* Each error path of the environment costs one fault.
Fault ==
  /\ faults < MaxFaults
  /\ faults' = faults + 1

\* Some message carries e.
InTopic(e) == \E i \in 1..Len(topic) : topic[i] = e

\* Producer.Publish: the broker appends the message.
Publish(e) == topic' = Append(topic, e)
=============================================================================
