----------------------------- MODULE ApiHealth ------------------------------
(***************************************************************************)
(* Whether the arena takes the Go process for online (use-api-health.ts,   *)
(* api/health/route.ts).  An interval starts a probe every 15 seconds,     *)
(* whether the last one is answered or not, "Retry service" and a failed   *)
(* demo start one too, and each shows its answer when it gets round to it: *)
(* an old answer may be shown after a newer one.                           *)
(***************************************************************************)
EXTENDS Metrics

CONSTANTS
  Probes,         (* probes that can be under way at once                   *)
  MaxUnanswered   (* bound on requests of the browser that get no answer    *)

ASSUME HealthAssumption == MaxUnanswered \in Nat

VARIABLES
  online,     \* what the page knows: "unknown", "yes" or "no"
  probes,     \* the state of each probe
  unanswered  \* requests lost so far

healthVars == <<online, probes, unanswered>>

HealthInit ==
  /\ online = "unknown"
  /\ probes = [p \in Probes |-> "idle"]
  /\ unanswered = 0

Lose == unanswered < MaxUnanswered /\ unanswered' = unanswered + 1

\* The interval's tick, or the offline banner's button.
Refresh ==
  /\ \E p \in Probes : probes[p] = "idle" /\ probes' = [probes EXCEPT ![p] = "asked"]
  /\ UNCHANGED <<online, unanswered>>

\* What a failed demo does: a probe more, if there is room here for one.
RefreshToo ==
  IF \A p \in Probes : probes[p] # "idle"
    THEN UNCHANGED probes
    ELSE \E p \in Probes : probes[p] = "idle" /\ probes' = [probes EXCEPT ![p] = "asked"]

\* The BFF asks /readyz of the Go process.
ProbeAnswers(p) ==
  /\ probes[p] = "asked"
  /\ probes' = [probes EXCEPT ![p] = IF up THEN "yes" ELSE "no"]
  /\ UNCHANGED <<online, unanswered>>

ShowHealth(p) ==
  /\ probes[p] \in {"yes", "no"}
  /\ online' = probes[p]
  /\ probes' = [probes EXCEPT ![p] = "idle"]
  /\ UNCHANGED unanswered

ProbeFails(p) ==
  /\ probes[p] = "asked" /\ Lose
  /\ online' = "no"
  /\ probes' = [probes EXCEPT ![p] = "idle"]

ProbeSteps(p) == ProbeAnswers(p) \/ ShowHealth(p)
HealthNext == Refresh \/ \E p \in Probes : ProbeSteps(p) \/ ProbeFails(p)

HealthFairness == WF_healthVars(Refresh) /\ \A p \in Probes : WF_healthVars(ProbeSteps(p))
=============================================================================
