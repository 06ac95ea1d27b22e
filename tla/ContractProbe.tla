--------------------------- MODULE ContractProbe ----------------------------
(***************************************************************************)
(* "Run contract" (contract-run.tsx, api/contract/route.ts): the BFF posts *)
(* one deposit twice, polls the player for a while, compares the credit    *)
(* counter with what it was, scores the shadow packs between two readings, *)
(* sends a poison event when failure injection is on, and asks for one     *)
(* brand's player with the key of the other.  Every verdict rests on       *)
(* counters that all traffic shares, read at moments the pipeline does not *)
(* know of.                                                                *)
(*                                                                         *)
(* The tools' 404s are constants of the code; the shadow rows are          *)
(* ShadowRule's.                                                           *)
(***************************************************************************)
EXTENDS Metrics

CONSTANTS
  ProbeEvent,  (* the event of each post                                    *)
  MaxPolls     (* polls of one loop, 6 and 8 in the code                    *)

Posts == {"first", "second", "poison", "iso"}
Reads == {"before", "after", "shadowBefore", "shadowAfter", "noPoison"}

\* Ids and players carry the time of the run, and "poison-" is what is injected on.
ASSUME ProbeAssumption ==
  /\ ProbeEvent \in [Posts -> Events \ PartnerEvents]
  /\ ProbeEvent["first"] = ProbeEvent["second"]
  /\ \A p \in Posts : ProbeEvent[p] \in Poison <=> (p = "poison" /\ Poison # {})
  /\ \A p \in Posts \ {"poison"} : PlayerOf[ProbeEvent[p]] # PlayerOf[ProbeEvent["poison"]]
  /\ MaxPolls \in Nat \ {0}

VARIABLES
  kpc,      \* the step the handler is at
  waiting,  \* its post is not answered yet
  polled,   \* polls of the present loop
  seen,     \* the counters each reading found
  balance,  \* the balance each loop of polls saw last
  runs      \* runs so far

contractVars == <<kpc, waiting, polled, seen, balance, runs>>

Ended == {"none", "done", "failed"}
InjectOn == Poison # {}
Player(post) == PlayerOf[ProbeEvent[post]]

\* Mutant: the poison event is sent before the counters are read.
ThenPoisonFirst ==
  [before |-> "first", first |-> "second", second |-> "poll", poll |-> "after",
   after |-> "shadowBefore", shadowBefore |-> "shadowAfter", shadowAfter |-> "poison",
   poison |-> "noPoison", noPoison |-> "watch", watch |-> "watchPlayer", watchPlayer |-> "iso",
   iso |-> "cross", cross |-> "done"]

\* The handler's order.
Then ==
  [before |-> "first", first |-> "second", second |-> "poll", poll |-> "after",
   after |-> "shadowBefore", shadowBefore |-> "shadowAfter", shadowAfter |-> "noPoison",
   noPoison |-> IF InjectOn THEN "poison" ELSE "iso",
   poison |-> "watch", watch |-> "watchPlayer", watchPlayer |-> "iso", iso |-> "cross", cross |-> "done"]

ContractInit ==
  /\ kpc = "none" /\ waiting = FALSE /\ polled = 0
  /\ seen = [r \in Reads \cup {"watch"} |-> Zeros]
  /\ balance = [loop \in {"poll", "watch"} |-> 0]
  /\ runs = 0

\* The button, not while a run is busy.
RunContract ==
  /\ kpc \in Ended /\ runs = 0
  /\ kpc' = "before" /\ runs' = 1
  /\ UNCHANGED <<waiting, polled, seen, balance>>

ReadMetrics ==
  /\ kpc \in Reads /\ up
  /\ seen' = [seen EXCEPT ![kpc] = counters]
  /\ kpc' = Then[kpc]
  /\ UNCHANGED <<waiting, polled, balance, runs, metricsVars>>

PostProbe ==
  /\ kpc \in Posts /\ ~waiting /\ waiting' = TRUE
  /\ Enqueue(ProbeEvent[kpc])
  /\ UNCHANGED <<kpc, polled, seen, balance, runs>>

ProbeAccepted ==
  /\ kpc \in Posts /\ waiting /\ waiting' = FALSE
  /\ CountIngested(ProbeEvent[kpc])
  /\ kpc' = Then[kpc]
  /\ UNCHANGED <<polled, seen, balance, runs>>

\* The player is read until a credit shows, at most MaxPolls times.
PollPlayer ==
  /\ kpc = "poll" /\ up
  /\ balance' = [balance EXCEPT !["poll"] = paid[Player("first")]]
  /\ IF balance'["poll"] > 0 \/ polled = MaxPolls
       THEN kpc' = Then[kpc] /\ polled' = 0
       ELSE polled' = polled + 1 /\ UNCHANGED kpc
  /\ UNCHANGED <<waiting, seen, runs, metricsVars>>

\* The counters, and by a call of its own the player, until the counters show a dead
\* letter.  (The reading of the player before the loop is always replaced.)
WatchCounters ==
  /\ kpc = "watch" /\ up
  /\ seen' = [seen EXCEPT !["watch"] = counters]
  /\ kpc' = Then[kpc]
  /\ UNCHANGED <<waiting, polled, balance, runs, metricsVars>>

WatchPlayer ==
  /\ kpc = "watchPlayer" /\ up
  /\ balance' = [balance EXCEPT !["watch"] = paid[Player("poison")]]
  /\ IF seen["watch"]["dlq"] > seen["noPoison"]["dlq"] \/ polled + 1 = MaxPolls
       THEN kpc' = Then[kpc] /\ polled' = 0
       ELSE kpc' = "watch" /\ polled' = polled + 1
  /\ UNCHANGED <<waiting, seen, runs, metricsVars>>

\* The other brand's key finds no player, whatever has been applied.
CrossRead ==
  /\ kpc = "cross" /\ up /\ kpc' = Then[kpc]
  /\ UNCHANGED <<waiting, polled, seen, balance, runs, metricsVars>>

ContractFails ==
  /\ kpc \notin Ended
  /\ IF waiting THEN ProbeEvent[kpc] \notin answering ELSE ~up
  /\ kpc' = "failed" /\ waiting' = FALSE /\ polled' = 0
  /\ UNCHANGED <<seen, balance, runs, metricsVars>>

ContractSteps ==
  \/ ReadMetrics \/ PostProbe \/ ProbeAccepted \/ PollPlayer
  \/ WatchCounters \/ WatchPlayer \/ CrossRead \/ ContractFails

ContractNext ==
  \/ RunContract /\ UNCHANGED metricsVars
  \/ ContractSteps
  \/ MetricsNext /\ UNCHANGED contractVars

ContractSpec == MetricsInit /\ ContractInit /\ [][ContractNext]_<<metricsVars, contractVars>>

\* What the verdicts take for granted of the worker: no attempt fails but the injected
\* ones, and those whose commit took effect.
OnlyInjectedFail == failed' > failed => hand \in Poison \cup applied'

CalmContractSpec ==
  /\ MetricsInit /\ ContractInit
  /\ [][ContractNext /\ OnlyInjectedFail]_<<metricsVars, contractVars>>

-----------------------------------------------------------------------------
Change(c, from, to) == seen[to][c] - seen[from][c]

\* credit_once.pass: both posts were answered 202, or the run had failed.
CreditOncePass == balance["poll"] <= WelcomeCredit /\ Change("credits", "before", "after") <= 1

\* dlq.pass, for the code's three attempts: two retries and a letter.
DlqPass ==
  /\ Change("retries", "noPoison", "watch") >= MaxAttempts - 1
  /\ Change("dlq", "noPoison", "watch") >= 1
  /\ balance["watch"] = 0

\* shadow.pass rests on the credit counter standing still.
ShadowPass == Change("credits", "shadowBefore", "shadowAfter") = 0

\* A run's verdicts are about the program, in a calm environment: nobody else posts, no
\* crash comes in between and no attempt fails but the injected ones (CalmContractSpec).
\* Then a duplicate is never taken for a second credit, and a poison event passes exactly
\* when its dead letter is written and seen in time, unpaid (contract/route.ts reads
\* counters the worker increases after its commit).
VerdictsAreTrue ==
  (kpc = "done" /\ restarts = 0 /\ accepted \cap PartnerEvents = {}) =>
    /\ CreditOncePass
    /\ InjectOn => (DlqPass <=> Change("dlq", "noPoison", "watch") >= 1)
    /\ InjectOn /\ DlqPass => ProbeEvent["poison"] \in parked \ applied

\* What the panel says of the shadow packs: no ledger write.
ShadowWritesNothing == kpc = "done" => ShadowPass
=============================================================================
