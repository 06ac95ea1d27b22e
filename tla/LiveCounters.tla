---------------------------- MODULE LiveCounters ----------------------------
(***************************************************************************)
(* The live counters of the architecture page (use-live-architecture.ts).  *)
(* A poll asks the BFF for /api/health and /api/metrics side by side, each *)
(* of which asks the Go process, and shows both answers.  One poll follows *)
(* the other in a loop; "Retry service" starts one beside the loop, so two *)
(* can be under way and answers arrive in any order.                       *)
(*                                                                         *)
(* Left out: latency, wording, the rule counters nothing glows for, and    *)
(* the pending gauge (Outbox), which keeps the outbox node glowing.        *)
(***************************************************************************)
EXTENDS Metrics

CONSTANT MaxGlitches  \* bound on answers of the BFF that do not arrive

ASSUME LiveAssumption == MaxGlitches \in Nat

VARIABLES
  mounted,   \* the page is open
  live,      \* the reading shown, {} before the first
  hot,       \* the nodes that glow
  polls,     \* for each poll whether it is under way and the answers it has, {} for none
  timer,     \* the loop waits for its timer
  glitches   \* answers lost so far

liveVars == <<mounted, live, hot, polls, timer, glitches>>

Pollers == {"loop", "retry"}
Readings == [ok : BOOLEAN, counters : [Counters -> Nat]]
NoPoll == [asked |-> FALSE, health |-> {}, metrics |-> {}]
Asked == [NoPoll EXCEPT !.asked = TRUE]

LiveInit ==
  /\ mounted = TRUE
  /\ live = {} /\ hot = {}
  /\ polls = [p \in Pollers |-> IF p = "loop" THEN Asked ELSE NoPoll]
  /\ timer = FALSE
  /\ glitches = 0

\* GET /api/health: the Go process's /readyz, or an error that says not ok.
HealthAnswers(p) ==
  /\ polls[p].asked /\ polls[p].health = {}
  /\ polls' = [polls EXCEPT ![p].health = {up}]
  /\ UNCHANGED <<mounted, live, hot, timer, glitches>>

\* GET /api/metrics: the counters, or an error, of which the page makes zeros.
MetricsAnswers(p) ==
  /\ polls[p].asked /\ polls[p].metrics = {}
  /\ polls' = [polls EXCEPT ![p].metrics = {IF up THEN counters ELSE Zeros}]
  /\ UNCHANGED <<mounted, live, hot, timer, glitches>>

\* The nodes on the path of a counter.
NodesOf ==
  [ingested  |-> {"partner", "hmac", "ingest", "outbox"},
   processed |-> {"kafka", "worker", "rules", "read"},
   credits   |-> {"ledger"},
   welcome   |-> {},
   retries   |-> {"kafka", "worker"},
   dlq       |-> {"dlq"}]

\* Mutant: a node that glowed goes on glowing.
GlowsOn(previous, next) ==
  hot \cup UNION {NodesOf[c] : c \in {d \in Counters : \E r \in previous : next[d] > r.counters[d]}}

Glow(previous, next) ==
  UNION {NodesOf[c] : c \in {d \in Counters : \E r \in previous : next[d] > r.counters[d]}}

\* The poll is over; the loop sets its timer, unless the page is gone.
EndPoll(p) ==
  /\ polls' = [polls EXCEPT ![p] = NoPoll]
  /\ timer' = (timer \/ (p = "loop" /\ mounted))

\* Both answers are there.
ShowReading(p) ==
  /\ EndPoll(p)
  /\ \E h \in polls[p].health, m \in polls[p].metrics :
       /\ live' = {[ok |-> h, counters |-> m]}
       /\ hot' = Glow(live, m)
  /\ UNCHANGED <<mounted, glitches>>

\* Mutant: a poll that fails ends the loop.
PollFailsForGood(p) ==
  /\ polls[p].asked /\ glitches < MaxGlitches
  /\ glitches' = glitches + 1
  /\ live' = {[r EXCEPT !.ok = FALSE] : r \in live}
  /\ polls' = [polls EXCEPT ![p] = NoPoll]
  /\ UNCHANGED <<mounted, hot, timer>>

\* The BFF does not answer: the old reading stays, as offline.
PollFails(p) ==
  /\ polls[p].asked /\ glitches < MaxGlitches
  /\ glitches' = glitches + 1
  /\ live' = {[r EXCEPT !.ok = FALSE] : r \in live}
  /\ EndPoll(p)
  /\ UNCHANGED <<mounted, hot>>

LoopAgain ==
  /\ timer /\ timer' = FALSE
  /\ polls' = [polls EXCEPT !["loop"] = Asked]
  /\ UNCHANGED <<mounted, live, hot, glitches>>

\* The offline banner's button; one such poll at a time here.
RetryService ==
  /\ mounted /\ \E r \in live : ~r.ok
  /\ ~polls["retry"].asked
  /\ polls' = [polls EXCEPT !["retry"] = Asked]
  /\ UNCHANGED <<mounted, live, hot, timer, glitches>>

\* The page is left: a poll under way still ends, and no other follows.
Leave ==
  /\ mounted /\ mounted' = FALSE
  /\ timer' = FALSE
  /\ UNCHANGED <<live, hot, polls, glitches>>

PollSteps(p) == HealthAnswers(p) \/ MetricsAnswers(p) \/ ShowReading(p)
PageSteps == LoopAgain \/ (\E p \in Pollers : PollSteps(p) \/ PollFails(p)) \/ RetryService \/ Leave

LiveNext ==
  \/ PageSteps /\ UNCHANGED metricsVars
  \/ MetricsNext /\ UNCHANGED liveVars

LiveSpec == MetricsInit /\ LiveInit /\ [][LiveNext]_<<metricsVars, liveVars>>

\* Requests are answered and the timer fires.
LiveFairness == WF_liveVars(LoopAgain) /\ \A p \in Pollers : WF_liveVars(PollSteps(p))

-----------------------------------------------------------------------------
\* A page that stays open shows the truth in the end: once partners, crashes and lost
\* answers have stopped, the counters are the server's, it is online, and nothing glows,
\* whatever order the answers of overlapping polls came in (useLiveArchitecture).
LiveSettles ==
  <>(~mounted) \/ <>[](hot = {} /\ live = {[ok |-> TRUE, counters |-> counters]})
=============================================================================
