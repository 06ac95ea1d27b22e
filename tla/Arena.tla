------------------------------- MODULE Arena --------------------------------
(***************************************************************************)
(* The arena's demo (pulse-theater.tsx, api/demo/route.ts).  "Ignite"      *)
(* starts a run: the page tells its story beat by beat while the BFF reads *)
(* the counters, posts the run's events one after the other, waits a fixed *)
(* 3.2 seconds for the worker, and then reads both players and the         *)
(* counters side by side.  Other visitors and partners post at the same    *)
(* time; so does a run that goes on in the BFF after its request got lost, *)
(* whose further posts are taken for a partner's.                          *)
(***************************************************************************)
EXTENDS ApiHealth

CONSTANTS
  RunEvents,  (* a sequence: for each run the events it posts, in order     *)
  Lanes       (* the two players the arena shows                            *)

ASSUME ArenaAssumption ==
  /\ \A r \in DOMAIN RunEvents : RunEvents[r] \in Seq(Events \ PartnerEvents) \ {<<>>}
  /\ Lanes \subseteq Players

VARIABLES
  beat,  \* where the story is
  busy,  \* a run is on, Ignite is disabled
  run,   \* the last run started, 0 for none
  demo   \* what the BFF does for the run, and what it has read

arenaVars == <<beat, busy, run, demo>>

Runs == DOMAIN RunEvents
NotBegun == [at |-> "none", posted |-> 0, todo |-> {}, tagged |-> {},
             before |-> Zeros, after |-> Zeros]

ArenaInit ==
  /\ beat = "idle" /\ busy = FALSE
  /\ run = 0
  /\ demo = NotBegun

-----------------------------------------------------------------------------
\* The handler of POST /api/demo.
At(step) == demo.at = step
Goto(step) == demo' = [demo EXCEPT !.at = step]
NextEvent == RunEvents[run][demo.posted + 1]

ReadBefore ==
  /\ At("before") /\ up
  /\ demo' = [demo EXCEPT !.before = counters, !.at = "post"]
  /\ UNCHANGED metricsVars

PostEvent == At("post") /\ Goto("answer") /\ Enqueue(NextEvent)

\* Mutant: the next post does not wait for the answer of the last.
EventNotAwaited ==
  /\ At("answer")
  /\ demo' = [demo EXCEPT !.posted = @ + 1,
                          !.at = IF demo.posted + 1 = Len(RunEvents[run]) THEN "wait" ELSE "post"]
  /\ UNCHANGED metricsVars

\* The 202 arrives; after the last one the BFF waits, however long the worker takes.
EventAccepted ==
  /\ At("answer") /\ CountIngested(NextEvent)
  /\ demo' = [demo EXCEPT !.posted = @ + 1,
                          !.at = IF demo.posted + 1 = Len(RunEvents[run]) THEN "wait" ELSE "post"]

\* 3.2 seconds later: two players and the counters are asked for at once.
WaitOver ==
  /\ At("wait")
  /\ demo' = [demo EXCEPT !.at = "read", !.todo = Lanes \cup {"metrics"}]
  /\ UNCHANGED metricsVars

\* One of them answers; the last answer completes the response.  A player has the
\* welcome tag when the credit is paid (one transaction).
ReadAnswers(x) ==
  /\ At("read") /\ x \in demo.todo /\ up
  /\ demo' = [demo EXCEPT
       !.todo = @ \ {x},
       !.at = IF demo.todo = {x} THEN "done" ELSE "read",
       !.after = IF x = "metrics" THEN counters ELSE @,
       !.tagged = IF x # "metrics" /\ paid[x] > 0 THEN @ \cup {x} ELSE @]
  /\ UNCHANGED metricsVars

\* A call finds the Go process down, or loses its answer in a crash: 502.
RouteFails ==
  /\ \/ demo.at \in {"before", "post", "read"} /\ ~up
     \/ At("answer") /\ NextEvent \notin answering
  /\ demo' = [NotBegun EXCEPT !.at = "failed"]
  /\ UNCHANGED metricsVars

RouteSteps ==
  \/ ReadBefore \/ PostEvent \/ EventAccepted \/ WaitOver \/ RouteFails
  \/ \E x \in demo.todo : ReadAnswers(x)

\* The POST of a run whose request got lost is counted all the same.
StrayAnswer ==
  \E e \in answering \ PartnerEvents : ~(At("answer") /\ e = NextEvent) /\ CountIngested(e)

-----------------------------------------------------------------------------
\* runDemo, by the button or by the error banner's "Retry demo".
IgniteEnabled == ~busy /\ online # "no"

Ignite ==
  /\ IgniteEnabled \/ (~busy /\ beat = "error")
  /\ run + 1 \in Runs /\ run' = run + 1
  /\ busy' = TRUE /\ beat' = "sign"
  /\ demo' = NotBegun
  /\ UNCHANGED <<metricsVars, healthVars>>

NextBeat(from, to) == beat = from /\ beat' = to

SendRequest ==
  /\ NextBeat("sign", "ingest")
  /\ Goto("before")
  /\ UNCHANGED <<busy, run>>

StreamBeat == NextBeat("ingest", "stream") /\ UNCHANGED <<busy, run, demo>>

\* The response is there: Acme's lane first, then Nova's, then the pay-off.
AcmeBeat == NextBeat("stream", "acme") /\ At("done") /\ UNCHANGED <<busy, run, demo>>
NovaBeat == NextBeat("acme", "nova") /\ UNCHANGED <<busy, run, demo>>
PayoffBeat == NextBeat("nova", "payoff") /\ busy' = FALSE /\ UNCHANGED <<run, demo>>

Beats == SendRequest \/ StreamBeat \/ AcmeBeat \/ NovaBeat \/ PayoffBeat

\* Mutant: Ignite stays disabled after an error.
RunFailsBusy ==
  /\ NextBeat("stream", "error") /\ At("failed")
  /\ RefreshToo
  /\ UNCHANGED <<busy, run, demo, online, unanswered>>

\* The BFF says 502, or its answer is lost and the run goes on without the page.
RunFails ==
  /\ NextBeat("stream", "error")
  /\ (At("failed") /\ UNCHANGED unanswered) \/ Lose
  /\ busy' = FALSE /\ demo' = NotBegun
  /\ RefreshToo
  /\ UNCHANGED <<run, online>>

ArenaNext ==
  \/ Ignite
  \/ Beats /\ UNCHANGED <<metricsVars, healthVars>>
  \/ RunFails /\ UNCHANGED metricsVars
  \/ RouteSteps /\ UNCHANGED <<beat, busy, run, healthVars>>
  \/ StrayAnswer /\ UNCHANGED <<arenaVars, healthVars>>
  \/ HealthNext /\ UNCHANGED <<metricsVars, arenaVars>>
  \/ MetricsNext /\ UNCHANGED <<arenaVars, healthVars>>

ArenaSpec == MetricsInit /\ HealthInit /\ ArenaInit /\ [][ArenaNext]_<<metricsVars, healthVars, arenaVars>>

\* The page's timers fire, and the BFF goes on with a request it has.
ArenaFairness ==
  WF_arenaVars(Beats \/ (At("failed") /\ RunFails)) /\ WF_demo(RouteSteps)

-----------------------------------------------------------------------------
\* metricsDelta of the run shown.
Delta(c) == demo.after[c] - demo.before[c]
Shown == beat \in {"acme", "nova", "payoff"}
WelcomeAlready == Delta("welcome") = 0 /\ demo.tagged # {}

\* "This run" accounts for itself: until a restart its Ingested counts at least the
\* run's own events, whoever else posts, and its Credits never claim more than the
\* players who were paid (server.go counts before the 202, metricsDelta).
DeltaCoversRun ==
  (Shown /\ restarts = 0) =>
    /\ Delta("ingested") >= Len(RunEvents[run])
    /\ Delta("credits") <= Cardinality({p \in Players : paid[p] > 0})

\* The visitor can always ignite again in the end, with the service back: no run is
\* busy for ever and no stale probe keeps the page offline (runDemo's finally, the
\* interval of useApiHealth).
IgniteComesBack == []<>IgniteEnabled

\* What the pay-off says of a run whose welcome was not credited before: "Credit-once
\* 100 on both tenants."
PayoffMeansPaid ==
  (beat = "payoff" /\ ~WelcomeAlready) =>
    \A k \in DOMAIN RunEvents[run] : paid[PlayerOf[RunEvents[run][k]]] = WelcomeCredit
=============================================================================
