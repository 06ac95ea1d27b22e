----------------------------- MODULE MCConsole ------------------------------
(***************************************************************************)
(* The console's pages, and the handler of the list of dead letters.  Each *)
(* page has a process of the browser and BFF handlers of its own, and they *)
(* meet only in the Go process's counters and in the DLQ topic: a          *)
(* behaviour is about one of them, next to all the traffic it can meet     *)
(* there, so that their states add up instead of multiplying.              *)
(***************************************************************************)
EXTENDS LiveCounters, Arena, ContractProbe, ShadowRule, DlqInspect

CONSTANTS d1, d2, d3, d4, b1, x1, p1, p2, p3, acme, nova

VARIABLE page  \* what a behaviour is about

MCEvents == {d1, d2, d3, d4, b1, x1}
MCPlayers == {p1, p2, p3}
MCPlayerOf == [e \in MCEvents |-> IF e = d2 THEN p2 ELSE IF e = x1 THEN p3 ELSE p1]
MCTypeOf == [e \in MCEvents |-> IF e = b1 THEN "bet_placed" ELSE "deposit"]
MCRunEvents == <<<<d1, d2>>, <<d4>>>>
MCProbeEvent == [first |-> d1, second |-> d1, poison |-> x1, iso |-> d2]
MCBrandRank == [b \in {acme, nova} |-> IF b = acme THEN 1 ELSE 2]

pages == <<liveVars, healthVars, arenaVars, contractVars, shadowVars, listVars, inspectVars>>
allVars == <<metricsVars, pages, page>>

MCInit ==
  /\ page \in {"counters", "arena", "status", "contract", "shadow", "list", "letters"}
  /\ MetricsInit /\ LiveInit /\ HealthInit /\ ContractInit /\ ShadowInit /\ ListInit /\ InspectInit
  /\ beat = "idle" /\ busy = FALSE /\ demo = NotBegun
  /\ run = IF page = "status" THEN 1 ELSE 0

\* The architecture page: one bet, posted once, in a process that may crash; no
\* attempt fails.  The page is left, if it is, before anything fails, and then nothing
\* happens but the end of its polls.
CountersPage ==
  /\ mounted \/ UNCHANGED metricsVars
  /\ LiveNext
  /\ mounted' \/ (restarts' = 0 /\ glitches' = 0)
  /\ failed' = 0
  /\ accepted' \subseteq {b1} /\ counters'["ingested"] + Cardinality(answering') <= 1
  /\ UNCHANGED <<healthVars, arenaVars, contractVars, shadowVars, listVars, inspectVars>>

\* The arena: a run of two deposits, next to a partner's one post, in a process that stays
\* up; each message is delivered once, and the probes of its health are StatusPage's.
ArenaPage ==
  /\ UNCHANGED healthVars
  /\ ArenaNext
  /\ failed' = 0 /\ (hand' = hand \/ hand' \notin applied)
  /\ d3 \in accepted => answering' \cap PartnerEvents \subseteq answering
  /\ up' /\ run' <= 1 /\ b1 \notin accepted'
  /\ UNCHANGED <<liveVars, contractVars, shadowVars, listVars, inspectVars>>

\* The arena again, for its Ignite button: a short run, two probes that may overtake each
\* other, a crash, a lost request.  No beat and no probe waits for the consumer, so it need
\* not work, and does not.
StatusPage ==
  /\ ArenaNext
  /\ hand' = NoEvent
  /\ accepted' \cap PartnerEvents = {}
  /\ UNCHANGED <<liveVars, contractVars, shadowVars, listVars, inspectVars>>

\* Run contract, with nobody else, until its end: nothing fails but the injected attempts,
\* commits whose answer is lost, and in the end the process.
ContractPage ==
  /\ ContractNext
  /\ kpc \notin {"done", "failed"}
  /\ accepted' \cap PartnerEvents = {}
  /\ OnlyInjectedFail
  /\ restarts = 1 => kpc' = "failed"
  /\ UNCHANGED <<liveVars, healthVars, arenaVars, shadowVars, listVars, inspectVars>>

ShadowPage ==
  ShadowNext /\ UNCHANGED <<metricsVars, liveVars, healthVars, arenaVars, contractVars, listVars, inspectVars>>

\* The event ids of the letters alternate.
InTurn == \A i \in DOMAIN letters' : letters'[i].event = 1 + (i % 2)

ListHandler ==
  /\ ListNext /\ InTurn
  /\ UNCHANGED <<metricsVars, liveVars, healthVars, arenaVars, contractVars, shadowVars, inspectVars>>

\* The inspector; the consumer that writes Acme's letters has the faster clock.
LettersPage ==
  /\ InspectNext /\ InTurn
  /\ \A i \in DOMAIN letters' : letters'[i].brand = acme => letters'[i].failedAt = i - 1
  /\ UNCHANGED <<metricsVars, liveVars, healthVars, arenaVars, contractVars, shadowVars>>

MCNext ==
  /\ UNCHANGED page
  /\ \/ page = "counters" /\ CountersPage
     \/ page = "arena" /\ ArenaPage
     \/ page = "status" /\ StatusPage
     \/ page = "contract" /\ ContractPage
     \/ page = "shadow" /\ ShadowPage
     \/ page = "list" /\ ListHandler
     \/ page = "letters" /\ LettersPage

\* The fairness of the pages' modules, each for the behaviours it is about.
MCSpec ==
  /\ MCInit /\ [][MCNext]_allVars
  /\ WF_metricsVars(page = "counters" /\ (StartApp \/ ConsumerWorks))
  /\ WF_metricsVars(page = "status" /\ StartApp)
  /\ WF_liveVars(page = "counters" /\ LoopAgain)
  /\ \A p \in Pollers : WF_liveVars(page = "counters" /\ PollSteps(p))
  /\ WF_healthVars(page = "status" /\ Refresh)
  /\ \A p \in Probes : WF_healthVars(page = "status" /\ ProbeSteps(p))
  /\ WF_arenaVars(page = "status" /\ (Beats \/ (At("failed") /\ RunFails)))
  /\ WF_demo(page = "status" /\ RouteSteps)
  /\ WF_listVars(page = "list" /\ HandlerSteps)

\* LiveSettles, IgniteComesBack and RequestIsAnswered, of the behaviours that are about
\* the live counters, the arena's button and the list's handler.
CountersSettle == page = "counters" => LiveSettles
ArenaComesBack == page = "status" => IgniteComesBack
EveryListEnds == page = "list" => RequestIsAnswered
=============================================================================
