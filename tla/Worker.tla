------------------------------- MODULE Worker -------------------------------
(***************************************************************************)
(* The worker (internal/worker) and the tables its one transaction writes: *)
(* processed_events, player_state, ledger_entries and balances.  The topic *)
(* hands it events at least once and in any order; Handle is one committed *)
(* transaction.  A transaction that fails rolls everything back, so it is  *)
(* no step here; Consumer adds when an attempt is made and how it ends.    *)
(***************************************************************************)
EXTENDS Rules, FiniteSetsExt

CONSTANTS
  Window,  (* ticks in the velocity window (one minute in the code)         *)
  MaxTime  (* bound on the clock                                            *)

ASSUME WorkerAssumption == Window \in Nat /\ MaxTime \in Nat

VARIABLES
  processed,    \* keys of processed_events
  processedAt,  \* their processed_at (0 for an event without a row)
  pstate,       \* player_state row of each player
  ledger,       \* ledger_entries
  balance,      \* balances.amount of each player
  now           \* the clock, in ticks

dbVars == <<processed, processedAt, pstate, ledger, balance>>
workerVars == <<playerRows, dbVars, now>>

Entries == [event : Events, player : Players, amount : Int]

WorkerTypeOK ==
  /\ playerRows \subseteq Players
  /\ processed \subseteq Events
  /\ processedAt \in [Events -> 0..MaxTime]
  /\ pstate \in [Players -> PlayerState]
  /\ ledger \subseteq Entries
  /\ balance \in [Players -> Int]
  /\ now \in 0..MaxTime

WorkerInit ==
  /\ playerRows = {}
  /\ processed = {}
  /\ processedAt = [e \in Events |-> 0]
  /\ pstate = [p \in Players |-> NewPlayerState]
  /\ ledger = {}
  /\ balance = [p \in Players |-> 0]
  /\ now = 0

-----------------------------------------------------------------------------
\* The processed bets of player p not older than `since`, seen with e's row
\* already inserted: store.countPlayerEventsSince inside e's transaction.
BetsSince(p, e, since) ==
  {f \in processed : PlayerOf[f] = p /\ TypeOf[f] = "bet_placed" /\ processedAt[f] >= since}
    \cup {f \in {e} : TypeOf[f] = "bet_placed"}

\* Mutant: the bet being handled counts as a recent one.
RecentBetsWithOwn(e) == Cardinality(BetsSince(PlayerOf[e], e, now - Window))

\* What Handle passes to the rules: the count less the bet being handled.
RecentBets(e) ==
  LET n == Cardinality(BetsSince(PlayerOf[e], e, now - Window))
  IN  IF TypeOf[e] = "bet_placed" /\ n > 0 THEN n - 1 ELSE n

Credited(e) == \E c \in ledger : c.event = e

\* Mutant: the balance is written from an earlier read instead of added to.
CreditTxOverwrites(e, amount) ==
  IF amount = 0
    THEN UNCHANGED <<ledger, balance>>
    ELSE /\ ~Credited(e)
         /\ ledger' = ledger \cup {[event |-> e, player |-> PlayerOf[e], amount |-> amount]}
         /\ balance' = [balance EXCEPT ![PlayerOf[e]] = amount]

\* ledger.CreditTx: the row is unique per event, the balance moves with it.
\* A second row for the event would abort the transaction: no commit.
CreditTx(e, amount) ==
  IF amount = 0
    THEN UNCHANGED <<ledger, balance>>
    ELSE /\ ~Credited(e)
         /\ ledger' = ledger \cup {[event |-> e, player |-> PlayerOf[e], amount |-> amount]}
         /\ balance' = [balance EXCEPT ![PlayerOf[e]] = @ + amount]

\* Mutants: no primary key, so a redelivery is marked again; and a mark that is
\* only checked, not written.
MarkProcessedAgain(e) ==
  /\ processed' = processed \cup {e}
  /\ processedAt' = [processedAt EXCEPT ![e] = now]
MarkProcessedForgotten(e) == e \notin processed /\ UNCHANGED <<processed, processedAt>>

\* store.MarkProcessedTx: the primary key lets an event be marked once.
MarkProcessedTx(e) ==
  /\ e \notin processed
  /\ processed' = processed \cup {e}
  /\ processedAt' = [processedAt EXCEPT ![e] = now]

\* Worker.Handle, committed.
Handle(e) ==
  LET p == PlayerOf[e]
      res == Apply(e, pstate[p], RecentBets(e))
  IN  /\ EnsurePlayer(p)
      /\ MarkProcessedTx(e)
      /\ pstate' = [pstate EXCEPT ![p] = res.state]
      /\ CreditTx(e, res.credit)

\* Worker.Handle on an event whose mark is there: ErrDuplicateEvent, all rolled
\* back, nil to the caller.
SkipDuplicate(e) ==
  /\ e \in processed
  /\ UNCHANGED <<playerRows, dbVars>>

Tick ==
  /\ now < MaxTime
  /\ now' = now + 1
  /\ UNCHANGED <<playerRows, dbVars>>

\* store.EnqueueEvent creates the same rows when an event is accepted.
EnqueueEnsures(p) ==
  /\ EnsurePlayer(p)
  /\ UNCHANGED <<dbVars, now>>

WorkerNext ==
  \/ \E e \in Events : (Handle(e) \/ SkipDuplicate(e)) /\ UNCHANGED now
  \/ \E p \in Players : EnqueueEnsures(p)
  \/ Tick

WorkerSpec == WorkerInit /\ [][WorkerNext]_workerVars

-----------------------------------------------------------------------------
Bets(p) == {f \in processed : PlayerOf[f] = p /\ TypeOf[f] = "bet_placed"}
Deposits(p) == {f \in processed : PlayerOf[f] = p /\ TypeOf[f] = "deposit"}
EntriesOf(p) == {c \in ledger : c.player = p}
Tagged(p) == "welcome_bonus" \in pstate[p].tags

\* Whatever is delivered, however often and in whatever order, a player with
\* the welcome tag was paid the welcome credit exactly once, by one ledger entry
\* the balance agrees with, and a player without it was paid nothing
\* (Worker.Handle, rules.ApplyWelcome, ledger.credit).
WelcomeOnce ==
  \A p \in Players :
    IF Tagged(p)
      THEN /\ \E c \in ledger : EntriesOf(p) = {c} /\ c.amount = WelcomeCredit
           /\ balance[p] = WelcomeCredit
      ELSE EntriesOf(p) = {} /\ balance[p] = 0

\* The ledger and the state never run ahead of the marks: an entry belongs to a
\* processed deposit of its player, and a player has the tag exactly when some
\* deposit of the player is processed, so a retry after a rollback starts clean.
LedgerFollowsMarks ==
  /\ \A c \in ledger : c.event \in Deposits(c.player)
  /\ \A p \in Players : Tagged(p) <=> Deposits(p) # {}

\* The score is the sum of the processed bets, each counted once, but for the int64
\* it is kept in: the addition wraps at most once a bet.  The tier is that score's
\* tier (rules.ApplyVIP over any sequence of transactions).
ScoreIsSumOfBets ==
  \A p \in Players :
    /\ \E wraps \in 0..Cardinality(Bets(p)) :
         MapThenSumSet(LAMBDA e : AmountOf[e], Bets(p)) =
           pstate[p].score + wraps * (2 * ScoreBound)
    /\ pstate[p].tier = TierForScore(pstate[p].score)

\* The velocity flag is set exactly when VelocityBetLimit bets of the player were
\* processed within one window, the window ending at one of them.
FlagMeansBurst ==
  \A p \in Players :
    pstate[p].flag = "velocity" <=>
      \E last \in Bets(p) :
        Cardinality({f \in Bets(p) : processedAt[f] \in
                       processedAt[last] - Window .. processedAt[last]}) >= VelocityBetLimit
=============================================================================
