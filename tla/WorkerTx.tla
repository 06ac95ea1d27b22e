------------------------------ MODULE WorkerTx ------------------------------
(***************************************************************************)
(* Worker.Handle statement by statement, in transactions that may overlap: *)
(* Postgres READ COMMITTED, where a statement sees what was committed      *)
(* before it, an INSERT of a key another transaction has just inserted     *)
(* waits for that transaction's end, and an UPDATE waits for the row.      *)
(*                                                                         *)
(* Handlers are processes of the consumer group.  The one partition gives  *)
(* messages in order, so after a rebalance a process may still be busy     *)
(* with the very message its successor starts with.  When a message was    *)
(* left behind by a failed dead letter, the old process may be further on, *)
(* and transactions of two events of one player overlap (`crossed`).       *)
(***************************************************************************)
EXTENDS Worker

CONSTANTS
  Handlers,  (* processes that call Handle                                  *)
  NoEvent    (* the event of a handler that has none                        *)

ASSUME HandlersAssumption == NoEvent \notin Events

VARIABLES
  step,     \* the next statement of each handler's transaction
  event,    \* the event it handles
  began,    \* when it began: Postgres's now(), the processed_at of its mark
  created,  \* whether it inserted the player's rows
  seen,     \* the player state it read
  result,   \* what the rules made of it
  crossed   \* transactions of two events of one player have overlapped

txVars == <<step, event, began, created, seen, result, crossed>>
workerTxVars == <<workerVars, txVars>>

Steps == {"idle", "ensure", "mark", "read", "count", "save", "commit"}
Results == [state : PlayerState, credit : {0, WelcomeCredit}]
NoResult == [state |-> NewPlayerState, credit |-> 0]

WorkerTxTypeOK ==
  /\ WorkerTypeOK
  /\ step \in [Handlers -> Steps]
  /\ event \in [Handlers -> Events \cup {NoEvent}]
  /\ began \in [Handlers -> 0..MaxTime]
  /\ created \in [Handlers -> BOOLEAN]
  /\ seen \in [Handlers -> PlayerState]
  /\ result \in [Handlers -> Results]
  /\ crossed \in BOOLEAN

NoTransactions ==
  /\ step = [h \in Handlers |-> "idle"]
  /\ event = [h \in Handlers |-> NoEvent]
  /\ began = [h \in Handlers |-> 0]
  /\ created = [h \in Handlers |-> FALSE]
  /\ seen = [h \in Handlers |-> NewPlayerState]
  /\ result = [h \in Handlers |-> NoResult]
  /\ crossed = FALSE

WorkerTxInit == WorkerInit /\ NoTransactions

-----------------------------------------------------------------------------
Busy == {h \in Handlers : step[h] # "idle"}
PlayerAt(h) == PlayerOf[event[h]]

\* Transactions that hold the uncommitted rows of player p, the uncommitted mark of
\* event e, and the lock of p's state row (and with it of p's balance).
RowsHolders(p) == {h \in Busy : created[h] /\ PlayerAt(h) = p}
MarkHolders(e) == {h \in Busy : event[h] = e /\ step[h] \in {"read", "count", "save", "commit"}}
StateHolders(p) == {h \in Busy : step[h] = "commit" /\ PlayerAt(h) = p}

TxGoto(h, from, to) == step[h] = from /\ step' = [step EXCEPT ![h] = to]

\* The transaction ends and leaves nothing with its handler.
EndTx(h) ==
  /\ step' = [step EXCEPT ![h] = "idle"]
  /\ event' = [event EXCEPT ![h] = NoEvent]
  /\ began' = [began EXCEPT ![h] = 0]
  /\ created' = [created EXCEPT ![h] = FALSE]
  /\ seen' = [seen EXCEPT ![h] = NewPlayerState]
  /\ result' = [result EXCEPT ![h] = NoResult]

Begin(h, e) ==
  /\ TxGoto(h, "idle", "ensure")
  /\ event' = [event EXCEPT ![h] = e]
  /\ began' = [began EXCEPT ![h] = now]
  /\ crossed' = (crossed \/ \E g \in Busy : event[g] # e /\ PlayerAt(g) = PlayerOf[e])
  /\ UNCHANGED <<workerVars, created, seen, result>>

EnsurePlayerTx(h) ==
  /\ TxGoto(h, "ensure", "mark")
  /\ RowsHolders(PlayerAt(h)) = {}
  /\ created' = [created EXCEPT ![h] = PlayerAt(h) \notin playerRows]
  /\ UNCHANGED <<workerVars, event, began, seen, result>>

\* Mutants: the mark is asked for with a SELECT before the insert, so it does not
\* wait; and a duplicate key is waited out instead of reported.
MarkTxBySelect(h) ==
  /\ TxGoto(h, "mark", "read")
  /\ event[h] \notin processed
  /\ UNCHANGED <<workerVars, event, began, created, seen, result>>
MarkTxWaits(h) ==
  /\ TxGoto(h, "mark", "read")
  /\ MarkHolders(event[h]) = {} /\ event[h] \notin processed
  /\ UNCHANGED <<workerVars, event, began, created, seen, result>>

\* The insert waits for another transaction's uncommitted mark; a committed one is
\* ErrDuplicateEvent and rolls back.
MarkTx(h) ==
  /\ step[h] = "mark"
  /\ MarkHolders(event[h]) = {}
  /\ IF event[h] \in processed
       THEN EndTx(h)
       ELSE TxGoto(h, "mark", "read") /\ UNCHANGED <<event, began, created, seen, result>>
  /\ UNCHANGED workerVars

GetPlayerStateTx(h) ==
  /\ TxGoto(h, "read", "count")
  /\ seen' = [seen EXCEPT ![h] = pstate[PlayerAt(h)]]
  /\ UNCHANGED <<workerVars, event, began, created, result>>

\* The count sees committed marks and its own, whose time is the transaction's.
RecentBetsTx(h) ==
  LET bets == BetsSince(PlayerAt(h), event[h], now - Window)
      n == Cardinality(IF began[h] >= now - Window THEN bets ELSE bets \ {event[h]})
  IN  IF TypeOf[event[h]] = "bet_placed" /\ n > 0 THEN n - 1 ELSE n

CountAndApply(h) ==
  /\ TxGoto(h, "count", "save")
  /\ result' = [result EXCEPT ![h] = Apply(event[h], seen[h], RecentBetsTx(h))]
  /\ UNCHANGED <<workerVars, event, began, created, seen>>

\* The update waits for the row; from here on nobody else writes the player.
SavePlayerStateTx(h) ==
  /\ TxGoto(h, "save", "commit")
  /\ StateHolders(PlayerAt(h)) = {}
  /\ UNCHANGED <<workerVars, event, began, created, seen, result>>

\* The credit and the commit: everything becomes visible together.
CommitTx(h) ==
  LET e == event[h]
  IN  /\ step[h] = "commit"
      /\ EnsurePlayer(PlayerOf[e])
      /\ processed' = processed \cup {e}
      /\ processedAt' = [processedAt EXCEPT ![e] = began[h]]
      /\ pstate' = [pstate EXCEPT ![PlayerOf[e]] = result[h].state]
      /\ CreditTx(e, result[h].credit)
      /\ UNCHANGED now
      /\ EndTx(h)

\* Any statement may fail, and the process may die: all of it is undone.
RollbackTx(h) == h \in Busy /\ EndTx(h) /\ UNCHANGED workerVars

TxStep(h) ==
  /\ \/ EnsurePlayerTx(h)
     \/ MarkTx(h)
     \/ GetPlayerStateTx(h)
     \/ CountAndApply(h)
     \/ SavePlayerStateTx(h)
     \/ CommitTx(h)
  /\ UNCHANGED crossed

WorkerTxNext ==
  \/ \E h \in Handlers :
       TxStep(h) \/ (RollbackTx(h) /\ UNCHANGED crossed) \/ \E e \in Events : Begin(h, e)
  \/ \E p \in Players : EnqueueEnsures(p) /\ UNCHANGED txVars
  \/ Tick /\ UNCHANGED txVars

WorkerTxSpec == WorkerTxInit /\ [][WorkerTxNext]_workerTxVars

\* A handler goes on with its transaction, and Postgres hands out its locks in the
\* order they were asked for, so nobody waits for ever for a lock that comes free.
WorkerTxFairSpec == WorkerTxSpec /\ \A h \in Handlers : SF_workerTxVars(TxStep(h))

-----------------------------------------------------------------------------
\* A transaction about to commit began in this tick (processed_at is its start).
InTick == \A h \in Handlers : step[h] = "commit" => began[h] = now

\* Overlapping deliveries of one event are as good as one after the other, and those
\* of two players do not meet: until transactions of two events of one player have
\* overlapped, every step is one of Worker's atomic Handle, or none.
ImplementsWorker == WorkerInit /\ [][~crossed /\ InTick => WorkerNext]_workerVars

\* However transactions overlap, whatever they have read, an event is credited
\* once, its mark and entry commit together, and a balance is the sum of its
\* entries (markProcessed, ledger.credit: amount = amount + n).
LedgerIsExact ==
  /\ \A c, d \in ledger : c.event = d.event => c = d
  /\ \A c \in ledger : c.event \in Deposits(c.player)
  /\ \A p \in Players :
       balance[p] = MapThenSumSet(LAMBDA c : c.amount, EntriesOf(p))

\* No transaction waits for ever: its locks are taken in one order (player rows,
\* mark, state, balance), a mark that is there is an error and no wait.
EveryTransactionEnds == \A h \in Handlers : (h \in Busy) ~> (h \notin Busy)
=============================================================================
