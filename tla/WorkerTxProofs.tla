--------------------------- MODULE WorkerTxProofs ---------------------------
(***************************************************************************)
(* Handle's statements in transactions that overlap, and the two queries   *)
(* of a snapshot.  TxInv says what a handler may rely on: its mark is its  *)
(* own (HoldersAlone, HeldIsNew), and until two events of one player have  *)
(* overlapped, so are the player's rows (SamePlayerSameEvent), so that     *)
(* what it read and made of it is still what is stored (SeenIsStored,      *)
(* ResultIsNow).  LedgerInv does without the latter: it holds for ever.    *)
(***************************************************************************)
EXTENDS WorkerTx, Snapshot, WorkerProofs

Holding == {"read", "count", "save", "commit"}

BusyHasEvent == \A h \in Handlers : step[h] # "idle" => event[h] \in Events

\* Only one transaction at a time has inserted the mark of an event.
HoldersAlone ==
  \A g, h \in Handlers :
    step[g] \in Holding /\ step[h] \in Holding /\ event[g] = event[h] => g = h

HeldIsNew == \A h \in Handlers : step[h] \in Holding => event[h] \notin processed

BeganBefore == \A h \in Handlers : began[h] <= now

\* Only deposits are credited.
CreditForDeposit ==
  \A h \in Handlers :
    step[h] \in {"save", "commit"} /\ result[h].credit # 0 => TypeOf[event[h]] = "deposit"

SamePlayerSameEvent ==
  \A g, h \in Handlers :
    step[g] # "idle" /\ step[h] # "idle" /\ PlayerAt(g) = PlayerAt(h) => event[g] = event[h]

SeenIsStored ==
  \A h \in Handlers :
    step[h] \in {"count", "save", "commit"} => seen[h] = pstate[PlayerAt(h)]

ResultIsNow ==
  \A h \in Handlers :
    step[h] \in {"save", "commit"} /\ began[h] = now =>
      result[h] = Apply(event[h], pstate[PlayerAt(h)], RecentBets(event[h]))

MarkInv == WorkerTxTypeOK /\ BusyHasEvent /\ HoldersAlone /\ HeldIsNew

LedgerInv == CreditForDeposit /\ IsFiniteSet(ledger) /\ LedgerIsExact

SerialInv ==
  /\ BeganBefore
  /\ ~crossed => SamePlayerSameEvent /\ SeenIsStored /\ ResultIsNow

TxInv == MarkInv /\ LedgerInv /\ SerialInv
-----------------------------------------------------------------------------
\* The values a handler starts from have their types.
LEMMA NewStateTyped == NewPlayerState \in PlayerState /\ NoResult \in Results
  BY RulesAssumption DEF NewPlayerState, PlayerState, Scores, Tiers, NoResult, Results

LEMMA TxInit == WorkerTxInit => TxInv
<1> SUFFICES ASSUME WorkerTxInit PROVE TxInv
  OBVIOUS
<1>1. WorkerTypeOK
  BY WorkerInitInv DEF WorkerTxInit, WorkerInv
<1>2. MarkInv
  <2>1. WorkerTxTypeOK
    <3>1. 0 \in 0..MaxTime /\ "idle" \in Steps
      BY WorkerAssumption DEF Steps
    <3> QED  BY <1>1, <3>1, NewStateTyped DEF WorkerTxInit, NoTransactions, WorkerTxTypeOK
  <2>2. \A h \in Handlers : step[h] = "idle"
    BY DEF WorkerTxInit, NoTransactions
  <2> QED  BY <2>1, <2>2 DEF MarkInv, BusyHasEvent, HoldersAlone, HeldIsNew, Holding
<1>3. LedgerInv
  <2>1. ledger = {} /\ (\A p \in Players : EntriesOf(p) = {} /\ balance[p] = 0)
    BY DEF WorkerTxInit, WorkerInit, EntriesOf
  <2>2. MapThenSumSet(LAMBDA c : c.amount, {}) = 0
    <3>1. SumOver([c \in {} |-> c.amount], {}) = 0
      BY SumEmpty
    <3> QED  BY <3>1 DEF MapThenSumSet, MapThenFoldSet, SumOver, SumsSubsets
  <2>3. LedgerIsExact
    BY <2>1, <2>2 DEF LedgerIsExact, MapThenSumSet, MapThenFoldSet
  <2>4. CreditForDeposit
    BY DEF WorkerTxInit, NoTransactions, CreditForDeposit
  <2> QED  BY <2>1, <2>3, <2>4, FS_EmptySet DEF LedgerInv
<1>4. SerialInv
  BY DEF WorkerTxInit, WorkerInit, NoTransactions, SerialInv, BeganBefore,
         SamePlayerSameEvent, SeenIsStored, ResultIsNow
<1> QED  BY <1>2, <1>3, <1>4 DEF TxInv

-----------------------------------------------------------------------------
\* A transaction that ends with nothing done takes only its own claims away.
LEMMA EndTxMarkInv ==
  ASSUME MarkInv, NEW h \in Handlers, EndTx(h), UNCHANGED workerVars, crossed' = crossed
  PROVE  MarkInv'
<1> USE DEF MarkInv
<1>1. 0 \in 0..MaxTime /\ "idle" \in Steps
  BY WorkerAssumption DEF Steps
<1>2. WorkerTypeOK'
  BY DEF workerVars, dbVars, WorkerTxTypeOK, WorkerTypeOK
<1>3. WorkerTxTypeOK'
  BY <1>1, <1>2, NewStateTyped DEF EndTx, WorkerTxTypeOK
<1>4. BusyHasEvent' /\ HoldersAlone' /\ HeldIsNew'
  BY DEF EndTx, WorkerTxTypeOK, workerVars, dbVars, BusyHasEvent, HoldersAlone, HeldIsNew, Holding
<1> QED  BY <1>3, <1>4

\* The marks: every statement, and the commit, keeps them.
LEMMA MarkStep == MarkInv /\ [WorkerTxNext]_workerTxVars => MarkInv'
<1> SUFFICES ASSUME MarkInv, [WorkerTxNext]_workerTxVars PROVE MarkInv'
  OBVIOUS
<1> USE DEF MarkInv
<1>1. ASSUME NEW h \in Handlers, EnsurePlayerTx(h), crossed' = crossed PROVE MarkInv'
  BY <1>1 DEF EnsurePlayerTx, TxGoto, WorkerTxTypeOK, WorkerTypeOK, workerVars, dbVars, Steps,
     BusyHasEvent, HoldersAlone, HeldIsNew, Holding
<1>2. ASSUME NEW h \in Handlers, MarkTx(h), crossed' = crossed PROVE MarkInv'
  <2>1. CASE event[h] \in processed
    <3>1. EndTx(h) /\ UNCHANGED workerVars
      BY <1>2, <2>1 DEF MarkTx
    <3> QED  BY <3>1, <1>2, EndTxMarkInv
  <2>2. CASE event[h] \notin processed
    BY <1>2, <2>2 DEF MarkTx, MarkHolders, Busy, TxGoto, WorkerTxTypeOK, WorkerTypeOK, workerVars,
       dbVars, Steps, BusyHasEvent, HoldersAlone, HeldIsNew, Holding
  <2> QED  BY <2>1, <2>2
<1>3. ASSUME NEW h \in Handlers, GetPlayerStateTx(h), crossed' = crossed PROVE MarkInv'
  <2>1. pstate[PlayerAt(h)] \in PlayerState
    BY <1>3, EventsAssumption DEF GetPlayerStateTx, TxGoto, PlayerAt, BusyHasEvent,
       WorkerTxTypeOK, WorkerTypeOK
  <2> QED  BY <1>3, <2>1 DEF GetPlayerStateTx, TxGoto, WorkerTxTypeOK, WorkerTypeOK, workerVars,
       dbVars, Steps, BusyHasEvent, HoldersAlone, HeldIsNew, Holding
<1>4. ASSUME NEW h \in Handlers, CountAndApply(h), crossed' = crossed PROVE MarkInv'
  <2>1. Apply(event[h], seen[h], RecentBetsTx(h)) \in Results
    <3>1. event[h] \in Events /\ seen[h] \in PlayerState
      BY <1>4 DEF CountAndApply, TxGoto, BusyHasEvent, WorkerTxTypeOK
    <3> QED  BY <3>1, ApplyTyped DEF Results
  <2> QED  BY <1>4, <2>1 DEF CountAndApply, TxGoto, WorkerTxTypeOK, WorkerTypeOK, workerVars,
       dbVars, Steps, BusyHasEvent, HoldersAlone, HeldIsNew, Holding
<1>5. ASSUME NEW h \in Handlers, SavePlayerStateTx(h), crossed' = crossed PROVE MarkInv'
  BY <1>5 DEF SavePlayerStateTx, TxGoto, WorkerTxTypeOK, WorkerTypeOK, workerVars,
     dbVars, Steps, BusyHasEvent, HoldersAlone, HeldIsNew, Holding
<1>6. ASSUME NEW h \in Handlers, RollbackTx(h), crossed' = crossed PROVE MarkInv'
  BY <1>6, EndTxMarkInv DEF RollbackTx
<1>7. ASSUME NEW h \in Handlers, CommitTx(h), crossed' = crossed PROVE MarkInv'
  <2>1. /\ step[h] = "commit" /\ event[h] \in Events /\ PlayerOf[event[h]] \in Players
        /\ result[h] \in Results /\ began[h] \in 0..MaxTime
    BY <1>7, EventsAssumption DEF CommitTx, BusyHasEvent, WorkerTxTypeOK
  <2>2. /\ playerRows' \subseteq Players
        /\ processed' \subseteq Events
        /\ processedAt' \in [Events -> 0..MaxTime]
        /\ pstate' \in [Players -> PlayerState]
        /\ now' \in 0..MaxTime
    BY <1>7, <2>1 DEF CommitTx, EnsurePlayer, WorkerTxTypeOK, WorkerTypeOK, Results
  <2>3. ledger' \subseteq Entries /\ balance' \in [Players -> Int]
    BY <1>7, <2>1, RulesAssumption DEF CommitTx, CreditTx, Entries, WorkerTxTypeOK, WorkerTypeOK,
       Results
  <2>4. /\ step' = [step EXCEPT ![h] = "idle"] /\ event' = [event EXCEPT ![h] = NoEvent]
        /\ processed' = processed \cup {event[h]}
    BY <1>7 DEF CommitTx, EndTx
  <2>5. WorkerTxTypeOK'
    BY <1>7, <2>2, <2>3, NewStateTyped, WorkerAssumption DEF CommitTx, EndTx, WorkerTxTypeOK, WorkerTypeOK, Steps
  <2>6. BusyHasEvent' /\ HoldersAlone' /\ HeldIsNew'
    BY <2>1, <2>4 DEF WorkerTxTypeOK, BusyHasEvent, HoldersAlone, HeldIsNew, Holding
  <2> QED  BY <2>5, <2>6
<1>8. ASSUME NEW h \in Handlers, NEW e \in Events, Begin(h, e) PROVE MarkInv'
  BY <1>8 DEF Begin, TxGoto, WorkerTxTypeOK, WorkerTypeOK, workerVars,
     dbVars, Steps, BusyHasEvent, HoldersAlone, HeldIsNew, Holding
<1>9. ASSUME UNCHANGED <<dbVars, txVars>>, playerRows' \subseteq Players, now' \in 0..MaxTime
      PROVE  MarkInv'
  BY <1>9 DEF WorkerTxTypeOK, WorkerTypeOK, txVars, dbVars, BusyHasEvent, HoldersAlone,
     HeldIsNew, Holding
<1>10. CASE Tick /\ UNCHANGED txVars
  BY <1>9, <1>10, WorkerAssumption DEF Tick, WorkerTxTypeOK, WorkerTypeOK
<1>11. ASSUME NEW p \in Players, EnqueueEnsures(p), UNCHANGED txVars PROVE MarkInv'
  BY <1>9, <1>11 DEF EnqueueEnsures, EnsurePlayer, WorkerTxTypeOK, WorkerTypeOK
<1>12. CASE UNCHANGED workerTxVars
  BY <1>9, <1>12 DEF workerTxVars, workerVars, WorkerTxTypeOK, WorkerTypeOK
<1> QED  BY <1>1, <1>2, <1>3, <1>4, <1>5, <1>6, <1>7, <1>8, <1>10, <1>11, <1>12
         DEF WorkerTxNext, TxStep
-----------------------------------------------------------------------------
\* The amounts of all entries there may be, so that an entry's amount does not depend
\* on the ledger it is in.
AmountIn == [c \in Entries |-> c.amount]

LEMMA SumOfEntries ==
  ASSUME NEW S \in SUBSET Entries
  PROVE  MapThenSumSet(LAMBDA c : c.amount, S) = SumOver(AmountIn, S)
<1> DEFINE amounts == [c \in S |-> c.amount]
<1>1. MapThenSumSet(LAMBDA c : c.amount, S) = SumOver(amounts, S)
  BY DEF MapThenSumSet, MapThenFoldSet, SumOver, SumsSubsets
<1>2. \A c \in S : amounts[c] = AmountIn[c]
  BY DEF AmountIn
<1> QED  BY <1>1, <1>2, SumAgree

LEMMA LedgerAsSums ==
  ASSUME ledger \subseteq Entries
  PROVE  LedgerIsExact <=>
           /\ \A c, d \in ledger : c.event = d.event => c = d
           /\ \A c \in ledger : c.event \in Deposits(c.player)
           /\ \A p \in Players : balance[p] = SumOver(AmountIn, EntriesOf(p))
<1>1. \A p \in Players : EntriesOf(p) \in SUBSET Entries
  BY DEF EntriesOf
<1>2. \A p \in Players : MapThenSumSet(LAMBDA c : c.amount, EntriesOf(p)) =
                           SumOver(AmountIn, EntriesOf(p))
  BY <1>1, SumOfEntries
<1> QED  BY <1>2 DEF LedgerIsExact
\* The same of the ledger after a step.
LEMMA LedgerExactNext ==
  ASSUME ledger' \subseteq Entries,
         \A c, d \in ledger' : c.event = d.event => c = d,
         \A c \in ledger' : (c.event \in Deposits(c.player))',
         \A p \in Players : balance'[p] = SumOver(AmountIn, EntriesOf(p)')
  PROVE  LedgerIsExact'
<1>1. \A p \in Players : EntriesOf(p)' \in SUBSET Entries
  BY DEF EntriesOf
<1>2. \A p \in Players : MapThenSumSet(LAMBDA c : c.amount, EntriesOf(p)') =
                           SumOver(AmountIn, EntriesOf(p)')
  BY <1>1, SumOfEntries
<1> QED  BY <1>2 DEF LedgerIsExact, MapThenSumSet, MapThenFoldSet

LEMMA LedgerQuiet ==
  ASSUME ledger \subseteq Entries, LedgerInv, UNCHANGED <<processed, ledger, balance>>,
         CreditForDeposit'
  PROVE  LedgerInv'
<1>1. (\A p : EntriesOf(p)' = EntriesOf(p)) /\ (\A p : Deposits(p)' = Deposits(p))
  BY DEF EntriesOf, Deposits
<1>2. /\ \A c, d \in ledger : c.event = d.event => c = d
      /\ \A c \in ledger : c.event \in Deposits(c.player)
      /\ \A p \in Players : balance[p] = SumOver(AmountIn, EntriesOf(p))
  BY LedgerAsSums DEF LedgerInv
<1>3. LedgerIsExact'
  BY <1>1, <1>2, LedgerExactNext
<1> QED  BY <1>3 DEF LedgerInv

\* The commit adds the entry of an event without a mark, so without an entry, and its
\* amount to the balance.
LEMMA CommitLedger ==
  ASSUME MarkInv, LedgerInv, NEW h \in Handlers, CommitTx(h)
  PROVE  LedgerInv'
<1> DEFINE e == event[h]
           amount == result[h].credit
           new == [event |-> e, player |-> PlayerOf[e], amount |-> amount]
<1>1. /\ ledger \subseteq Entries /\ balance \in [Players -> Int] /\ processed \subseteq Events
      /\ IsFiniteSet(ledger)
      /\ e \in Events /\ e \notin processed /\ PlayerOf[e] \in Players /\ amount \in Nat
      /\ processed' = processed \cup {e}
  <2>1. step[h] = "commit" /\ processed' = processed \cup {e}
    BY DEF CommitTx
  <2>2. e \in Events /\ e \notin processed
    BY <2>1 DEF MarkInv, BusyHasEvent, HeldIsNew, Holding
  <2>3. amount \in Nat
    BY RulesAssumption DEF MarkInv, WorkerTxTypeOK, Results
  <2> QED  BY <2>1, <2>2, <2>3, EventsAssumption
           DEF MarkInv, WorkerTxTypeOK, WorkerTypeOK, LedgerInv
<1>2. CreditForDeposit'
  BY DEF CommitTx, EndTx, MarkInv, WorkerTxTypeOK, LedgerInv, CreditForDeposit
<1>3. /\ \A c, d \in ledger : c.event = d.event => c = d
      /\ \A c \in ledger : c.event \in Deposits(c.player)
      /\ \A p \in Players : balance[p] = SumOver(AmountIn, EntriesOf(p))
  BY <1>1, LedgerAsSums DEF LedgerInv
<1>4. \A c \in ledger : c.event # e
  BY <1>1, <1>3 DEF Deposits
<1>5. CASE amount = 0
  <2>1. UNCHANGED <<ledger, balance>>
    BY <1>5 DEF CommitTx, CreditTx
  <2>2. \A p \in Players : EntriesOf(p)' = EntriesOf(p)
    BY <2>1 DEF EntriesOf
  <2>3. (/\ \A c, d \in ledger : c.event = d.event => c = d
         /\ \A c \in ledger : c.event \in Deposits(c.player)
         /\ \A p \in Players : balance[p] = SumOver(AmountIn, EntriesOf(p)))'
    BY <1>1, <1>3, <2>1, <2>2 DEF Deposits
  <2>4. LedgerIsExact'
    BY <2>3, <1>1, <2>1, LedgerExactNext
  <2> QED  BY <1>1, <1>2, <2>1, <2>4 DEF LedgerInv
<1>6. CASE amount # 0
  <2>1. /\ ledger' = ledger \cup {new}
        /\ balance' = [balance EXCEPT ![PlayerOf[e]] = @ + amount]
    BY <1>6 DEF CommitTx, CreditTx
  <2>2. new \in Entries /\ new \notin ledger /\ TypeOf[e] = "deposit"
    BY <1>1, <1>4, <1>6 DEF Entries, CommitTx, LedgerInv, CreditForDeposit
  <2>3. IsFiniteSet(ledger') /\ ledger' \subseteq Entries
    BY <1>1, <2>1, <2>2, FS_AddElement
  <2>4. \A c, d \in ledger' : c.event = d.event => c = d
    BY <1>3, <1>4, <2>1
  <2>5. \A c \in ledger' : (c.event \in Deposits(c.player))'
    BY <1>1, <1>3, <2>1, <2>2 DEF Deposits
  <2>6. ASSUME NEW p \in Players PROVE balance'[p] = SumOver(AmountIn, EntriesOf(p)')
    <3>1. CASE p # PlayerOf[e]
      <4>1. EntriesOf(p)' = EntriesOf(p) /\ balance'[p] = balance[p]
        BY <3>1, <1>1, <2>1 DEF EntriesOf
      <4> QED  BY <4>1, <1>3
    <3>2. CASE p = PlayerOf[e]
      <4> DEFINE mine == EntriesOf(p)
      <4>1. /\ EntriesOf(p)' = mine \cup {new} /\ (mine \cup {new}) \ {new} = mine
            /\ balance'[p] = balance[p] + amount
        BY <3>2, <1>1, <2>1, <2>2 DEF EntriesOf
      <4>2. mine \cup {new} \in SUBSET ledger' /\ mine \cup {new} \subseteq Entries
        BY <2>1, <2>3 DEF EntriesOf
      <4>3. IsFiniteSet(mine \cup {new})
        BY <2>3, <4>2, FS_Subset
      <4>4. \A c \in mine \cup {new} : AmountIn[c] \in Int
        BY <4>2 DEF AmountIn, Entries
      <4>5. AmountIn[new] = amount
        BY <2>2 DEF AmountIn
      <4>6. SumOver(AmountIn, mine \cup {new}) = amount + SumOver(AmountIn, mine)
        <5> HIDE DEF mine, new, amount
        <5> QED  BY <4>1, <4>3, <4>4, <4>5, SumAdd
      <4>7. balance[p] = SumOver(AmountIn, mine) /\ balance[p] \in Int
        BY <1>1, <1>3
      <4> HIDE DEF mine, new, amount
      <4> QED  BY <4>1, <4>6, <4>7, <1>1
    <3> QED  BY <3>1, <3>2
  <2>7. LedgerIsExact'
    BY <2>3, <2>4, <2>5, <2>6, LedgerExactNext
  <2> QED  BY <1>2, <2>3, <2>7 DEF LedgerInv
<1> QED  BY <1>5, <1>6
LEMMA LedgerStep == MarkInv /\ LedgerInv /\ [WorkerTxNext]_workerTxVars => LedgerInv'
<1> SUFFICES ASSUME MarkInv, LedgerInv, [WorkerTxNext]_workerTxVars PROVE LedgerInv'
  OBVIOUS
<1>1. ledger \subseteq Entries /\ CreditForDeposit
  BY DEF MarkInv, WorkerTxTypeOK, WorkerTypeOK, LedgerInv
<1>2. ASSUME UNCHANGED dbVars, CreditForDeposit' PROVE LedgerInv'
  BY <1>1, <1>2, LedgerQuiet DEF dbVars
<1>3. ASSUME NEW h \in Handlers, EnsurePlayerTx(h) \/ GetPlayerStateTx(h) PROVE LedgerInv'
  BY <1>1, <1>2, <1>3 DEF EnsurePlayerTx, GetPlayerStateTx, TxGoto, CreditForDeposit,
     MarkInv, WorkerTxTypeOK, workerVars
<1>4. ASSUME NEW h \in Handlers, SavePlayerStateTx(h) PROVE LedgerInv'
  BY <1>1, <1>2, <1>4 DEF SavePlayerStateTx, TxGoto, CreditForDeposit,
     MarkInv, WorkerTxTypeOK, workerVars
<1>5. ASSUME NEW h \in Handlers, EndTx(h), UNCHANGED workerVars PROVE LedgerInv'
  BY <1>1, <1>2, <1>5 DEF EndTx, CreditForDeposit, MarkInv, WorkerTxTypeOK, workerVars
<1>6. ASSUME NEW h \in Handlers, MarkTx(h) PROVE LedgerInv'
  BY <1>1, <1>2, <1>5, <1>6 DEF MarkTx, TxGoto, CreditForDeposit, MarkInv, WorkerTxTypeOK,
     workerVars
<1>7. ASSUME NEW h \in Handlers, CountAndApply(h) PROVE LedgerInv'
  <2> DEFINE res == Apply(event[h], seen[h], RecentBetsTx(h))
  <2>1. /\ step' = [step EXCEPT ![h] = "save"] /\ result' = [result EXCEPT ![h] = res]
        /\ UNCHANGED <<workerVars, event>>
        /\ step \in [Handlers -> Steps] /\ result \in [Handlers -> Results]
    BY <1>7 DEF CountAndApply, TxGoto, MarkInv, WorkerTxTypeOK
  <2>2. res.credit # 0 => TypeOf[event[h]] = "deposit"
    <3>1. event[h] \in Events /\ seen[h] \in PlayerState
      BY <1>7 DEF CountAndApply, TxGoto, MarkInv, BusyHasEvent, WorkerTxTypeOK
    <3> QED  BY <3>1, ApplyResult
  <2> HIDE DEF res
  <2>3. CreditForDeposit'
    BY <1>1, <2>1, <2>2 DEF CreditForDeposit
  <2> QED  BY <1>2, <2>1, <2>3 DEF workerVars
<1>8. ASSUME NEW h \in Handlers, CommitTx(h) PROVE LedgerInv'
  BY <1>8, CommitLedger
<1>9. ASSUME NEW h \in Handlers, RollbackTx(h) PROVE LedgerInv'
  BY <1>5, <1>9 DEF RollbackTx
<1>10. ASSUME NEW h \in Handlers, NEW e \in Events, Begin(h, e) PROVE LedgerInv'
  BY <1>1, <1>2, <1>10 DEF Begin, TxGoto, CreditForDeposit, MarkInv, WorkerTxTypeOK, workerVars
<1>11. ASSUME UNCHANGED <<dbVars, txVars>> PROVE LedgerInv'
  BY <1>1, <1>2, <1>11 DEF CreditForDeposit, txVars
<1> QED  BY <1>3, <1>4, <1>6, <1>7, <1>8, <1>9, <1>10, <1>11
         DEF WorkerTxNext, TxStep, EnqueueEnsures, Tick, workerTxVars, workerVars

-----------------------------------------------------------------------------
\* The count of a player's recent bets depends on nothing of other players.
LEMMA OthersCountAlike ==
  ASSUME NEW e \in Events, NEW g \in Events, PlayerOf[g] # PlayerOf[e],
         processed' = processed \cup {g}, now' = now,
         processedAt \in [Events -> 0..MaxTime], processed \subseteq Events,
         NEW t, processedAt' = [processedAt EXCEPT ![g] = t]
  PROVE  RecentBets(e)' = RecentBets(e)
<1>1. BetsSince(PlayerOf[e], e, now - Window)' = BetsSince(PlayerOf[e], e, now - Window)
  BY DEF BetsSince
<1> QED  BY <1>1 DEF RecentBets

\* One's own transaction counts what the atomic one would, in the tick it began.
LEMMA CountsAlike ==
  ASSUME MarkInv, NEW h \in Handlers, step[h] = "count", began[h] = now
  PROVE  RecentBetsTx(h) = RecentBets(event[h])
<1>1. began[h] >= now - Window
  BY WorkerAssumption DEF MarkInv, WorkerTxTypeOK, WorkerTypeOK
<1> QED  BY <1>1 DEF RecentBetsTx, RecentBets, PlayerAt

LEMMA SerialStep == MarkInv /\ SerialInv /\ [WorkerTxNext]_workerTxVars => SerialInv'
<1> SUFFICES ASSUME MarkInv, SerialInv, [WorkerTxNext]_workerTxVars PROVE SerialInv'
  OBVIOUS
<1>0. /\ step \in [Handlers -> Steps] /\ event \in [Handlers -> Events \cup {NoEvent}]
      /\ began \in [Handlers -> 0..MaxTime] /\ seen \in [Handlers -> PlayerState]
      /\ result \in [Handlers -> Results] /\ now \in 0..MaxTime
      /\ MaxTime \in Nat
  BY WorkerAssumption DEF MarkInv, WorkerTxTypeOK, WorkerTypeOK
<1>1. ASSUME UNCHANGED workerVars PROVE \A e : RecentBets(e)' = RecentBets(e)
  BY <1>1 DEF workerVars, dbVars, RecentBets, BetsSince
<1>2. ASSUME NEW h \in Handlers, EnsurePlayerTx(h), crossed' = crossed PROVE SerialInv'
  BY <1>0, <1>1, <1>2 DEF EnsurePlayerTx, TxGoto, workerVars, dbVars, SerialInv, BeganBefore,
     SamePlayerSameEvent, SeenIsStored, ResultIsNow, PlayerAt
<1>3. ASSUME NEW h \in Handlers, EndTx(h), UNCHANGED workerVars, crossed' = crossed PROVE SerialInv'
  BY <1>0, <1>1, <1>3 DEF EndTx, workerVars, dbVars, SerialInv, BeganBefore,
     SamePlayerSameEvent, SeenIsStored, ResultIsNow, PlayerAt
<1>4. ASSUME NEW h \in Handlers, MarkTx(h), crossed' = crossed PROVE SerialInv'
  <2>1. CASE event[h] \in processed
    BY <1>3, <1>4, <2>1 DEF MarkTx
  <2>2. CASE event[h] \notin processed
    BY <1>0, <1>1, <1>4, <2>2 DEF MarkTx, TxGoto, workerVars, dbVars, SerialInv, BeganBefore,
       SamePlayerSameEvent, SeenIsStored, ResultIsNow, PlayerAt
  <2> QED  BY <2>1, <2>2
<1>5. ASSUME NEW h \in Handlers, GetPlayerStateTx(h), crossed' = crossed PROVE SerialInv'
  BY <1>0, <1>1, <1>5 DEF GetPlayerStateTx, TxGoto, workerVars, dbVars, SerialInv, BeganBefore,
     SamePlayerSameEvent, SeenIsStored, ResultIsNow, PlayerAt
<1>6. ASSUME NEW h \in Handlers, CountAndApply(h), crossed' = crossed PROVE SerialInv'
  <2>1. began[h] = now => RecentBetsTx(h) = RecentBets(event[h])
    BY <1>6, CountsAlike DEF CountAndApply, TxGoto
  <2> QED  BY <1>0, <1>1, <1>6, <2>1 DEF CountAndApply, TxGoto, workerVars, dbVars, SerialInv,
       BeganBefore, SamePlayerSameEvent, SeenIsStored, ResultIsNow, PlayerAt
<1>7. ASSUME NEW h \in Handlers, SavePlayerStateTx(h), crossed' = crossed PROVE SerialInv'
  BY <1>0, <1>1, <1>7 DEF SavePlayerStateTx, TxGoto, workerVars, dbVars, SerialInv, BeganBefore,
     SamePlayerSameEvent, SeenIsStored, ResultIsNow, PlayerAt
<1>8. ASSUME NEW h \in Handlers, CommitTx(h), crossed' = crossed PROVE SerialInv'
  <2> DEFINE e == event[h]
  <2>1. /\ step[h] = "commit" /\ e \in Events /\ PlayerOf[e] \in Players
        /\ pstate \in [Players -> PlayerState] /\ now' = now
        /\ pstate' = [pstate EXCEPT ![PlayerOf[e]] = result[h].state]
        /\ processed' = processed \cup {e} /\ processedAt' = [processedAt EXCEPT ![e] = began[h]]
        /\ step' = [step EXCEPT ![h] = "idle"] /\ event' = [event EXCEPT ![h] = NoEvent]
        /\ began' = [began EXCEPT ![h] = 0] /\ seen' = [seen EXCEPT ![h] = NewPlayerState]
        /\ result' = [result EXCEPT ![h] = NoResult]
    BY <1>8, EventsAssumption DEF CommitTx, EndTx, MarkInv, BusyHasEvent, WorkerTxTypeOK,
       WorkerTypeOK
  <2>2. BeganBefore'
    BY <1>0, <2>1 DEF SerialInv, BeganBefore
  <2>3. ASSUME ~crossed PROVE SamePlayerSameEvent' /\ SeenIsStored' /\ ResultIsNow'
    <3>1. ASSUME NEW g \in Handlers, g # h, step[g] \in {"count", "save", "commit"}
          PROVE  /\ event[g] \in Events /\ PlayerOf[event[g]] # PlayerOf[e]
                 /\ PlayerOf[event[g]] \in Players
      <4>1. event[g] # e
        BY <3>1, <2>1 DEF MarkInv, HoldersAlone, Holding
      <4>2. event[g] \in Events
        BY <3>1 DEF MarkInv, BusyHasEvent
      <4>3. SamePlayerSameEvent
        BY <2>3 DEF SerialInv
      <4> QED  BY <4>1, <4>2, <4>3, <3>1, <2>1, EventsAssumption DEF SamePlayerSameEvent, PlayerAt
    <3>2. SamePlayerSameEvent'
      BY <2>3, <2>1, <1>0 DEF SerialInv, SamePlayerSameEvent, PlayerAt
    <3>3. SeenIsStored'
      BY <2>3, <2>1, <3>1, <1>0 DEF SerialInv, SeenIsStored, PlayerAt
    <3>4. ASSUME NEW g \in Handlers, step'[g] \in {"save", "commit"}, began'[g] = now'
          PROVE  (result[g] = Apply(event[g], pstate[PlayerAt(g)], RecentBets(event[g])))'
      <4>1. /\ g # h /\ step[g] \in {"save", "commit"} /\ began[g] = now
            /\ result'[g] = result[g] /\ event'[g] = event[g]
        BY <3>4, <2>1, <1>0
      <4>2. /\ event[g] \in Events /\ PlayerOf[event[g]] # PlayerOf[e]
            /\ PlayerOf[event[g]] \in Players
        BY <3>1, <4>1
      <4>3. pstate'[PlayerOf[event[g]]] = pstate[PlayerOf[event[g]]]
        BY <4>2, <2>1
      <4>4. result[g] = Apply(event[g], pstate[PlayerAt(g)], RecentBets(event[g]))
        BY <2>3, <4>1 DEF SerialInv, ResultIsNow
      <4>5. PICK f \in Events : f = event[g]
        BY <4>2
      <4>6. RecentBets(f)' = RecentBets(f)
        <5>1. processedAt \in [Events -> 0..MaxTime] /\ processed \subseteq Events
          BY DEF MarkInv, WorkerTxTypeOK, WorkerTypeOK
        <5>2. PICK d \in Events : d = e
          BY <2>1
        <5> QED  BY <2>1, <4>2, <4>5, <5>1, <5>2, OthersCountAlike
      <4>7. (RecentBets(event[g]) = RecentBets(f))' /\ RecentBets(event[g]) = RecentBets(f)
        BY <4>1, <4>5
      <4> QED  BY <4>1, <4>3, <4>4, <4>6, <4>7 DEF PlayerAt
    <3> QED  BY <3>2, <3>3, <3>4 DEF ResultIsNow
  <2> QED  BY <1>8, <2>2, <2>3 DEF SerialInv
<1>9. ASSUME NEW h \in Handlers, NEW e \in Events, Begin(h, e) PROVE SerialInv'
  <2>1. BeganBefore'
    BY <1>0, <1>9 DEF Begin, TxGoto, workerVars, SerialInv, BeganBefore
  <2>2. ASSUME ~crossed' PROVE SamePlayerSameEvent' /\ SeenIsStored' /\ ResultIsNow'
    <3>1. /\ ~crossed
          /\ \A g \in Handlers : step[g] # "idle" /\ PlayerAt(g) = PlayerOf[e] => event[g] = e
      BY <1>9, <2>2 DEF Begin, Busy
    <3>2. /\ step' = [step EXCEPT ![h] = "ensure"] /\ event' = [event EXCEPT ![h] = e]
          /\ began' = [began EXCEPT ![h] = now] /\ UNCHANGED <<workerVars, seen, result>>
      BY <1>9 DEF Begin, TxGoto
    <3>3. SamePlayerSameEvent'
      BY <3>1, <3>2, <1>0 DEF SerialInv, SamePlayerSameEvent, PlayerAt
    <3>4. SeenIsStored' /\ ResultIsNow'
      BY <1>0, <1>1, <3>1, <3>2 DEF SerialInv, workerVars, dbVars, SeenIsStored, ResultIsNow, PlayerAt
    <3> QED  BY <3>3, <3>4
  <2> QED  BY <2>1, <2>2 DEF SerialInv
<1>10. ASSUME NEW p \in Players, EnqueueEnsures(p), UNCHANGED txVars PROVE SerialInv'
  <2>1. \A e : RecentBets(e)' = RecentBets(e)
    BY <1>10 DEF EnqueueEnsures, dbVars, RecentBets, BetsSince
  <2> QED  BY <1>10, <2>1 DEF EnqueueEnsures, txVars, dbVars, SerialInv, BeganBefore,
       SamePlayerSameEvent, SeenIsStored, ResultIsNow, PlayerAt
<1>11. CASE Tick /\ UNCHANGED txVars
  <2>1. \A h \in Handlers : began'[h] <= now' /\ began'[h] # now'
    BY <1>0, <1>11 DEF Tick, txVars, SerialInv, BeganBefore
  <2> QED  BY <1>11, <2>1 DEF Tick, txVars, dbVars, SerialInv, BeganBefore,
       SamePlayerSameEvent, SeenIsStored, ResultIsNow, PlayerAt
<1>12. CASE UNCHANGED workerTxVars
  BY <1>1, <1>12 DEF workerTxVars, workerVars, txVars, dbVars, SerialInv, BeganBefore,
     SamePlayerSameEvent, SeenIsStored, ResultIsNow, PlayerAt
<1> QED  BY <1>2, <1>3, <1>4, <1>5, <1>6, <1>7, <1>8, <1>9, <1>10, <1>11, <1>12
         DEF WorkerTxNext, TxStep, RollbackTx
LEMMA TxStepInv == TxInv /\ [WorkerTxNext]_workerTxVars => TxInv'
  BY MarkStep, LedgerStep, SerialStep DEF TxInv

-----------------------------------------------------------------------------
\* However transactions overlap, crossed or not: an event has one entry at most, marks
\* and entries commit together, and a balance is the sum of its entries.
THEOREM TxLedgerExact == WorkerTxSpec => []LedgerIsExact
<1>1. TxInv => LedgerIsExact
  BY DEF TxInv, LedgerInv
<1> QED  BY TxInit, TxStepInv, <1>1, PTL DEF WorkerTxSpec

\* A commit that crossed no other event of its player is one atomic Handle.
LEMMA CommitIsHandle ==
  ASSUME TxInv, ~crossed, NEW h \in Handlers, CommitTx(h), began[h] = now
  PROVE  event[h] \in Events /\ Handle(event[h]) /\ UNCHANGED now
<1> DEFINE e == event[h]
<1>1. step[h] = "commit" /\ e \in Events /\ e \notin processed
  BY DEF CommitTx, TxInv, MarkInv, BusyHasEvent, HeldIsNew, Holding
<1>2. result[h] = Apply(e, pstate[PlayerOf[e]], RecentBets(e))
  BY <1>1 DEF TxInv, SerialInv, ResultIsNow, PlayerAt
<1> QED  BY <1>1, <1>2 DEF CommitTx, Handle, MarkProcessedTx

LEMMA TxSimulates ==
  TxInv /\ [WorkerTxNext]_workerTxVars => [~crossed /\ InTick => WorkerNext]_workerVars
<1> SUFFICES ASSUME TxInv, [WorkerTxNext]_workerTxVars, ~crossed, InTick
             PROVE  WorkerNext \/ UNCHANGED workerVars
  OBVIOUS
<1>1. ASSUME NEW h \in Handlers, TxStep(h) PROVE WorkerNext \/ UNCHANGED workerVars
  <2>1. CASE CommitTx(h)
    <3>1. began[h] = now
      BY <2>1 DEF CommitTx, InTick
    <3> QED  BY <2>1, <3>1, CommitIsHandle DEF WorkerNext
  <2>2. CASE ~CommitTx(h)
    BY <1>1, <2>2 DEF TxStep, EnsurePlayerTx, MarkTx, GetPlayerStateTx, CountAndApply,
       SavePlayerStateTx
  <2> QED  BY <2>1, <2>2
<1>2. ASSUME NEW h \in Handlers, RollbackTx(h) PROVE UNCHANGED workerVars
  BY <1>2 DEF RollbackTx
<1>3. ASSUME NEW h \in Handlers, NEW e \in Events, Begin(h, e) PROVE UNCHANGED workerVars
  BY <1>3 DEF Begin
<1>4. UNCHANGED workerTxVars => UNCHANGED workerVars
  BY DEF workerTxVars
<1> QED  BY <1>1, <1>2, <1>3, <1>4 DEF WorkerTxNext, WorkerNext

\* Statement by statement, transactions implement the atomic worker as long as no two
\* events of one player have overlapped and commits fall in the tick they began in.
THEOREM TxImplementsWorker == WorkerTxSpec => ImplementsWorker
<1>1. WorkerTxInit => WorkerInit
  BY DEF WorkerTxInit
<1> QED  BY <1>1, TxInit, TxStepInv, TxSimulates, PTL DEF WorkerTxSpec, ImplementsWorker

-----------------------------------------------------------------------------
SnapshotTypeOK ==
  /\ reading \in {"none", "balance"}
  /\ \A s \in {got, snapshot} : s = [state |-> s.state, balance |-> s.balance]

\* A tag that was read stays true of the player, and so does the balance read after it.
TagsReadAreTrue ==
  /\ reading = "balance" /\ "welcome_bonus" \in got.state.tags => Tagged(Watched)
  /\ TagShowsCredit

SnapshotInv == WorkerInv /\ SnapshotTypeOK /\ TagsReadAreTrue

LEMMA SnapshotInitInv == SnapshotInit => SnapshotInv
<1> SUFFICES ASSUME SnapshotInit PROVE SnapshotInv
  OBVIOUS
<1>1. /\ Unread = [state |-> Unread.state, balance |-> Unread.balance]
      /\ Unread.state.tags = {}
  BY DEF Unread, NewPlayerState
<1>2. WorkerInv /\ reading = "none" /\ got = Unread /\ snapshot = Unread
  BY WorkerInitInv DEF SnapshotInit
<1> QED  BY <1>1, <1>2 DEF SnapshotInv, SnapshotTypeOK, TagsReadAreTrue, TagShowsCredit

\* No transaction takes a tag away.
LEMMA TagsStay ==
  ASSUME WorkerInv, [WorkerNext]_workerVars, NEW p \in Players, Tagged(p)
  PROVE  Tagged(p)'
<1>1. Deposits(p)' # {}
  <2>1. Deposits(p) # {}
    BY DEF WorkerInv, LedgerFollowsMarks
  <2>2. processed \subseteq processed'
    BY DEF WorkerNext, Handle, MarkProcessedTx, SkipDuplicate, EnqueueEnsures, Tick, dbVars,
       workerVars
  <2> QED  BY <2>1, <2>2 DEF Deposits
<1>2. WorkerInv'
  BY WorkerStepInv
<1> QED  BY <1>1, <1>2 DEF WorkerInv, LedgerFollowsMarks

LEMMA SnapshotStepInv ==
  SnapshotInv /\ [SnapshotNext]_<<workerVars, clientVars>> => SnapshotInv'
<1> SUFFICES ASSUME SnapshotInv, [SnapshotNext]_<<workerVars, clientVars>> PROVE SnapshotInv'
  OBVIOUS
<1> USE DEF SnapshotInv
<1>1. CASE [WorkerNext]_workerVars /\ UNCHANGED clientVars
  <2>1. WorkerInv'
    BY <1>1, WorkerStepInv
  <2>2. Tagged(Watched) => Tagged(Watched)'
    BY <1>1, TagsStay, WatchedAssumption
  <2> QED  BY <1>1, <2>1, <2>2 DEF clientVars, SnapshotTypeOK, TagsReadAreTrue, TagShowsCredit
<1>2. CASE FirstQuery
  <2>1. WorkerInv' /\ Tagged(Watched)' = Tagged(Watched)
    BY <1>2, WorkerStepInv DEF FirstQuery, workerVars, dbVars, Tagged
  <2> QED  BY <1>2, <2>1 DEF FirstQuery, Queries, Query, SnapshotTypeOK, TagsReadAreTrue,
       TagShowsCredit, Tagged
<1>3. CASE SecondQuery
  <2>1. WorkerInv' /\ Tagged(Watched)' = Tagged(Watched)
    BY <1>3, WorkerStepInv DEF SecondQuery, workerVars, dbVars, Tagged
  <2>2. /\ reading = "balance" /\ reading' = "none"
        /\ got' = [got EXCEPT !.balance = balance[Watched]] /\ snapshot' = got'
    BY <1>3 DEF SecondQuery, Queries, Query
  <2>3. "welcome_bonus" \in got.state.tags => balance[Watched] = WelcomeCredit
    BY <2>2, WatchedAssumption DEF TagsReadAreTrue, WorkerInv, WelcomeOnce
  <2> QED  BY <2>1, <2>2, <2>3 DEF SnapshotTypeOK, TagsReadAreTrue, TagShowsCredit
<1> QED  BY <1>1, <1>2, <1>3 DEF SnapshotNext

\* An answer that shows the welcome tag shows its credit.
THEOREM SnapshotTagShowsCredit == SnapshotSpec => []TagShowsCredit
<1>1. SnapshotInv => TagShowsCredit
  BY DEF SnapshotInv, TagsReadAreTrue
<1> QED  BY SnapshotInitInv, SnapshotStepInv, <1>1, PTL DEF SnapshotSpec
=============================================================================
