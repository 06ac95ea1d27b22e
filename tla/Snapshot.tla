------------------------------ MODULE Snapshot ------------------------------
(***************************************************************************)
(* GetPlayerSnapshot (store/player.go), what GET /v1/players/{id} and the  *)
(* gRPC GetPlayer answer: the state row and the balance are read by two    *)
(* queries outside any transaction, while the worker commits.  One client  *)
(* asks for one player, again and again; clients do not change anything,   *)
(* so one is as good as many.                                              *)
(***************************************************************************)
EXTENDS Worker

CONSTANT Watched  (* the player the client asks for                         *)

ASSUME WatchedAssumption == Watched \in Players

VARIABLES
  reading,  \* the query its request is at, "none" between requests
  got,      \* the state and balance the request has read so far
  snapshot  \* its last answer, state and balance

clientVars == <<reading, got, snapshot>>

\* Before the first answer the client knows what a new player's row says.
Unread == [state |-> NewPlayerState, balance |-> 0]

SnapshotInit == WorkerInit /\ reading = "none" /\ got = Unread /\ snapshot = Unread

-----------------------------------------------------------------------------
\* Mutant: the balance is read before the state.
BalanceFirst == <<"balance", "state">>

\* The order of GetPlayerSnapshot's two queries.
Queries == <<"state", "balance">>

\* A query sees what is committed when it runs.
Query(table) ==
  got' = IF table = "state" THEN [got EXCEPT !.state = pstate[Watched]]
                            ELSE [got EXCEPT !.balance = balance[Watched]]

\* A player without rows is ErrNotFound: 404, and nothing is shown.
FirstQuery ==
  /\ reading = "none" /\ reading' = Queries[2]
  /\ Watched \in playerRows
  /\ Query(Queries[1])
  /\ UNCHANGED <<workerVars, snapshot>>

SecondQuery ==
  /\ reading = Queries[2] /\ reading' = "none"
  /\ Query(Queries[2])
  /\ snapshot' = got'
  /\ UNCHANGED workerVars

SnapshotNext ==
  \/ WorkerNext /\ UNCHANGED clientVars
  \/ FirstQuery
  \/ SecondQuery

SnapshotSpec == SnapshotInit /\ [][SnapshotNext]_<<workerVars, clientVars>>

-----------------------------------------------------------------------------
\* An answer that shows the welcome tag shows its credit, paid once, although the two
\* were read at different times: the state is read first and the credit is never taken
\* back (GetPlayerSnapshot's order against Handle's one transaction).
TagShowsCredit ==
  "welcome_bonus" \in snapshot.state.tags => snapshot.balance = WelcomeCredit
=============================================================================
