------------------------------- MODULE Domain -------------------------------
(***************************************************************************)
(* The events partners send and the Postgres rows that exist per player.   *)
(*                                                                         *)
(* An event stands for its key (tenant_id, event_id) together with the one *)
(* payload that key was accepted with; a player for (tenant_id, player_id).*)
(* Every table, and the message key, is keyed by the pair, so brands never *)
(* share a row.                                                            *)
(***************************************************************************)
EXTENDS Integers, FiniteSets, Sequences

CONSTANTS
  Events,    (* events that pass ingest.ValidateEvent                       *)
  Players,   (* players of all brands                                       *)
  PlayerOf,  (* the player an event is about                                *)
  TypeOf,    (* its type                                                    *)
  AmountOf   (* its amount                                                  *)

EventTypes == {"deposit", "bet_placed", "session_heartbeat"}

ASSUME EventsAssumption ==
  /\ IsFiniteSet(Events)
  /\ PlayerOf \in [Events -> Players]
  /\ TypeOf \in [Events -> EventTypes]
  /\ AmountOf \in [Events -> Int]

\* ingest.ValidateEvent: a known type, and a positive amount of deposits and bets.
ValidateEvent(e) ==
  /\ TypeOf[e] \in EventTypes
  /\ TypeOf[e] \in {"deposit", "bet_placed"} => AmountOf[e] > 0

ASSUME ValidatedAssumption == \A e \in Events : ValidateEvent(e)

VARIABLE playerRows  \* players with rows in players, player_state and balances

\* store.ensurePlayer: three INSERT ... ON CONFLICT DO NOTHING.
EnsurePlayer(p) == playerRows' = playerRows \cup {p}
=============================================================================
