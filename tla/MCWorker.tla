------------------------------ MODULE MCWorker ------------------------------
(***************************************************************************)
(* Two deposits and three bets of one player, a bet and a heartbeat of     *)
(* another; thresholds scaled down so that a few bets cross both, and the  *)
(* scores so that the third bet of the first player wraps.  A client asks  *)
(* for that player.  The bets b1 and b3 differ in nothing but their name,  *)
(* so they may be exchanged.                                               *)
(***************************************************************************)
EXTENDS Snapshot, TLC

CONSTANTS d1, d2, b1, b2, b3, b4, h1, p1, p2

MCEvents == {d1, d2, b1, b2, b3, b4, h1}
MCPlayers == {p1, p2}
MCPlayerOf == [e \in MCEvents |-> IF e \in {b4, h1} THEN p2 ELSE p1]
MCTypeOf ==
  [e \in MCEvents |-> CASE e \in {d1, d2} -> "deposit"
                        [] e = h1         -> "session_heartbeat"
                        [] OTHER          -> "bet_placed"]
MCAmountOf == [e \in MCEvents |-> CASE e = h1 -> -1 [] e \in {b2, b4} -> 3 [] OTHER -> 2]

MCSymmetry == Permutations({b1, b3})
=============================================================================
