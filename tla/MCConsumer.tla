----------------------------- MODULE MCConsumer -----------------------------
(***************************************************************************)
(* Two deposits of one player, a bet (poison in some runs) and messages    *)
(* that are no events, on a topic other programs fill.                     *)
(***************************************************************************)
EXTENDS Consumer

CONSTANTS d1, d2, b1, p1

MCEvents == {d1, d2, b1}
MCPlayers == {p1}
MCPlayerOf == [e \in MCEvents |-> p1]
MCTypeOf == [e \in MCEvents |-> IF e = b1 THEN "bet_placed" ELSE "deposit"]
MCAmountOf == [e \in MCEvents |-> 1]
=============================================================================
