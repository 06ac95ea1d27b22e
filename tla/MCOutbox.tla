------------------------------ MODULE MCOutbox ------------------------------
(***************************************************************************)
(* Small instances of Outbox: what events contain is irrelevant here.      *)
(***************************************************************************)
EXTENDS Outbox

CONSTANT p1

MCPlayers == {p1}
MCPlayerOf == [e \in Events |-> p1]
MCTypeOf == [e \in Events |-> "deposit"]
MCAmountOf == [e \in Events |-> 1]
=============================================================================
