----------------------------- MODULE MCPipeline -----------------------------
(***************************************************************************)
(* Two deposits of one player through the whole program.                   *)
(***************************************************************************)
EXTENDS Pipeline

CONSTANTS d1, d2, p1

MCEvents == {d1, d2}
MCPlayers == {p1}
MCPlayerOf == [e \in MCEvents |-> p1]
MCTypeOf == [e \in MCEvents |-> "deposit"]
MCAmountOf == [e \in MCEvents |-> 4]
=============================================================================
