----------------------------- MODULE ShadowRule -----------------------------
(***************************************************************************)
(* The shadow board (web/lib/shadow-score.ts, internal/shadow): recorded   *)
(* packs of a player's events, scored in memory by the velocity rule over  *)
(* their occurred_at times and by the mock model, and compared.  Nothing   *)
(* is written but the row shown.                                           *)
(***************************************************************************)
EXTENDS Integers, Sequences, FiniteSets

CONSTANTS
  VelocityLimit,  (* bets that trip the flag, 5 in the code                 *)
  Minute,         (* the rule's window                                      *)
  Times,          (* the times of events                                    *)
  MaxPack         (* bound on a pack's length                               *)

ASSUME ShadowAssumption ==
  {Minute, MaxPack} \subseteq Nat /\ Times \subseteq Nat /\ VelocityLimit \in Nat \ {0}

VARIABLES
  pack,  \* the recorded events, in the order of the file
  row    \* what the board says of it, {} before

shadowVars == <<pack, row>>

ShadowEvents == [type : {"deposit", "bet_placed"}, at : Times]

ShadowInit == pack = <<>> /\ row = {}

\* The positions of a pack's bets.
PackBets == {i \in DOMAIN pack : pack[i].type = "bet_placed"}

\* Mutant: the bet itself is not counted.
RuleFlagsOthers ==
  \E i \in PackBets :
    Cardinality({j \in PackBets : j < i /\ pack[i].at - pack[j].at <= Minute}) >= VelocityLimit

\* ruleFlags, RuleWouldFlag: a bet that has limit - 1 before it no more than a minute old.
RuleFlags ==
  \E i \in PackBets :
    Cardinality({j \in PackBets : j < i /\ pack[i].at - pack[j].at <= Minute}) + 1 >= VelocityLimit

\* mockFlags, Mock.Score: as many bets in the whole pack.
MockFlags == Cardinality(PackBets) >= VelocityLimit

\* The next event of the file.
Record ==
  /\ row = {} /\ Len(pack) < MaxPack
  /\ \E e \in ShadowEvents : pack' = Append(pack, e)
  /\ UNCHANGED row

\* scoreShadowBoard, Compare.
Score ==
  /\ row = {}
  /\ row' = {[rule |-> RuleFlags, model |-> MockFlags, agree |-> RuleFlags = MockFlags]}
  /\ UNCHANGED pack

ShadowNext == Record \/ Score

ShadowSpec == ShadowInit /\ [][ShadowNext]_shadowVars

-----------------------------------------------------------------------------
InOrder == \A i, j \in DOMAIN pack : i < j => pack[i].at <= pack[j].at

\* Some limit bets lie within one minute, both ends included.
Burst ==
  \E from \in Times : Cardinality({i \in PackBets : pack[i].at \in from..(from + Minute)}) >= VelocityLimit

\* Of a pack in order the rule flags exactly the bursts, as the worker does of bets it
\* handles at these times; and the mock, which knows no window, can only disagree by
\* flagging more (shadow-score.ts: "matching rules.ApplyIntegrity").
BoardIsRight ==
  \A r \in row : InOrder => (r.rule <=> Burst) /\ (~r.agree => r.model)
=============================================================================
