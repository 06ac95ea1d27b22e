------------------------------- MODULE Rules --------------------------------
(***************************************************************************)
(* The rules engine (internal/rules): pure functions of an event, a        *)
(* player's state and the number of the player's other recent bets.  The   *)
(* score is a Go int64, so its addition wraps at ScoreBound (2^63).        *)
(***************************************************************************)
EXTENDS Domain

CONSTANTS
  WelcomeCredit,       (* credit of a first deposit, 100 in the code        *)
  VIPSilverThreshold,  (* least silver score, 1000 in the code              *)
  VIPGoldThreshold,    (* least gold score, 5000 in the code                *)
  VelocityBetLimit,    (* bets in a minute that trip the flag, 5 in the code*)
  ScoreBound           (* scores are in -ScoreBound .. ScoreBound - 1       *)

ASSUME RulesAssumption ==
  /\ WelcomeCredit \in Nat \ {0}
  /\ VIPSilverThreshold \in Nat \ {0}
  /\ VIPGoldThreshold \in Nat
  /\ VIPSilverThreshold < VIPGoldThreshold
  /\ VelocityBetLimit \in Nat \ {0}
  /\ ScoreBound \in Nat
  /\ VIPGoldThreshold < ScoreBound
  /\ \A e \in Events : AmountOf[e] \in -ScoreBound .. ScoreBound - 1

Scores == -ScoreBound .. ScoreBound - 1
Tiers == {"bronze", "silver", "gold"}

\* store.PlayerState without its key and timestamp.  OfferTags has no duplicates
\* (withOffer), so the slice is a set; its only tag is welcome_bonus.
PlayerState == [score : Scores, tier : Tiers,
                tags : SUBSET {"welcome_bonus"}, flag : {"", "velocity"}]

\* Mutant: a default that is no tier.
NewPlayerStateNoTier == [score |-> 0, tier |-> "", tags |-> {}, flag |-> ""]

\* The column defaults of player_state.
NewPlayerState == [score |-> 0, tier |-> "bronze", tags |-> {}, flag |-> ""]

\* Go's int64 addition of a non-negative amount.
AddInt64(score, amount) ==
  IF score + amount < ScoreBound THEN score + amount
                                 ELSE score + amount - 2 * ScoreBound

TierForScore(score) ==
  CASE score >= VIPGoldThreshold                               -> "gold"
    [] score >= VIPSilverThreshold /\ score < VIPGoldThreshold -> "silver"
    [] score < VIPSilverThreshold                              -> "bronze"

\* Mutant: hasOffer is not asked, every deposit is welcomed.
ApplyWelcomeEveryDeposit(e, st) ==
  [state |-> IF TypeOf[e] = "deposit" THEN [st EXCEPT !.tags = {"welcome_bonus"}] ELSE st,
   credit |-> IF TypeOf[e] = "deposit" THEN WelcomeCredit ELSE 0]

\* A result is the new state and the amount asked of the ledger.
ApplyWelcome(e, st) ==
  IF TypeOf[e] = "deposit" /\ "welcome_bonus" \notin st.tags
    THEN [state |-> [st EXCEPT !.tags = @ \cup {"welcome_bonus"}],
          credit |-> WelcomeCredit]
    ELSE [state |-> st, credit |-> 0]

ApplyVIP(e, res) ==
  LET score == IF AmountOf[e] > 0 THEN AddInt64(res.state.score, AmountOf[e])
                                  ELSE res.state.score
  IN  IF TypeOf[e] = "bet_placed"
        THEN [res EXCEPT !.state.score = score, !.state.tier = TierForScore(score)]
        ELSE res

\* recentBets counts the other bets of the window; + 1 is this bet.
ApplyIntegrity(e, res, recentBets) ==
  IF TypeOf[e] = "bet_placed" /\ recentBets + 1 >= VelocityBetLimit
    THEN [res EXCEPT !.state.flag = "velocity"]
    ELSE res

Apply(e, st, recentBets) ==
  ApplyIntegrity(e, ApplyVIP(e, ApplyWelcome(e, st)), recentBets)
=============================================================================
