------------------------------ MODULE Delivery ------------------------------
(***************************************************************************)
(* What EngagePulse promises a partner, without rows, topics or offsets:   *)
(* an accepted event is applied at most once or parked for a human, and a  *)
(* player is paid the welcome credit by the first deposit applied, once.   *)
(***************************************************************************)
EXTENDS Integers

CONSTANTS Events, Players, PlayerOf, TypeOf, WelcomeCredit

VARIABLES
  accepted,  \* events saved for processing
  applied,   \* events whose effect the players have
  parked,    \* events given up, waiting for a human
  paid       \* reward balance of each player

deliveryVars == <<accepted, applied, parked, paid>>

DeliveryInit ==
  /\ accepted = {}
  /\ applied = {}
  /\ parked = {}
  /\ paid = [p \in Players |-> 0]

Save(e) ==
  /\ accepted' = accepted \cup {e}
  /\ UNCHANGED <<applied, parked, paid>>

FirstDeposit(e) ==
  /\ TypeOf[e] = "deposit"
  /\ \A f \in applied : PlayerOf[f] = PlayerOf[e] => TypeOf[f] # "deposit"

ApplyOnce(e) ==
  /\ e \in accepted \ applied
  /\ applied' = applied \cup {e}
  /\ paid' = IF FirstDeposit(e)
               THEN [paid EXCEPT ![PlayerOf[e]] = @ + WelcomeCredit] ELSE paid
  /\ UNCHANGED <<accepted, parked>>

Park(e) ==
  /\ e \in accepted
  /\ parked' = parked \cup {e}
  /\ UNCHANGED <<accepted, applied, paid>>

DeliveryNext == \E e \in Events : Save(e) \/ ApplyOnce(e) \/ Park(e)

DeliverySpec == DeliveryInit /\ [][DeliveryNext]_deliveryVars
=============================================================================
