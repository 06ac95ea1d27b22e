------------------------- MODULE KeyRotationProofs --------------------------
(***************************************************************************)
(* A replaced key is good until the end of its overlap, less a second at   *)
(* most, and no longer, and a key id told goes with its secret, for any    *)
(* number of rotations, secrets, overlaps and lost answers.  A replaced    *)
(* key is in the row's slot until an update takes it, and the slot's end   *)
(* is its own, cut to a second.  While no rotations race the key ids grow, *)
(* so no two keys of the row share one.                                    *)
(***************************************************************************)
EXTENDS KeyRotation, TLAPS

\* The ids of the row's two keys differ.
IdsGrow ==
  /\ row.id >= 1
  /\ row.prevId < row.id
  /\ row.prevSecret # NoSecret => row.prevId >= 1
  /\ \A k \in replaced : k.id >= 1

\* Where a replaced key is: in the slot until that is taken, and then in none.
SlotHasItsKey ==
  \A k \in replaced : k.secret # row.secret =>
    /\ ~k.cut => k.secret = row.prevSecret /\ k.id = row.prevId
    /\ k.secret = row.prevSecret => row.prevUntil = Unix(k.until)

\* Where the key of an answered rotation is.
ToldIsItsKey ==
  \A r \in Rotations : rpc[r] = "done" =>
    /\ row.secret = SecretOf[r] => row.id = told[r]
    /\ row.secret # SecretOf[r] /\ row.prevSecret = SecretOf[r] => row.prevId = told[r]

RotationInv ==
  RotationTypeOK /\ SlotHasItsKey /\ (~raced => IdsGrow /\ ToldIsItsKey)

-----------------------------------------------------------------------------
\* Seconds are natural numbers: a second earlier in seconds is earlier in ticks, and a
\* second's ticks earlier is earlier in seconds.
LEMMA UnixOrders ==
  ASSUME NEW t \in Nat, NEW u \in Nat
  PROVE  /\ Unix(t) \in Nat
         /\ Unix(t) < Unix(u) => t < u
         /\ t + TicksPerSecond <= u => Unix(t) < Unix(u)
<1> DEFINE S == TicksPerSecond
<1>1. S \in Nat /\ S > 0
  BY RotationAssumption
<1>2. ASSUME NEW n \in Nat
      PROVE  n \div S \in Nat /\ S * (n \div S) <= n /\ n < S * (n \div S) + S
  BY <1>1
<1> DEFINE a == t \div S
           b == u \div S
<1>3. /\ a \in Nat /\ S * a <= t /\ t < S * a + S
      /\ b \in Nat /\ S * b <= u /\ u < S * b + S
  BY <1>2
<1>4. Unix(t) = a /\ Unix(u) = b
  BY DEF Unix
<1> HIDE DEF S, a, b
<1>5. ASSUME a < b PROVE t < u
  <2>1. PICK d \in Nat : b = a + 1 + d
    <3>1. b - a - 1 \in Nat /\ b = a + 1 + (b - a - 1)
      BY <1>3, <1>5
    <3> QED  BY <3>1
  <2>2. S * b = S * a + S + S * d /\ S * d \in Nat /\ S * a \in Nat
    BY <1>1, <1>3, <2>1
  <2> QED  BY <1>1, <1>3, <2>2
<1>6. ASSUME t + S <= u PROVE a < b
  <2> SUFFICES ASSUME b <= a PROVE FALSE
    BY <1>3
  <2>1. PICK d \in Nat : a = b + d
    <3>1. a - b \in Nat /\ a = b + (a - b)
      BY <1>3
    <3> QED  BY <3>1
  <2>2. S * a = S * b + S * d /\ S * d \in Nat /\ S * b \in Nat
    BY <1>1, <1>3, <2>1
  <2> QED  BY <1>1, <1>3, <1>6, <2>2
<1> QED  BY <1>3, <1>4, <1>5, <1>6 DEF S

LEMMA RotationInitInv == RotationInit => RotationInv
<1> SUFFICES ASSUME RotationInit PROVE RotationInv
  OBVIOUS
<1>1. row \in KeyRow
  BY DEF RotationInit, KeyRow, Secrets
<1>2. RotationTypeOK
  <2>1. /\ rpc \in [Rotations -> {"idle", "update", "answer", "done"}]
        /\ readId \in [Rotations -> Nat] /\ until \in [Rotations -> Nat] /\ told \in [Rotations -> Nat]
    BY DEF RotationInit
  <2>2. clock = 0 /\ lost = 0 /\ MaxClock \in Nat /\ MaxLost \in Nat
    BY RotationAssumption DEF RotationInit
  <2>3. replaced = {} /\ raced = FALSE
    BY DEF RotationInit
  <2>4. clock \in 0..MaxClock /\ lost \in 0..MaxLost
    BY <2>2
  <2>5. raced \in BOOLEAN
    BY <2>3
  <2> QED  BY <1>1, <2>1, <2>3, <2>4, <2>5, Zenon DEF RotationTypeOK
<1>3. IdsGrow /\ SlotHasItsKey
  BY DEF RotationInit, IdsGrow, SlotHasItsKey
<1>4. ToldIsItsKey
  BY DEF RotationInit, ToldIsItsKey
<1> QED  BY <1>2, <1>3, <1>4 DEF RotationInv

\* The update puts the row's key into the slot, and a key of its own with a new id.
LEMMA UpdateInv ==
  ASSUME RotationInv, NEW r \in Rotations, Update(r), rpc[r] = "update",
         rpc' \in [Rotations -> {"idle", "update", "answer", "done"}],
         rpc'[r] # "done", \A q \in Rotations : q # r => rpc'[q] = rpc[q],
         lost' \in 0..MaxLost
  PROVE  RotationInv'
<1> USE DEF RotationInv
<1>1. /\ row \in KeyRow /\ readId \in [Rotations -> Nat] /\ until \in [Rotations -> Nat]
      /\ SecretOf[r] \in Secrets /\ NoSecret \notin Secrets
      /\ Unix(until[r]) \in Nat
  <2>1. until[r] \in Nat
    BY DEF RotationTypeOK
  <2> QED  BY <2>1, UnixOrders, RotationAssumption DEF RotationTypeOK, Secrets
<1>2. NextHMACKeyID(readId[r]) \in Nat
  BY <1>1 DEF NextHMACKeyID
<1>3. /\ row' \in KeyRow
      /\ row'.id = NextHMACKeyID(readId[r]) /\ row'.secret = SecretOf[r]
      /\ row'.prevId = row.id /\ row'.prevSecret = row.secret /\ row'.prevUntil = Unix(until[r])
  BY <1>1, <1>2 DEF Update, KeyRow
<1>4. \A k \in replaced' :
        \/ /\ k.cut = TRUE
           /\ \E j \in replaced : j.secret # row.secret /\ k = [j EXCEPT !.cut = TRUE]
        \/ k = [secret |-> row.secret, id |-> row.id, until |-> until[r], cut |-> FALSE]
  BY DEF Update, RotationTypeOK
<1>5. RotationTypeOK'
  <2> DEFINE Records == [secret : Secrets, id : Nat, until : Nat, cut : BOOLEAN]
  <2>1. ASSUME NEW k \in replaced' PROVE k \in Records
    <3>1. ASSUME NEW j \in replaced, k = [j EXCEPT !.cut = TRUE] PROVE k \in Records
      <4>1. j \in Records
        BY DEF RotationTypeOK
      <4> QED  BY <3>1, <4>1
    <3>2. [secret |-> row.secret, id |-> row.id, until |-> until[r], cut |-> FALSE] \in Records
      BY <1>1 DEF KeyRow, RotationTypeOK
    <3> QED  BY <1>4, <3>1, <3>2
  <2> QED  BY <1>1, <1>3, <2>1 DEF Update, RotationTypeOK
<1>6. SlotHasItsKey'
  <2> SUFFICES ASSUME NEW k \in replaced', k.secret # row'.secret
               PROVE  /\ ~k.cut => k.secret = row'.prevSecret /\ k.id = row'.prevId
                      /\ k.secret = row'.prevSecret => row'.prevUntil = Unix(k.until)
    BY DEF SlotHasItsKey, Unix
  <2>1. CASE k = [secret |-> row.secret, id |-> row.id, until |-> until[r], cut |-> FALSE]
    BY <1>3, <2>1
  <2>2. ASSUME k.cut = TRUE, NEW j \in replaced, j.secret # row.secret, k = [j EXCEPT !.cut = TRUE]
        PROVE  k.cut /\ k.secret # row'.prevSecret
    BY <1>3, <2>2 DEF RotationTypeOK
  <2> QED  BY <1>4, <2>1, <2>2
<1>7. ASSUME ~raced' PROVE IdsGrow' /\ ToldIsItsKey'
  <2>1. ~raced /\ readId[r] = row.id
    BY <1>7 DEF Update
  <2>2. IdsGrow'
    <3>1. \A k \in replaced' : k.id >= 1
      BY <1>4, <2>1 DEF IdsGrow, RotationTypeOK
    <3> QED  BY <1>1, <1>3, <2>1, <3>1 DEF IdsGrow, NextHMACKeyID, KeyRow
  <2>3. ToldIsItsKey'
    <3> SUFFICES ASSUME NEW q \in Rotations, rpc'[q] = "done"
                 PROVE  /\ row'.secret = SecretOf[q] => row'.id = told'[q]
                        /\ row'.secret # SecretOf[q] /\ row'.prevSecret = SecretOf[q] =>
                             row'.prevId = told'[q]
      BY DEF ToldIsItsKey
    <3>1. q # r /\ rpc[q] = "done" /\ SecretOf[q] # SecretOf[r] /\ told' = told
      BY RotationAssumption DEF Update
    <3> QED  BY <1>3, <2>1, <3>1 DEF ToldIsItsKey
  <2> QED  BY <2>2, <2>3
<1> QED  BY <1>5, <1>6, <1>7

LEMMA RotationStepInv == RotationInv /\ [RotationNext]_rotationVars => RotationInv'
<1> SUFFICES ASSUME RotationInv, [RotationNext]_rotationVars PROVE RotationInv'
  OBVIOUS
<1> USE DEF RotationInv
<1>1. ASSUME NEW r \in Rotations, RotateRead(r) PROVE RotationInv'
  <2>1. row.id \in Nat /\ clock + Overlap \in Nat
    BY RotationAssumption DEF RotationTypeOK, KeyRow
  <2>2. RotationTypeOK'
    BY <1>1, <2>1 DEF RotateRead, RotationGoto, RotationTypeOK
  <2>3. \A q \in Rotations : rpc'[q] = "done" => rpc[q] = "done"
    BY <1>1 DEF RotateRead, RotationGoto, RotationTypeOK
  <2> QED  BY <1>1, <2>2, <2>3 DEF RotateRead, IdsGrow, SlotHasItsKey, ToldIsItsKey, Unix
<1>2. ASSUME NEW r \in Rotations, RotateUpdate(r) PROVE RotationInv'
  BY <1>2, UpdateInv DEF RotateUpdate, RotationGoto, RotationTypeOK
<1>3. ASSUME NEW r \in Rotations, RotateUpdateFails(r) \/ RotateAnswerLost(r) PROVE RotationInv'
  <2>1. /\ rpc' \in [Rotations -> {"idle", "update", "answer", "done"}]
        /\ rpc'[r] # "done" /\ \A q \in Rotations : q # r => rpc'[q] = rpc[q]
        /\ lost' \in 0..MaxLost
    BY <1>3, RotationAssumption DEF RotateUpdateFails, RotateAnswerLost, RotationGoto, RotationTypeOK
  <2>2. CASE Update(r) /\ rpc[r] = "update"
    BY <2>1, <2>2, UpdateInv
  <2>3. CASE UNCHANGED <<row, readId, until, told, clock, replaced, raced>>
    <3>1. RotationTypeOK'
      BY <2>1, <2>3 DEF RotationTypeOK
    <3> QED  BY <2>1, <2>3, <3>1 DEF IdsGrow, SlotHasItsKey, ToldIsItsKey, Unix
  <2> QED  BY <1>3, <2>2, <2>3 DEF RotateUpdateFails, RotateAnswerLost, RotationGoto
<1>4. ASSUME NEW r \in Rotations, RotateAnswer(r) PROVE RotationInv'
  <2>1. RotationTypeOK'
    BY <1>4 DEF RotateAnswer, RotationGoto, RotationTypeOK, KeyRow
  <2>2. ~raced' => ToldIsItsKey'
    BY <1>4 DEF RotateAnswer, RotationGoto, RotationTypeOK, ToldIsItsKey
  <2> QED  BY <1>4, <2>1, <2>2 DEF RotateAnswer, IdsGrow, SlotHasItsKey, Unix
<1>5. CASE ClockTicks
  <2>1. RotationTypeOK'
    BY <1>5, RotationAssumption DEF ClockTicks, RotationTypeOK
  <2> QED  BY <1>5, <2>1 DEF ClockTicks, IdsGrow, SlotHasItsKey, ToldIsItsKey, Unix
<1>6. CASE UNCHANGED rotationVars
  BY <1>6 DEF rotationVars, RotationTypeOK, IdsGrow, SlotHasItsKey, ToldIsItsKey, Unix
<1> QED  BY <1>1, <1>2, <1>3, <1>4, <1>5, <1>6 DEF RotationNext

-----------------------------------------------------------------------------
\* The keys good now, and which of them decides.
LEMMA KeysGood ==
  ASSUME RotationTypeOK, NEW keyId, NEW secret \in Secrets
  PROVE  VerifyKeys(keyId, secret) <=>
           \/ (keyId = 0 \/ keyId = row.id) /\ secret = row.secret
           \/ /\ keyId = 0 \/ (keyId = row.prevId /\ keyId # row.id)
              /\ secret = row.prevSecret /\ PreviousLive
<1>1. CASE PreviousLive
  <2>1. TenantKeys = <<CurrentKey, PreviousKey>>
    BY <1>1 DEF TenantKeys
  <2>2. DOMAIN TenantKeys = {1, 2} /\ TenantKeys[1] = CurrentKey /\ TenantKeys[2] = PreviousKey
    BY <2>1
  <2> QED  BY <1>1, <2>2 DEF VerifyKeys, CurrentKey, PreviousKey, RotationTypeOK, KeyRow
<1>2. CASE ~PreviousLive
  <2>1. DOMAIN TenantKeys = {1} /\ TenantKeys[1] = CurrentKey
    BY <1>2 DEF TenantKeys
  <2> QED  BY <1>2, <2>1 DEF VerifyKeys, CurrentKey, RotationTypeOK, KeyRow
<1> QED  BY <1>1, <1>2

\* OverlapHonoured holds always: a replaced key is good until a second before the end of
\* its overlap at least, unless a later update took its slot, and never after that end.
THEOREM RotationHonoursOverlap == RotationSpec => []OverlapHonoured
<1>1. RotationInv => OverlapHonoured
  <2> SUFFICES ASSUME RotationInv, NEW k \in replaced, k.secret # row.secret,
                      NEW keyId \in {0, k.id}
               PROVE  /\ VerifyKeys(keyId, k.secret) => clock < k.until
                      /\ ~k.cut /\ clock + TicksPerSecond <= k.until /\ (keyId = 0 \/ ~raced) =>
                           VerifyKeys(keyId, k.secret)
    BY DEF OverlapHonoured
  <2>1. /\ RotationTypeOK /\ k.secret \in Secrets /\ NoSecret \notin Secrets
        /\ k.until \in Nat /\ clock \in Nat
    BY RotationAssumption DEF RotationInv, RotationTypeOK, Secrets
  <2>2. /\ ~k.cut => k.secret = row.prevSecret /\ k.id = row.prevId
        /\ k.secret = row.prevSecret => row.prevUntil = Unix(k.until)
    BY DEF RotationInv, SlotHasItsKey
  <2>3. /\ Unix(clock) \in Nat /\ Unix(k.until) \in Nat
        /\ Unix(clock) < Unix(k.until) => clock < k.until
        /\ clock + TicksPerSecond <= k.until => Unix(clock) < Unix(k.until)
    BY <2>1, UnixOrders
  <2>4. VerifyKeys(keyId, k.secret) <=>
          /\ keyId = 0 \/ (keyId = row.prevId /\ keyId # row.id)
          /\ k.secret = row.prevSecret /\ PreviousLive
    BY <2>1, KeysGood
  <2>5. k.secret = row.prevSecret => (PreviousLive <=> Unix(clock) < Unix(k.until))
    BY <2>1, <2>2, <2>3 DEF PreviousLive
  <2>6. ~k.cut /\ ~raced => k.id # row.id
    BY <2>1, <2>2 DEF RotationInv, IdsGrow, RotationTypeOK, KeyRow
  <2> QED  BY <2>2, <2>3, <2>4, <2>5, <2>6
<1> QED  BY RotationInitInv, RotationStepInv, <1>1, PTL DEF RotationSpec

\* AnswerIsUsable holds always: the key id of an answer goes with the secret it was
\* given for, as long as that is a good key, unless two rotations raced.
THEOREM RotationAnswersWell == RotationSpec => []AnswerIsUsable
<1>1. RotationInv => AnswerIsUsable
  <2> SUFFICES ASSUME RotationInv, NEW r \in Rotations, ~raced, rpc[r] = "done",
                      VerifyKeys(0, SecretOf[r])
               PROVE  VerifyKeys(told[r], SecretOf[r])
    BY DEF AnswerIsUsable
  <2>1. RotationTypeOK /\ IdsGrow /\ SecretOf[r] \in Secrets
    BY DEF RotationInv, Secrets
  <2>2. \/ SecretOf[r] = row.secret
        \/ SecretOf[r] = row.prevSecret /\ SecretOf[r] # row.secret /\ PreviousLive
    BY <2>1, KeysGood
  <2>3. row.prevId # row.id
    BY <2>1 DEF IdsGrow, RotationTypeOK, KeyRow
  <2> QED  BY <2>1, <2>2, <2>3, KeysGood DEF RotationInv, ToldIsItsKey
<1> QED  BY RotationInitInv, RotationStepInv, <1>1, PTL DEF RotationSpec
=============================================================================
