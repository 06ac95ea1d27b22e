---------------------------- MODULE KeyRotation -----------------------------
(***************************************************************************)
(* Rotation of a brand's HMAC key (store/tenant.go, httpapi/hmac.go): the  *)
(* tenants row keeps the current key and, for an overlap, the previous     *)
(* one.  RotateHMAC reads the row, updates it, and reads it again for its  *)
(* answer, without a transaction; two requests may interleave, and one     *)
(* whose answer was lost is made again.  Other brands have other rows.     *)
(*                                                                         *)
(* Time is in ticks, several to a second: the end of an overlap is         *)
(* computed to the tick and then cut to a whole Unix second, and so is the *)
(* clock it is compared with.  The history variable replaced keeps the     *)
(* ends as they were computed, and whether a later update (a retry or a    *)
(* second rotation) took the one slot for a previous key; raced tells that *)
(* two rotations interleaved, which can give one key id to two secrets.    *)
(***************************************************************************)
EXTENDS Integers, FiniteSets

CONSTANTS
  Rotations,       (* requests to rotate                                    *)
  SecretOf,        (* the new secret each of them brings                    *)
  FirstSecret,     (* the secret before them                                *)
  NoSecret,        (* the previous secret of a row that has none            *)
  Overlap,         (* ticks a replaced key stays good                       *)
  TicksPerSecond,
  MaxClock,        (* bound on the clock                                    *)
  MaxLost          (* bound on the answers lost                             *)

ASSUME RotationAssumption ==
  /\ NoSecret \notin {SecretOf[r] : r \in Rotations} \cup {FirstSecret}
  /\ FirstSecret \notin {SecretOf[r] : r \in Rotations}
  /\ \A q, r \in Rotations : SecretOf[q] = SecretOf[r] => q = r
  /\ Overlap \in Nat \ {0} /\ TicksPerSecond \in Nat \ {0}
  /\ MaxClock \in Nat /\ MaxLost \in Nat

VARIABLES
  row,      \* the brand's row of tenants
  rpc,      \* where each rotation is
  readId,   \* the key id it read
  until,    \* the end of the overlap it computed
  told,     \* the key_id of its answer, 0 before
  clock,
  lost,     \* answers lost so far
  replaced, \* the keys replaced: the end of the overlap, and whether its slot was taken
  raced     \* a rotation met a row that another one had changed since its last statement

rotationVars == <<row, rpc, readId, until, told, clock, lost, replaced, raced>>

Secrets == {SecretOf[r] : r \in Rotations} \cup {FirstSecret}

\* Key ids v1, v2, ... are 1, 2, ...; 0 is the empty one.
KeyRow == [id : Nat, secret : Secrets, prevId : Nat,
           prevSecret : Secrets \cup {NoSecret}, prevUntil : Nat]

RotationTypeOK ==
  /\ row \in KeyRow
  /\ rpc \in [Rotations -> {"idle", "update", "answer", "done"}]
  /\ readId \in [Rotations -> Nat]
  /\ until \in [Rotations -> Nat]
  /\ told \in [Rotations -> Nat]
  /\ clock \in 0..MaxClock
  /\ lost \in 0..MaxLost
  /\ replaced \subseteq [secret : Secrets, id : Nat, until : Nat, cut : BOOLEAN]
  /\ raced \in BOOLEAN

RotationInit ==
  /\ row = [id |-> 1, secret |-> FirstSecret,
            prevId |-> 0, prevSecret |-> NoSecret, prevUntil |-> 0]
  /\ rpc = [r \in Rotations |-> "idle"]
  /\ readId = [r \in Rotations |-> 0]
  /\ until = [r \in Rotations |-> 0]
  /\ told = [r \in Rotations |-> 0]
  /\ clock = 0
  /\ lost = 0
  /\ replaced = {}
  /\ raced = FALSE

-----------------------------------------------------------------------------
Unix(t) == t \div TicksPerSecond

\* Mutant: the window is closed a second late.
PreviousLiveInclusive ==
  row.prevSecret # NoSecret /\ row.prevUntil > 0 /\ Unix(clock) <= row.prevUntil

\* Tenant.PreviousLive; prevUntil is in Unix seconds (scanTenant).
PreviousLive ==
  row.prevSecret # NoSecret /\ row.prevUntil > 0 /\ Unix(clock) < row.prevUntil

\* tenantHMACKeys: the keys good now, the current one first.
CurrentKey == [id |-> row.id, secret |-> row.secret]
PreviousKey == [id |-> row.prevId, secret |-> row.prevSecret]
TenantKeys == IF PreviousLive THEN <<CurrentKey, PreviousKey>> ELSE <<CurrentKey>>

\* VerifyKeys: with a key id the first key of that id decides, without one any key.
VerifyKeys(keyId, secret) ==
  IF keyId = 0
    THEN \E i \in DOMAIN TenantKeys : TenantKeys[i].secret = secret
    ELSE \E i \in DOMAIN TenantKeys :
           /\ TenantKeys[i] = [id |-> keyId, secret |-> secret]
           /\ \A j \in 1..(i - 1) : TenantKeys[j].id # keyId

\* Mutant: every rotation calls its key v2.
NextKeyIdTwo(id) == 2

\* nextHMACKeyID.
NextHMACKeyID(id) == IF id > 0 THEN id + 1 ELSE 2

RotationGoto(r, from, to) == rpc[r] = from /\ rpc' = [rpc EXCEPT ![r] = to]

\* The rotation reads the row and computes the end of the overlap.
RotateRead(r) ==
  /\ RotationGoto(r, "idle", "update")
  /\ readId' = [readId EXCEPT ![r] = row.id]
  /\ until' = [until EXCEPT ![r] = clock + Overlap]
  /\ UNCHANGED <<row, told, clock, lost, replaced, raced>>

\* The UPDATE: the row's current key, whatever was read, becomes the previous one, and
\* takes the one slot from the key that was.
Update(r) ==
  /\ row' = [id |-> NextHMACKeyID(readId[r]), secret |-> SecretOf[r],
             prevId |-> row.id, prevSecret |-> row.secret,
             prevUntil |-> Unix(until[r])]
  /\ replaced' = {[k EXCEPT !.cut = TRUE] : k \in {k \in replaced : k.secret # row.secret}}
       \cup {[secret |-> row.secret, id |-> row.id, until |-> until[r], cut |-> FALSE]}
  /\ raced' = (raced \/ readId[r] # row.id)
  /\ UNCHANGED <<readId, until, told, clock>>

RotateUpdate(r) == RotationGoto(r, "update", "answer") /\ Update(r) /\ UNCHANGED lost

\* An error of the update, whether or not it took effect: the request is made again.
RotateUpdateFails(r) ==
  /\ RotationGoto(r, "update", "idle")
  /\ lost < MaxLost /\ lost' = lost + 1
  /\ \/ Update(r)
     \/ UNCHANGED <<row, replaced, raced, readId, until, told, clock>>

\* The answer tells what the second read finds.
RotateAnswer(r) ==
  /\ RotationGoto(r, "answer", "done")
  /\ told' = [told EXCEPT ![r] = row.id]
  /\ raced' = (raced \/ row.secret # SecretOf[r])
  /\ UNCHANGED <<row, readId, until, clock, lost, replaced>>

RotateAnswerLost(r) ==
  /\ RotationGoto(r, "answer", "idle")
  /\ lost < MaxLost /\ lost' = lost + 1
  /\ UNCHANGED <<row, readId, until, told, clock, replaced, raced>>

ClockTicks ==
  /\ clock < MaxClock /\ clock' = clock + 1
  /\ UNCHANGED <<row, rpc, readId, until, told, lost, replaced, raced>>

RotationNext ==
  \/ \E r \in Rotations :
       RotateRead(r) \/ RotateUpdate(r) \/ RotateUpdateFails(r)
         \/ RotateAnswer(r) \/ RotateAnswerLost(r)
  \/ ClockTicks

RotationSpec == RotationInit /\ [][RotationNext]_rotationVars

-----------------------------------------------------------------------------
\* A replaced key's requests are accepted until the end the rotation computed for it, less
\* a second at most (the fraction the two cuts to Unix seconds lose), unless a later update
\* took its slot; and never from that end on, slot taken or not (RotateHMAC's window,
\* scanTenant, PreviousLive, VerifyKeys).  Without a key id this holds however rotations
\* interleave, with the key's own id if none raced.
OverlapHonoured ==
  \A k \in replaced : k.secret # row.secret =>
    \A keyId \in {0, k.id} :
      /\ VerifyKeys(keyId, k.secret) => clock < k.until
      /\ ~k.cut /\ clock + TicksPerSecond <= k.until /\ (keyId = 0 \/ ~raced) =>
           VerifyKeys(keyId, k.secret)

\* The key id a rotation was answered with goes with its secret: as long as the row
\* has the secret as a good key, a request signed with both is accepted, through
\* retries and rotations that follow each other, unless two rotations raced.
AnswerIsUsable ==
  \A r \in Rotations :
    (~raced /\ rpc[r] = "done" /\ VerifyKeys(0, SecretOf[r])) => VerifyKeys(told[r], SecretOf[r])
=============================================================================
