----------------------------- MODULE TimePolicy -----------------------------
(***************************************************************************)
(* The signature time window of packages/core/src/profiles/time-policy.ts  *)
(* and the recovery horizon of recovery-horizon.ts.  Times are whole       *)
(* seconds.  The source computes with BigInt, so the sums below are exact; *)
(* only the retention deadline must fit the store's safe integers.         *)
(***************************************************************************)
EXTENDS Integers

CONSTANTS
  MaxAge,          \* policy.maxAgeSeconds
  MaxLifetime,     \* policy.maxLifetimeSeconds
  Skew,            \* policy.clockSkewSeconds
  MaxSafeInteger   \* Number.MAX_SAFE_INTEGER

ASSUME TimePolicyAssumption ==
  /\ MaxAge \in Nat \ {0}
  /\ MaxLifetime \in Nat \ {0}
  /\ Skew \in Nat
  /\ MaxSafeInteger \in Nat

Larger(a, b) == IF a >= b THEN a ELSE b
Smaller(a, b) == IF a <= b THEN a ELSE b

\* SignatureTimePolicy.check: the signature is acceptable at second `now`.
InWindow(created, expires, now) ==
  /\ created >= 0 /\ created < expires
  /\ expires - created <= MaxLifetime
  /\ created <= now + Skew
  /\ now < expires + Skew
  /\ now < created + MaxAge + Skew

\* The first second from which the signature is refused for good.
WindowEnd(created, expires) == Smaller(expires, created + MaxAge) + Skew

\* A wrong variant: without the skew that the window grants.
MutRetainUntil(created, now) == Larger(created, now) + MaxAge

\* SignatureTimePolicy.retainUntil: measured from the later of creation and
\* consumption, never from the signed expiry.
RetainUntil(created, now) == Larger(created, now) + MaxAge + Skew

\* retainUntil refuses a deadline that the store cannot represent.
Representable(deadline) == deadline <= MaxSafeInteger

\* recoveryHorizonSeconds.
RecoveryHorizon == Smaller(MaxAge, MaxLifetime) + 2 * Skew

=============================================================================
