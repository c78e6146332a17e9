---------------------------- MODULE MCRedisReplay ----------------------------
(* Small instances of RedisReplay. *)
EXTENDS RedisReplay, TLC

CONSTANTS o1, o2, a1, k1, n1, n2

Sig(nonce, created, expires) ==
  [scope |-> "s", key |-> k1, nonce |-> nonce, created |-> created, expires |-> expires]

\* A signature of the future, whose window is open when a first quarantine ends
\* and when it could be over, a later one with its nonce, and another nonce.
Early  == Sig(n1, RecoveryHorizon + 1, RecoveryHorizon + 1 + MaxLifetime)
Reused == Sig(n1, RecoveryHorizon + 3, RecoveryHorizon + 3 + MaxLifetime)
Other  == Sig(n2, RecoveryHorizon + 1, RecoveryHorizon + 1 + MaxLifetime)

Mixed == {Early, Reused, Other}

Setting(quota) == [horizon |-> RecoveryHorizon, capacity |-> 2, quota |-> quota]
OneConfig == [a \in Adapters |-> Setting(1)]
LeftConfigs == {Setting(1), Setting(2)}

ClientSymmetry == Permutations(Ops)

=============================================================================
