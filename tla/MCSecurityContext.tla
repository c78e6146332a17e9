-------------------------- MODULE MCSecurityContext --------------------------
(* Small instances of SecurityContext for TLC. *)
EXTENDS SecurityContext, TLC

CONSTANTS o1, o2, o3, k1, k2, n1, n2

Sig(key, nonce, created, expires, fault) ==
  [scope |-> "s", key |-> key, nonce |-> nonce,
   created |-> created, expires |-> expires, fault |-> fault]

\* One signature, a later one that reuses its nonce, another nonce of its key,
\* another key, and one candidate without a nonce.
Early  == Sig(k1, n1, 1, 3, "none")
Reused == Sig(k1, n1, 3, 5, "none")
Other  == Sig(k1, n2, 1, 3, "none")
Second == Sig(k2, n1, 2, 4, "none")
Bare   == Sig(k1, NoNonce, 1, 3, "none")
Forged == Sig(k1, n1, 1, 3, "crypto")
Odd    == Sig(k1, n1, 1, 3, "static")

MemoryRequests == {Early, Reused, Other}
ExternalRequests == {Early, Bare, Forged, Odd}

UsedIdentities == {Identity(r) : r \in {Early, Other, Second}}
UsedKeys == {k1, k2}

StartClock == [wall |-> 1, mono |-> 0, wallOk |-> TRUE, monoOk |-> TRUE]
StepsForward == {1}
StepsBack == {-2}

OpSymmetry == Permutations(Ops)

=============================================================================
