------------------------ MODULE MCVerificationEngine ------------------------
(* A small instance of VerificationEngine. *)
EXTENDS VerificationEngine, TLC

CONSTANTS c1, c2, k1, n1, n2

Sig(key, nonce, created) == [key |-> key, nonce |-> nonce, created |-> created, expires |-> created + 2]

Early == Sig(k1, n1, 0)
Late  == Sig(k1, n1, 1)

\* One nonce twice, with another between; one without a nonce beside the later one.
MCRequests == {<<Early, Sig(k1, n2, 1), Late>>, <<Sig(k1, None, 1), Late>>}

CallSymmetry == Permutations(Calls)

=============================================================================
