--------------------------- MODULE ReplayAdmission ---------------------------
(***************************************************************************)
(* What a security context promises its verifiers, without its clocks,     *)
(* stores, awaits and resets: requests are admitted within generations;    *)
(* none is admitted in a generation it was not begun in, none outside its  *)
(* window, and no nonce twice in windows that meet.                        *)
(***************************************************************************)
EXTENDS TimePolicy

CONSTANTS
  Ops,
  Forgets        \* a new generation starts with no memory of the last one

VARIABLES
  generation, open,
  request,       \* what each operation asks for
  begun,         \* the generation an operation was begun in, 0 before
  admitted,      \* operations verified
  guarded,       \* those of them verified with replay protection
  at             \* the second of the verification

vars == <<generation, open, request, begun, admitted, guarded, at>>

Init ==
  /\ generation = 1 /\ open = TRUE
  /\ begun = [o \in Ops |-> 0]
  /\ admitted = {} /\ guarded = {}
  /\ at = [o \in Ops |-> 0]

Begin(o) ==
  /\ open /\ begun[o] = 0
  /\ begun' = [begun EXCEPT ![o] = generation]
  /\ UNCHANGED <<generation, open, request, admitted, guarded, at>>

SameNonce(o, p) ==
  /\ request[o].scope = request[p].scope
  /\ request[o].key = request[p].key
  /\ request[o].nonce = request[p].nonce

\* The request of p stands in the way of admitting o at second t.
Blocks(p, o, t) ==
  /\ SameNonce(o, p)
  /\ Forgets => /\ begun[p] = begun[o]
                /\ t < WindowEnd(request[p].created, request[p].expires)

Admit(o) ==
  /\ open /\ begun[o] = generation /\ o \notin admitted
  /\ admitted' = admitted \cup {o}
  /\ at'[o] \in Nat /\ at' = [at EXCEPT ![o] = at'[o]]
  /\ InWindow(request[o].created, request[o].expires, at'[o])
  /\ \/ guarded' = guarded
     \/ /\ guarded' = guarded \cup {o}
        /\ \A p \in guarded : ~Blocks(p, o, at'[o])
  /\ UNCHANGED <<generation, open, request, begun>>

Close ==
  /\ open /\ open' = FALSE
  /\ UNCHANGED <<generation, request, begun, admitted, guarded, at>>

Reopen ==
  /\ ~open /\ open' = TRUE
  /\ generation' = generation + 1
  /\ UNCHANGED <<request, begun, admitted, guarded, at>>

Next ==
  \/ \E o \in Ops : Begin(o) \/ Admit(o)
  \/ Close \/ Reopen

Spec == Init /\ [][Next]_vars

=============================================================================
