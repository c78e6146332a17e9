----------------------------- MODULE AddressPolicy -----------------------------
(***************************************************************************)
(* packages/core/src/discovery/address-policy.ts.  An address is a text of  *)
(* numbers: the octets of an IPv4 address, or the groups of an IPv6 one     *)
(* before and after its "::" and its dotted suffix.  A prefix is            *)
(* [family, value, bits].                                                   *)
(***************************************************************************)
EXTENDS Integers, FiniteSets, SequencesExt

CONSTANTS
  OctetBits,        \* 8 in the program
  GroupCount,       \* 8 groups of two octets each
  Excluded,         \* prefixes of special-purpose addresses
  Envelope,         \* the prefix outside of which no IPv6 address is admitted
  MappedPrefix,     \* what is before the bits of an IPv4 address in its IPv6 form
  Exceptions        \* names of exceptions to their prefixes

Width(family) == IF family = 4 THEN 4 * OctetBits ELSE 2 * GroupCount * OctetBits
Values(family) == 0..(2^Width(family) - 1)
PrefixOk(p) == p.family \in {4, 6} /\ p.bits \in 0..Width(p.family) /\ p.value \in Values(p.family)

ASSUME AddressPolicyAssumption ==
  /\ OctetBits \in Nat \ {0} /\ GroupCount \in Nat /\ GroupCount > 2
  /\ \A p \in Excluded : PrefixOk(p)
  /\ PrefixOk(Envelope) /\ Envelope.family = 6
  /\ MappedPrefix \in Nat
  /\ \A name \in DOMAIN Exceptions : PrefixOk(Exceptions[name])

Number(parts, bits) == FoldLeft(LAMBDA value, part : value * 2^bits + part, 0, parts)
DottedGroups(o) ==
  IF o = <<>> THEN <<>> ELSE <<o[1] * 2^OctetBits + o[2], o[3] * 2^OctetBits + o[4]>>

\* The groups that "::" stands for are filled with zeros.
Groups(text) ==
  LET tail == text.right \o DottedGroups(text.octets)
      gap == IF text.compressed THEN GroupCount - Len(text.left) - Len(tail) ELSE 0
  IN text.left \o [i \in 1..gap |-> 0] \o tail

\* Node's isIP gives the family: 0 for what is no address.
ParseAddress(text) ==
  [family |-> text.family,
   value |-> CASE text.family = 4 -> Number(text.octets, OctetBits)
               [] text.family = 6 -> Number(Groups(text), 2 * OctetBits)
               [] OTHER -> 0]

\* prefix(): the shifted values agree.
Covers(prefix, address) ==
  LET shift == 2^(Width(prefix.family) - prefix.bits)
  IN address.family = prefix.family /\ address.value \div shift = prefix.value \div shift

Admitted(address) ==
  /\ address.family = 4 \/ Covers(Envelope, address)
  /\ \A prefix \in Excluded : ~Covers(prefix, address)

\* createDirectoryAddressPolicy(): a list of known names, none of them twice.
ValidPolicy(names) ==
  /\ Len(names) <= Cardinality(DOMAIN Exceptions)
  /\ \A i \in DOMAIN names : /\ names[i] \in DOMAIN Exceptions
                             /\ \A j \in 1..(i - 1) : names[j] # names[i]

Allowed(names, address) ==
  Admitted(address) \/ \E i \in DOMAIN names : Covers(Exceptions[names[i]], address)
Allows(names, text) == text.family # 0 /\ Allowed(names, ParseAddress(text))

\* The peer of a connection is the pinned address, or an IPv4 one in its IPv6
\* form, which as a pinned address would not be allowed.
MatchesPeer(names, pinned, peer) ==
  LET expected == ParseAddress(pinned)
      actual == ParseAddress(peer)
  IN /\ Allows(names, pinned) /\ peer.family # 0
     /\ \/ expected = actual
        \/ /\ expected.family = 4 /\ actual.family = 6
           /\ actual.value \div 2^Width(4) = MappedPrefix
           /\ actual.value % 2^Width(4) = expected.value

=============================================================================
