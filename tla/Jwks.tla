--------------------------------- MODULE Jwks ---------------------------------
(***************************************************************************)
(* packages/core/src/profiles/jwks.ts and what it calls: which keys of a    *)
(* document may verify.  An entry is a record of its members, Absent or Bad  *)
(* where one is not there or not a string; `material` is the public         *)
(* components, canonically encoded.                                         *)
(***************************************************************************)
EXTENDS Naturals, Sequences, FiniteSets

CONSTANTS Absent, Bad, MaxKeys, MaxJwksBytes, KnownTestKeys

Formats == {"jwks", "wg-directory-00"}
\* One registered name that stands for those of either registry that are not Ed25519's.
JoseNames == {"EdDSA", "RS256"}
HttpNames == {"ed25519", "rsa-pss-sha512"}

Curves(kty) ==
  CASE kty = "OKP" -> {"Ed25519", "Ed448", "X25519", "X448"}
    [] kty = "EC" -> {"P-256", "P-384", "P-521"}
    [] OTHER -> {}

\* inspectPublicJwk(): nothing secret, a known type, well-formed components.
PublicJwk(key) ==
  /\ ~key.secret
  /\ key.kty = "RSA" \/ key.crv \in Curves(key.kty)
  /\ key.material # Absent

\* The members that a thumbprint is made of, and no metadata.
Thumbprint(key) == <<key.kty, IF key.kty = "RSA" THEN Absent ELSE key.crv, key.material>>
Selectable(key) == key.kty = "OKP" /\ key.crv = "Ed25519"

SignatureOperations == {"sign", "verify"}
EncryptionOperations == {"encrypt", "decrypt", "wrapKey", "unwrapKey", "deriveKey", "deriveBits"}

MutJwkUsage(key) ==
  LET ops == IF key.ops = Absent THEN {} ELSE {key.ops[i] : i \in DOMAIN key.ops}
  IN ~(key.use = "sig" /\ ops \cap EncryptionOperations # {})
\* validateJwkUsage(): no contradiction, and Ed25519 keys are for verification.
JwkUsage(key) ==
  LET declared == key.ops # Absent
      ops == IF declared THEN {key.ops[i] : i \in DOMAIN key.ops} ELSE {}
  IN /\ key.use # Bad /\ Bad \notin ops
     /\ declared => Cardinality(ops) = Len(key.ops)
     /\ ~(key.use = "sig" /\ ops \cap EncryptionOperations # {})
     /\ ~(key.use = "enc" /\ ops \cap SignatureOperations # {})
     /\ key.crv = "Ed25519" => /\ key.use \in {Absent, "sig"}
                               /\ declared => "verify" \in ops /\ ops \subseteq SignatureOperations

SupportedName(format) == IF format = "jwks" THEN "EdDSA" ELSE "ed25519"
Own(format) == IF format = "jwks" THEN JoseNames ELSE HttpNames

\* validateJwkAlgorithm(): names of the other registry, and Ed25519's name on
\* another key, make the whole set invalid.
JwkAlgorithm(key, format) ==
  /\ key.alg # Bad
  /\ IF key.crv = "Ed25519" THEN key.alg \in {Absent, SupportedName(format)}
     ELSE key.alg \notin (JoseNames \cup HttpNames) \ (Own(format) \ {SupportedName(format)})
SkipReason(key, format) ==
  IF key.alg = Absent \/ key.alg \in Own(format) THEN "unsupported-algorithm" ELSE "unknown-algorithm-name"

ValidEntry(key, format) ==
  /\ key.kty # "oct" /\ key.kid # Bad /\ PublicJwk(key)
  /\ format = "wg-directory-00" => key.kid \in {Absent, Thumbprint(key)}
  /\ JwkUsage(key) /\ JwkAlgorithm(key, format)

InvalidJwks(index) == [kind |-> "invalid-jwks", keyIndex |-> index]

\* loadJwks(): one entry that is not valid rejects the set; a valid one that is
\* no Ed25519 key is skipped.
LoadJwks(document, format) ==
  LET keys == document.keys
      bad == {i \in DOMAIN keys : ~ValidEntry(keys[i], format)}
  IN IF document.bytes > MaxJwksBytes \/ ~document.json \/ Len(keys) > MaxKeys THEN InvalidJwks(Absent)
     ELSE IF bad # {} THEN InvalidJwks(CHOOSE i \in bad : \A j \in bad : i <= j)
     ELSE [kind |-> "loaded",
           keys |-> {[thumbprint |-> Thumbprint(keys[i]), keyIndex |-> i,
                      knownTestKey |-> Thumbprint(keys[i]) \in KnownTestKeys] :
                       i \in {j \in DOMAIN keys : Selectable(keys[j])}},
           skipped |-> {[thumbprint |-> Thumbprint(keys[i]), keyIndex |-> i,
                         reason |-> SkipReason(keys[i], format)] :
                          i \in {j \in DOMAIN keys : ~Selectable(keys[j])}}]

LookupKey(jwks, thumbprint) ==
  IF \E key \in jwks.keys : key.thumbprint = thumbprint THEN "found"
  ELSE IF \E key \in jwks.skipped : key.thumbprint = thumbprint THEN "unsupported-algorithm"
  ELSE "unknown-key"

=============================================================================
