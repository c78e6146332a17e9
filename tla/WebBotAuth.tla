------------------------------ MODULE WebBotAuth ------------------------------
(***************************************************************************)
(* The Web Bot Auth profiles of packages/core/src/profiles: what a signer    *)
(* adds to a request (signing-config.ts, signer.ts), and how a candidate is   *)
(* selected and evaluated by an offline verifier (candidates.ts,             *)
(* agent-header.ts, coverage.ts, component-support.ts, metadata.ts,          *)
(* agent-bindings.ts, candidate-evaluation.ts).                              *)
(*                                                                         *)
(* A key stands for its thumbprint.  The candidate's nonce is not consumed    *)
(* here: VerificationEngine and SecurityContext model what follows.          *)
(***************************************************************************)
EXTENDS HttpSignatures, TimePolicy

CONSTANTS
  Origins,     \* the canonical origin of each agent URL that has one
  Thumbprints, \* well-formed key ids
  TestKeys,
  BadNonces    \* strings that isValidNonce() refuses

Wg == "ietf-wg-protocol-00"
Cloudflare == "cloudflare-docs-2026-07-01"
Profiles == {Wg, Cloudflare}
AgentType(profile) == IF profile = Wg THEN "dictionary" ELSE "item"
WithAgent(types, profile) ==
  [name \in DOMAIN types \cup {"signature-agent"} |->
     IF name = "signature-agent" THEN AgentType(profile) ELSE types[name]]

-----------------------------------------------------------------------------
(* Selection.                                                               *)

\* duplicates.ts, on what the parser has read: entries of a dictionary, or of an
\* item without its place.
RepeatsName(parameters) == \E i, j \in DOMAIN parameters : i # j /\ parameters[i][1] = parameters[j][1]
MemberRepeats(member) ==
  \/ RepeatsName(member.parameters)
  \/ \E i \in DOMAIN ItemsOf(member) : RepeatsName(ItemsOf(member)[i].parameters)
HasDuplicates(parser) ==
  LET entries == parser.entries
  IN \/ \E i \in DOMAIN entries : MemberRepeats(entries[i].member)
     \/ parser.type = "dictionary" /\ \E i, j \in DOMAIN entries : i # j /\ entries[i].key = entries[j].key
FieldDuplicates(field) ==
  IF ~field.there THEN None
  ELSE IF FirstFailure(field.reasons) # None THEN FirstFailure(field.reasons)
  ELSE IF HasDuplicates(field.parser) THEN "malformed" ELSE None
ScreenFailure(inputs, values) ==
  IF FieldDuplicates(inputs) # None THEN FieldDuplicates(inputs) ELSE FieldDuplicates(values)

\* selectWebBotAuthCandidates(): a reason to stop, or the candidates.
Select(parsed, screened, maxCandidates) ==
  LET failure == IF screened # None THEN screened ELSE parsed.reason
      tagged == SelectSeq(parsed.signatures,
                  LAMBDA s : ParameterOf(s.input.parameters, "tag") = <<"string", "web-bot-auth">>)
      stops(reason) == [reason |-> reason, candidates |-> <<>>]
  IN IF failure = "resource-limit" THEN stops(failure)
     ELSE IF failure # None THEN stops("malformed-signature")
     ELSE IF parsed.signatures = <<>> THEN stops("no-signature")
     ELSE IF Len(tagged) > maxCandidates THEN stops("resource-limit")
     ELSE IF tagged = <<>> THEN stops("no-web-bot-auth-candidate")
     ELSE [reason |-> None, candidates |-> tagged]
SelectFrom(inputs, values, maxCandidates) ==
  Select(ParseSignatureHeaders(inputs, values), ScreenFailure(inputs, values), maxCandidates)
SelectCandidates(headers, maxCandidates) ==
  SelectFrom(ReadField(headers, "signature-input"), ReadField(headers, "signature"), maxCandidates)

-----------------------------------------------------------------------------
(* The agent header.                                                        *)

\* parseAgentHeader(): the first lexeme selects the profile.
AgentOf(profile, parser) ==
  LET stops(reason) == [reason |-> reason, profile |-> profile, entries |-> <<>>]
  IN IF SfReason(parser) = "resource-limit" THEN stops("resource-limit")
     ELSE IF parser.at = "failed" THEN stops("malformed-agent")
     ELSE IF HasDuplicates(parser) \/ parser.entries = <<>> THEN stops("malformed-agent")
     ELSE [reason |-> None, profile |-> profile, entries |-> Semantic(parser).entries]
ParseAgentHeader(request) ==
  LET text == Combined(FieldValues(request.headers, "signature-agent", request.version))
      profile == IF text # <<>> /\ text[1][1] = "string" THEN Cloudflare ELSE Wg
  IN IF \/ BadLines(request.headers, "signature-agent", request.version)
        \/ text = <<>> \/ ~IsAscii(text)
     THEN [reason |-> "malformed-agent", profile |-> profile, entries |-> <<>>]
     ELSE AgentOf(profile, ParseRaw(text, AgentType(profile)))

\* canonicalAgentOrigin(), and the claim of a string: [reason, url, origin].
Claim(url) ==
  IF url \in DOMAIN Origins THEN [reason |-> None, url |-> url, origin |-> Origins[url]]
  ELSE [reason |-> "malformed-agent", url |-> url, origin |-> None]
\* resolveAgentClaim().
ResolveAgentClaim(agent, label) ==
  LET stops(reason) == [reason |-> reason, url |-> None, origin |-> None]
      member == IF agent.profile = Wg THEN ParameterOf(agent.entries, label) ELSE agent.entries[1][2]
      type == ParameterOf(member.parameters, "type")
  IN IF agent.profile = Wg /\ ~Has(agent.entries, label) THEN stops("agent-label-mismatch")
     ELSE IF member.kind # "item" THEN stops("malformed-agent")
     ELSE IF member.bare[1] # "string" THEN stops("malformed-agent")
     ELSE IF agent.profile = Cloudflare \/ type \in {Absent, <<"token", "directory">>} THEN Claim(member.bare[2])
     ELSE IF type[1] # "token" THEN stops("malformed-agent")
     ELSE stops("unsupported-discovery-type")

-----------------------------------------------------------------------------
(* Components and metadata.                                                  *)

\* assertSupportedComponents().
SupportedComponents(components, profile) ==
  \A i \in DOMAIN components :
    LET component == components[i]
        has(key) == Has(component.parameters, key)
    IN /\ component.name \notin {"signature", "signature-input"}
       /\ profile = Cloudflare =>
            /\ component.name \notin {"@status", "@query-params", "@query-param"}
            /\ ~has("req")
            /\ ~IsDerived(component) => ~has("sf") /\ ~has("bs") /\ ~has("key")

\* assertRequiredCoverage().
IsBare(component, name) == component.name = name /\ component.parameters = <<>>
MatchesMember(component, label) ==
  /\ component.name = "signature-agent" /\ Has(component.parameters, "key")
  /\ \A i \in DOMAIN component.parameters :
       component.parameters[i] \in {<<"key", <<"string", label>>>>, <<"sf", True>>}
RequiredCoverage(input, profile) ==
  LET covers(name) == \E i \in DOMAIN input.components : IsBare(input.components[i], name)
  IN /\ covers("@method") /\ covers("@target-uri")
     /\ IF profile = Wg THEN \E i \in DOMAIN input.components : MatchesMember(input.components[i], input.label)
        ELSE covers("signature-agent")

\* readCandidateMetadata().
MetadataFailure(parameters, noncePolicy) ==
  LET nonce == ParameterOf(parameters, "nonce")
  IN IF \E name \in {"created", "expires", "keyid"} : ~Has(parameters, name) THEN "missing-required-parameter"
     ELSE IF ParameterOf(parameters, "keyid")[2] \notin Thumbprints THEN "invalid-parameter"
     ELSE IF nonce = Absent THEN IF noncePolicy = "required" THEN "nonce-required" ELSE None
     ELSE IF nonce[2] \in BadNonces THEN "nonce-invalid" ELSE None

\* The order of lookup() and the algorithm's name.
KeyFailure(verifier, key, algorithm) ==
  IF algorithm \notin {Absent, <<"string", "ed25519">>}
  THEN IF key \in verifier.keys /\ algorithm[2] \in verifier.httpNames THEN "algorithm-mismatch"
       ELSE "unsupported-algorithm"
  ELSE IF key \notin verifier.keys THEN "unknown-key"
  ELSE IF key \in TestKeys /\ ~verifier.allowTestKeys THEN "test-key-disallowed" ELSE None

\* proposeIdentity(): bindings are pairs <<thumbprint, origin>>.
BindingFailure(verifier, key, origin) ==
  IF ~verifier.requireBinding \/ <<key, origin>> \in verifier.bindings THEN None
  ELSE IF \E binding \in verifier.bindings : binding[1] = key THEN "agent-binding-mismatch"
  ELSE "agent-binding-missing"

TimeFailure(created, expires, now) ==
  IF InWindow(created, expires, now) THEN None
  ELSE IF created < 0 \/ expires <= created THEN "invalid-time-range"
  ELSE IF expires - created > MaxLifetime THEN "lifetime-exceeded"
  ELSE IF created > now + Skew THEN "created-in-future"
  ELSE IF now >= expires + Skew THEN "signature-expired" ELSE "signature-too-old"

\* coreRejection().
CoreRejection(reason) ==
  CASE reason = "unsupported" -> "unsupported-profile"
    [] reason = "missing-component" -> "insufficient-coverage"
    [] reason = "malformed" -> "malformed-signature"
    [] OTHER -> reason

-----------------------------------------------------------------------------
(* evaluateCandidate().                                                     *)

Result(reason, claim, key) == [reason |-> reason, claim |-> claim, key |-> key]
\* What is checked before the signature.
PolicyFailure(input, profile, claim, verifier, now) ==
  LET metadata == MetadataFailure(input.parameters, verifier.noncePolicy[profile])
      value(name) == ParameterOf(input.parameters, name)[2]
      keyFailure == KeyFailure(verifier, value("keyid"), ParameterOf(input.parameters, "alg"))
      binding == BindingFailure(verifier, value("keyid"), claim.origin)
  IN IF profile \notin verifier.profiles THEN "profile-disallowed"
     ELSE IF ~SupportedComponents(input.components, profile) THEN "unsupported-profile"
     ELSE IF claim.reason # None THEN claim.reason
     ELSE IF ~RequiredCoverage(input, profile) THEN "insufficient-coverage"
     ELSE IF metadata # None THEN metadata
     ELSE IF keyFailure # None THEN keyFailure
     ELSE IF binding # None THEN binding
     ELSE TimeFailure(value("created"), value("expires"), now)
Evaluated(request, signature, claim, policy, types) ==
  LET key == ParameterOf(signature.input.parameters, "keyid")[2]
      settles(crypto) == IF crypto # None THEN Result(CoreRejection(crypto), None, None)
                         ELSE Result("verified", claim.url, key)
  IN IF policy # None THEN Result(policy, None, None)
     ELSE settles(VerifyCryptography(request, signature, key, types))
EvaluateCandidate(request, signature, agent, verifier, now) ==
  LET claim == ResolveAgentClaim(agent, signature.input.label)
  IN Evaluated(request, signature, claim,
               PolicyFailure(signature.input, agent.profile, claim, verifier, now),
               WithAgent(verifier.types, agent.profile))

\* verify(), up to the nonces: exactly one candidate, or the rule for several.
Aggregate(results, rule) ==
  LET verified == SelectSeq(results, LAMBDA r : r.reason = "verified")
      failed == SelectSeq(results, LAMBDA r : r.reason # "verified")
  IN IF verified # <<>> /\ (rule = "any" \/ failed = <<>>) THEN Head(verified) ELSE Head(failed)
Judge(request, selection, agent, verifier, now) ==
  LET candidates == selection.candidates
  IN IF selection.reason # None THEN Result(selection.reason, None, None)
     ELSE IF verifier.mode = "exactly-one" /\ Len(candidates) > 1 THEN Result("ambiguous-signatures", None, None)
     ELSE IF agent.reason # None THEN Result(agent.reason, None, None)
     ELSE Aggregate([i \in DOMAIN candidates |-> EvaluateCandidate(request, candidates[i], agent, verifier, now)],
                    verifier.mode)
Verify(request, verifier, now) ==
  Judge(request, SelectCandidates(request.headers, verifier.maxCandidates), ParseAgentHeader(request), verifier, now)

=============================================================================
