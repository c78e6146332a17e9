-------------------------------- MODULE Signer --------------------------------
(***************************************************************************)
(* createWebBotAuthSigner() of packages/core/src/profiles/signer.ts: its      *)
(* configuration, and one call of sign(), which runs in a single task.        *)
(***************************************************************************)
EXTENDS WebBotAuth

SignatureNames == {"signature-input", "signature", "signature-agent"}

\* signingFailure().
SigningFailure(reason) ==
  CASE reason \in {None, "resource-limit"} -> reason
    [] reason = "unsupported" -> "unsupported-component"
    [] OTHER -> "invalid-request"

-----------------------------------------------------------------------------
(* resolveSigningConfiguration() of options                                 *)
(* [key, allowTestKeys, url, profile, label, additional, types, lifetime].    *)

AgentField(options) ==
  LET agent == Item(<<"string", Origins[options.url]>>)
  IN IF options.profile = Wg THEN [kind |-> "dictionary", entries |-> <<<<options.label, agent>>>>]
     ELSE [kind |-> "item", entries |-> <<<<1, agent>>>>]
SignedComponents(options) ==
  <<[name |-> "@method", parameters |-> <<>>], [name |-> "@target-uri", parameters |-> <<>>],
    [name |-> "signature-agent",
     parameters |-> IF options.profile = Wg THEN <<<<"key", <<"string", options.label>>>>>> ELSE <<>>]>>
  \o options.additional
ConfigurationFailure(options) ==
  LET components == SignedComponents(options)
      input == [label |-> options.label, components |-> components, parameters |-> <<>>]
      types == options.types
  IN IF options.profile \notin Profiles THEN "unsupported-profile"
     ELSE IF options.label \notin Keys THEN "invalid-label"
     ELSE IF options.key \in TestKeys /\ ~options.allowTestKeys THEN "test-key-disallowed"
     ELSE IF options.url \notin DOMAIN Origins THEN "invalid-agent-origin"
     ELSE IF Len(components) > CoreLimits.components THEN "resource-limit"
     ELSE IF InputFailure(input) # None THEN SigningFailure(InputFailure(input))
     ELSE IF ~SupportedComponents(components, options.profile) THEN "unsupported-component"
     ELSE IF /\ "signature-agent" \in DOMAIN types
             /\ types["signature-agent"] # AgentType(options.profile) THEN "invalid-signing-options"
     ELSE None

-----------------------------------------------------------------------------
(* sign().                                                                  *)

\* Parameters in the order of the source.
SigningParameters(options, created, nonce) ==
  <<<<"created", <<"integer", created>>>>, <<"expires", <<"integer", created + options.lifetime>>>>,
    <<"keyid", <<"string", options.key>>>>, <<"alg", <<"string", "ed25519">>>>,
    <<"nonce", <<"string", nonce>>>>, <<"tag", <<"string", "web-bot-auth">>>>>>

Header(name, value) == [name |-> name, value |-> value]
WithHeader(request, name, value) == [request EXCEPT !.headers = Append(@, Header(name, value))]
\* A signature over any components, with its three headers.
SignedHeaders(options, input, agent, base) ==
  IF base.reason # None THEN [reason |-> SigningFailure(base.reason), headers |-> <<>>]
  ELSE [reason |-> None,
        headers |-> <<Header("signature-input", Serialize(InputField(input))),
                      Header("signature", Serialize(SignatureField(options.label, SignedBytes(options.key, base)))),
                      Header("signature-agent", agent)>>]
SignComponents(request, options, components, parameters) ==
  LET input == [label |-> options.label, components |-> components, parameters |-> parameters]
      agent == Serialize(AgentField(options))
  IN SignedHeaders(options, input, agent,
       SignatureBase(WithHeader(request, "signature-agent", agent), input,
                     WithAgent(options.types, options.profile)))

\* `clock` is in milliseconds; one that fails or goes below zero is negative.
Sign(request, options, clock, nonce) ==
  LET created == clock \div 1000
      fails(reason) == [reason |-> reason, headers |-> <<>>]
  IN IF \E i \in DOMAIN request.headers : request.headers[i].name \in SignatureNames
     THEN fails("existing-signature-headers")
     ELSE IF clock < 0 \/ created + options.lifetime > MaxInteger THEN fails("clock-unavailable")
     ELSE IF nonce \in BadNonces THEN fails("nonce-generation-failed")
     ELSE SignComponents(request, options, SignedComponents(options), SigningParameters(options, created, nonce))

=============================================================================
