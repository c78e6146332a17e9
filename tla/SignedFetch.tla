------------------------------ MODULE SignedFetch ------------------------------
(***************************************************************************)
(* A signed request, from the call to the verifier: createSignedFetch() of    *)
(* packages/fetch/src/index.ts with the signer of packages/core or one of the *)
(* application, or sign() called by the application itself; the network,       *)
(* whose intermediaries may change what they forward; and the evaluation of    *)
(* what arrives.                                                            *)
(***************************************************************************)
EXTENDS Signer

CONSTANTS
  Calls,       \* [api, signer, source, replaced, options, init], see below
  Verifiers,   \* configurations of the verifier
  ForeignSets, \* components that a signer of the application signs
  BadPatches,  \* what a signer of the application may return instead
  ClockSet,    \* readings of the signer's clock, in milliseconds
  NonceSet,
  TimeSet,     \* readings of the verifier's clock, in seconds
  Methods, OtherValues, OtherHeaders,  \* what an intermediary writes
  MaxAlterations

\* A request has its fields, and headers in a row; so has what a signer returns.
IsRow(s) == s \in Seq(Range(s))
ASSUME SignedFetchAssumption ==
  /\ \A c \in Calls :
       /\ c.api \in {"fetch", "direct"} /\ IsRow(c.source.headers)
       /\ DOMAIN c.source = {"method", "target", "raw", "version", "headers"}
  /\ \A patch \in BadPatches : IsRow(patch)

VARIABLES
  call,       \* what is called, with which options
  verifier,
  phase,      \* "called", "signing", "signed", "sent" or "ended"
  request,    \* the request that the wrapper owns
  answer,     \* of the signer: [reason, headers]
  signedAt,   \* the created that it wrote, or 0
  aborted,
  outcome,    \* of the call
  wire,       \* the requests that are sent
  transit,    \* the last of them as it is on its way
  altered,    \* how often
  harmless,   \* whether HTTP and the coverage allow what was altered
  verdict,    \* of the verifier, or Unjudged
  judgedAt

callVars == <<call, verifier>>
pathVars == <<transit, altered, harmless, verdict, judgedAt>>
vars == <<callVars, phase, request, answer, signedAt, aborted, outcome, wire, pathVars>>

NoAnswer == [reason |-> "pending", headers |-> <<>>]
Unjudged == Result("unjudged", None, None)

\* A signer whose configuration is refused is not made, and its call never begins.
Init ==
  /\ call \in Calls /\ verifier \in Verifiers
  /\ phase = (IF ConfigurationFailure(call.options) = None THEN "called" ELSE "ended")
  /\ outcome = ConfigurationFailure(call.options) /\ request = call.source /\ answer = NoAnswer /\ signedAt = 0
  /\ aborted \in (IF call.api = "fetch" THEN BOOLEAN ELSE {FALSE})
  /\ wire = <<>> /\ transit = call.source /\ altered = 0 /\ harmless = TRUE
  /\ verdict = Unjudged /\ judgedAt = 0

-----------------------------------------------------------------------------
(* The call.  `init` has the fields that the wrapper looks at:                *)
(* [redirect, noCors, used, body, bodyPolicy, allowHttp].                     *)

Names(headers) == {headers[i].name : i \in DOMAIN headers}
\* A Headers object: a name once, its values trimmed and combined.  The order of
\* names has no part in what is signed.
FetchHeaders(headers) ==
  LET names == SetToSeq(Names(headers))
  IN [k \in DOMAIN names |->
        LET lines == LinesOf(headers, names[k])
        IN Header(names[k], Combined([i \in DOMAIN lines |-> Trimmed(lines[i].value)]))]

ForbiddenNames ==
  {"host", ":authority", "connection", "keep-alive", "proxy-authenticate", "proxy-authorization",
   "te", "trailer", "transfer-encoding", "upgrade", "content-length"}
\* checkedDestination().
Destination(target, allowHttp) ==
  /\ target \in DOMAIN Targets
  /\ \/ Targets[target].scheme = "https"
     \/ Targets[target].scheme = "http" /\ allowHttp /\ Targets[target].host \in {"127.0.0.1", "[::1]"}
CallFailure ==
  LET init == call.init
      headers == {Names(call.replaced), Names(call.source.headers)}
  IN IF SignatureNames \cap Names(call.replaced) # {} THEN "existing-signature-headers"
     ELSE IF ForbiddenNames \cap Names(call.replaced) # {} THEN "invalid"
     ELSE IF SignatureNames \cap Names(call.source.headers) # {} THEN "existing-signature-headers"
     ELSE IF \/ ForbiddenNames \cap UNION headers # {} \/ ~init.redirect \/ init.noCors \/ init.used
             \/ (init.body /\ init.bodyPolicy = "reject") \/ ~Destination(call.source.target, init.allowHttp)
     THEN "invalid"
     ELSE IF aborted THEN "abort" ELSE None

Ends(reason) == phase' = "ended" /\ outcome' = reason

\* The signer of core answers within the task of the call.
Fetch ==
  /\ phase = "called" /\ call.api = "fetch"
  /\ IF CallFailure # None THEN Ends(CallFailure) /\ UNCHANGED <<request, answer, signedAt>>
     ELSE /\ request' = [call.source EXCEPT !.headers = FetchHeaders(@)]
          /\ IF call.signer # "agentsig"
             THEN phase' = "signing" /\ UNCHANGED <<answer, signedAt>>
             ELSE \E clock \in ClockSet, nonce \in NonceSet :
                    /\ phase' = "signed" /\ answer' = Sign(request', call.options, clock, nonce)
                    /\ signedAt' = clock \div 1000
          /\ UNCHANGED outcome
  /\ UNCHANGED <<callVars, aborted, wire, pathVars>>

\* A signer of the application: it signs other components, or returns anything.
SignerAnswers ==
  /\ phase = "signing" /\ phase' = "signed"
  /\ \/ \E components \in ForeignSets, clock \in ClockSet, nonce \in NonceSet :
          /\ answer' = SignComponents(request, call.options, components,
                         SigningParameters(call.options, clock \div 1000, nonce))
          /\ signedAt' = clock \div 1000
     \/ \E patch \in BadPatches : answer' = [reason |-> None, headers |-> patch] /\ UNCHANGED signedAt
     \/ answer' = [reason |-> "threw", headers |-> <<>>] /\ UNCHANGED signedAt
  /\ UNCHANGED <<callVars, request, aborted, outcome, wire, pathVars>>

Abort ==
  /\ phase \in {"signing", "signed", "sent"} /\ call.api = "fetch" /\ ~aborted /\ aborted' = TRUE
  /\ UNCHANGED <<callVars, phase, request, answer, signedAt, outcome, wire, pathVars>>

\* Printable ASCII, without spaces around it.
ValidValue(value) ==
  /\ value # <<>> /\ value = Trimmed(value) /\ IsAscii(value)
  /\ \A i \in DOMAIN value : value[i] \notin {Tab, <<"fold">>, <<"break">>}
\* Three pairs, each of the names once.
ValidPatch(headers) ==
  /\ Len(headers) = 3 /\ Names(headers) = SignatureNames
  /\ \A i \in DOMAIN headers : ValidValue(headers[i].value)

Sends(message) ==
  /\ phase' = "sent" /\ wire' = Append(wire, message) /\ transit' = message
  /\ UNCHANGED <<outcome, altered, harmless, verdict, judgedAt>>
StopsWith(reason) == Ends(reason) /\ UNCHANGED <<wire, pathVars>>
MutContinue ==
  /\ phase = "signed" /\ call.api = "fetch"
  /\ IF answer.reason = "threw" THEN StopsWith("type-error")
     ELSE IF answer.reason # None THEN StopsWith(answer.reason)
     ELSE IF ~ValidPatch(answer.headers) THEN StopsWith("invalid")
     ELSE Sends([request EXCEPT !.headers = @ \o answer.headers])
  /\ UNCHANGED <<callVars, request, answer, signedAt, aborted>>
\* After the await of the signer.
Continue ==
  /\ phase = "signed" /\ call.api = "fetch"
  /\ IF answer.reason = "threw" THEN StopsWith("type-error")
     ELSE IF answer.reason # None THEN StopsWith(answer.reason)
     ELSE IF aborted THEN StopsWith("abort")
     ELSE IF ~ValidPatch(answer.headers) THEN StopsWith("invalid")
     ELSE Sends([request EXCEPT !.headers = @ \o answer.headers])
  /\ UNCHANGED <<callVars, request, answer, signedAt, aborted>>

\* The application signs the request that it has, lines as they are, and appends
\* the headers that it gets.
SignDirectly ==
  /\ phase = "called" /\ call.api = "direct"
  /\ \E clock \in ClockSet, nonce \in NonceSet :
       /\ answer' = Sign(request, call.options, clock, nonce) /\ signedAt' = clock \div 1000
       /\ IF answer'.reason # None THEN StopsWith(answer'.reason)
          ELSE Sends([request EXCEPT !.headers = @ \o answer'.headers])
  /\ UNCHANGED <<callVars, request, aborted>>

\* The transport's promise; a failure after an abort is the abort's.
TransportSettles ==
  /\ phase = "sent"
  /\ \/ verdict # Unjudged /\ Ends("response")
     \/ Ends(IF aborted THEN "abort" ELSE "type-error")
  /\ UNCHANGED <<callVars, request, answer, signedAt, aborted, wire, pathVars>>

-----------------------------------------------------------------------------
(* The network.                                                             *)

Covered(name) ==
  {c \in Range(SignedComponents(call.options)) : c.name = name}
Changes(message, allowed) ==
  /\ transit' = message /\ message # transit
  /\ altered' = altered + 1 /\ harmless' = (harmless /\ allowed)
Replaced(i, value) == [transit EXCEPT !.headers[i].value = value]
Merged(first, second) ==
  Combined(<<Trimmed(Unfolded(first, transit.version)), Trimmed(Unfolded(second, transit.version))>>)
HeadersOfTransit(headers) == [transit EXCEPT !.headers = headers]

\* White space around a value, a folded line (but for the two fields that are read
\* without the version of HTTP), the order of lines of several names
\* and the number of lines of one are not part of what is sent.
AlterHarmlessly ==
  LET headers == transit.headers
  IN \E i \in DOMAIN headers :
       \/ \E space \in {Sp, Tab} : \/ Changes(Replaced(i, <<space>> \o headers[i].value), TRUE)
                                   \/ Changes(Replaced(i, Append(headers[i].value, space)), TRUE)
       \/ /\ transit.version = "1.1"
          /\ \E j \in DOMAIN headers[i].value :
               /\ headers[i].value[j] = Sp
               /\ Changes(Replaced(i, [headers[i].value EXCEPT ![j] = <<"fold">>]),
                          headers[i].name \notin {"signature-input", "signature"})
       \/ /\ i < Len(headers) /\ headers[i].name # headers[i + 1].name
          /\ Changes(HeadersOfTransit([headers EXCEPT ![i] = headers[i + 1], ![i + 1] = headers[i]]), TRUE)
       \/ \E j \in (i + 1)..Len(headers) :
            /\ headers[i].name = headers[j].name /\ \A k \in (i + 1)..(j - 1) : headers[k].name # headers[i].name
            /\ Changes(HeadersOfTransit(RemoveAt([headers EXCEPT ![i].value = Merged(@, headers[j].value)], j)),
                       \A c \in Covered(headers[i].name) : ~Has(c.parameters, "bs"))
\* The rest is, if it is covered.
AlterContent ==
  LET headers == transit.headers
  IN \/ \E method \in Methods : Changes([transit EXCEPT !.method = method], FALSE)
     \/ \E target \in DOMAIN Targets : Changes([transit EXCEPT !.target = target], FALSE)
     \/ \E other \in OtherHeaders :
          Changes(WithHeader(transit, other.name, other.value),
                  other.name \notin SignatureNames /\ Covered(other.name) = {})
     \/ \E i \in DOMAIN headers :
          \/ Changes(HeadersOfTransit(RemoveAt(headers, i)),
                     headers[i].name \notin SignatureNames /\ Covered(headers[i].name) = {})
          \/ \E value \in OtherValues :
               Changes(Replaced(i, value), headers[i].name \notin SignatureNames /\ Covered(headers[i].name) = {})
          \/ /\ i < Len(headers) /\ headers[i].name = headers[i + 1].name
             /\ Changes(HeadersOfTransit([headers EXCEPT ![i] = headers[i + 1], ![i + 1] = headers[i]]), FALSE)
Alter ==
  /\ wire # <<>> /\ verdict = Unjudged /\ altered < MaxAlterations
  /\ AlterHarmlessly \/ AlterContent
  /\ UNCHANGED <<callVars, phase, request, answer, signedAt, aborted, outcome, wire, verdict, judgedAt>>

Arrive ==
  /\ wire # <<>> /\ verdict = Unjudged
  /\ \E now \in TimeSet : judgedAt' = now /\ verdict' = Verify(transit, verifier, now)
  /\ UNCHANGED <<callVars, phase, request, answer, signedAt, aborted, outcome, wire, transit, altered, harmless>>

Next ==
  \/ Fetch \/ SignerAnswers \/ Abort \/ Continue \/ SignDirectly \/ TransportSettles
  \/ Alter \/ Arrive

Spec == Init /\ [][Next]_vars

-----------------------------------------------------------------------------
(* Properties.                                                             *)

Sent == wire[1]
Genuine == call.api = "direct" \/ call.signer = "agentsig"
InTime == InWindow(signedAt, signedAt + call.options.lifetime, judgedAt)

\* What the lines of a field say of a covered component, whatever the base makes
\* of them: with a key, what its member says, and others may come and go.
Says(message, component) ==
  LET lines == LinesOf(message.headers, component.name)
      type == TypeOf(WithAgent(call.options.types, call.options.profile), component.name)
      values == [i \in DOMAIN lines |-> Trimmed(Unfolded(lines[i].value, message.version))]
      field == Parse(Combined(values), type)
  IN IF Has(component.parameters, "bs") THEN values
     ELSE IF Has(component.parameters, "key")
     THEN ParameterOf(field.entries, ParameterOf(component.parameters, "key")[2])
     ELSE IF Has(component.parameters, "sf") THEN field ELSE Combined(values)

\* A verified request has the method, the target and the agent that were signed, in
\* time for what the signer wrote; of a request that the signer of core signed, all
\* covered fields, or the covered members of fields, say what they said.
VerifiedMeansUnaltered ==
  verdict.reason = "verified" =>
    /\ transit.method = Sent.method /\ transit.target = Sent.target
    /\ verdict.claim = Origins[call.options.url] /\ verdict.key = call.options.key
    /\ InTime
    /\ Genuine => \A c \in Range(SignedComponents(call.options)) :
                     ~IsDerived(c) => Says(transit, c) = Says(Sent, c)

\* What the signer of core signed is verified, however HTTP has written it, by a
\* verifier that trusts the key and the agent.
Accepts ==
  LET key == call.options.key
  IN /\ call.options.profile \in verifier.profiles /\ key \in verifier.keys
     /\ key \in TestKeys => verifier.allowTestKeys
     /\ BindingFailure(verifier, key, Origins[call.options.url]) = None
     /\ verifier.types = call.options.types
UnalteredVerifies ==
  (verdict # Unjudged /\ harmless /\ Genuine /\ Accepts /\ InTime) =>
    verdict = Result("verified", Origins[call.options.url], call.options.key)

Places(headers, name) == {i \in DOMAIN headers : headers[i].name = name}

\* One request is sent, if at all, and none after an abort: the one that was
\* signed, with each of the three headers once, whatever the signer returns.
SendsOnce ==
  [][wire' # wire =>
       /\ wire = <<>> /\ Len(wire') = 1 /\ ~aborted
       /\ wire'[1].method = call.source.method /\ wire'[1].target = call.source.target
       /\ \A name \in SignatureNames : Cardinality(Places(wire'[1].headers, name)) = 1]_vars

=============================================================================
