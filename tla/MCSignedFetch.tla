---------------------------- MODULE MCSignedFetch ----------------------------
EXTENDS SignedFetch

MCLimits == [members |-> 4, innerListItems |-> 6, parameters |-> 6, occurrences |-> 24]
MCCoreLimits == [components |-> 5, parameters |-> 6, signatures |-> 2]
MCKeys == {"sig1", "a", "b", "key", "created", "expires", "keyid", "alg", "nonce", "tag", "sf", "bs", "name", "type", "req"}
MCTargets ==
  LET https(path) == [scheme |-> "https", host |-> "h", port |-> "443", path |-> path, query |-> "?q=1", pairs |-> <<<<"q", "1">>>>]
  IN [uri \in {"https-a", "https-b", "loopback", "ftp"} |->
        CASE uri = "https-a" -> https("/a") [] uri = "https-b" -> https("/b")
          [] uri = "ftp" -> [https("/a") EXCEPT !.scheme = "ftp"]
          [] OTHER -> [https("") EXCEPT !.scheme = "http", !.host = "127.0.0.1", !.port = "81", !.query = "", !.pairs = <<>>]]
MCDerived == {"@method", "@target-uri", "@authority", "@scheme", "@path", "@query", "@query-param",
              "@request-target", "@status", "@unknown", "@signature-params", "@query-params"}
MCFields == {"x", "d", "host", "signature", "signature-input", "signature-agent"}
MCOrigins == [url \in {"https://a", "https://A/", "https://b"} |-> IF url = "https://b" THEN url ELSE "https://a"]

T(text) == <<"text", text>>
Dictionary(value) == <<<<"word", "a">>, <<"=">>, <<"string", value>>, <<",">>, <<"word", "b">>>>
LoneDictionary == <<<<"word", "b">>, <<"=">>, <<"boolean", TRUE>>, <<",">>, Sp, <<"word", "a">>, <<"=">>, <<"string", "1">>>>

Bare0(name) == [name |-> name, parameters |-> <<>>]
With(name, key) == [name |-> name, parameters |-> <<<<key, True>>>>]
Keyed(name, parameter, value) == [name |-> name, parameters |-> <<<<parameter, <<"string", value>>>>>>]
MCTypes == [name \in {"d"} |-> "dictionary"]
Options(profile, additional) ==
  [key |-> "k1", allowTestKeys |-> FALSE, url |-> "https://A/", profile |-> profile, label |-> "sig1",
   additional |-> additional, types |-> MCTypes, lifetime |-> 60]
GoodInit == [redirect |-> TRUE, noCors |-> FALSE, used |-> FALSE, body |-> FALSE, bodyPolicy |-> "reject", allowHttp |-> FALSE]
Source(target, version, headers) ==
  [method |-> "GET", target |-> target, raw |-> None, version |-> version, headers |-> headers]
Call(api, signer, source, options) ==
  [api |-> api, signer |-> signer, source |-> source, replaced |-> <<>>, options |-> options, init |-> GoodInit]

TwoLines == <<Header("x", <<T("u"), Sp, T("v")>>), Header("x", <<Sp, T("w")>>)>>
WithD == <<Header("d", Dictionary("1"))>>
BadCalls ==
  LET base == Call("fetch", "agentsig", Source("https-a", "2", TwoLines), Options(Wg, <<>>))
  IN {[base EXCEPT !.source.headers = <<Header("signature", <<T("u")>>)>>],
      [base EXCEPT !.replaced = <<Header("host", <<T("h")>>)>>], [base EXCEPT !.init.redirect = FALSE],
      [base EXCEPT !.init.body = TRUE], [base EXCEPT !.source.target = "loopback"],
      [base EXCEPT !.options.additional = <<Bare0("@request-target")>>],
      [base EXCEPT !.options.additional = <<Bare0("host")>>],
      [base EXCEPT !.options.additional = <<Keyed("x", "key", "a")>>],
      [base EXCEPT !.api = "direct", !.options.additional = <<Bare0("host")>>],
      [base EXCEPT !.options.label = "Sig"], [base EXCEPT !.options.url = "https://h/a"],
      [base EXCEPT !.options.key = "test"], [base EXCEPT !.options.additional = <<Bare0("signature")>>]}
GoodCalls ==
  {Call("fetch", "agentsig", Source("https-a", "1.1", TwoLines), Options(Wg, <<Bare0("x")>>)),
   Call("fetch", "agentsig", Source("https-a", "2", WithD), Options(Wg, <<With("d", "sf"), Keyed("@query-param", "name", "q")>>)),
   [Call("fetch", "agentsig", Source("loopback", "2", WithD), Options(Wg, <<Keyed("d", "key", "a"), Bare0("@path")>>))
      EXCEPT !.init.allowHttp = TRUE],
   Call("fetch", "agentsig", Source("https-a", "2", TwoLines), Options(Cloudflare, <<Bare0("@authority"), Bare0("x")>>)),
   Call("direct", "agentsig", Source("https-a", "1.1", TwoLines), Options(Wg, <<Bare0("x")>>)),
   Call("direct", "agentsig", Source("https-a", "1.1", TwoLines), Options(Wg, <<With("x", "bs")>>)),
   Call("fetch", "custom", Source("https-a", "2", <<>>), Options(Wg, <<>>))}
MCCalls == GoodCalls \cup BadCalls

Verifier(profiles, requireBinding, bindings) ==
  [profiles |-> profiles, keys |-> {"k1", "k2"}, httpNames |-> {"ed25519", "rsa-pss-sha512"}, allowTestKeys |-> FALSE,
   bindings |-> bindings, requireBinding |-> requireBinding,
   noncePolicy |-> [p \in Profiles |-> IF p = Wg THEN "required" ELSE "optional"],
   types |-> MCTypes, mode |-> "exactly-one", maxCandidates |-> 4]
MCVerifiers ==
  {Verifier(Profiles, FALSE, {}), Verifier({Wg}, TRUE, {<<"k1", "https://a">>}),
   [Verifier(Profiles, TRUE, {<<"k1", "https://b">>}) EXCEPT !.mode = "any"]}

\* What a signer of the application covers.
MCForeignSets ==
  LET agent == Keyed("signature-agent", "key", "sig1")
  IN {<<Bare0("@method"), Bare0("@authority"), agent>>, <<agent, Bare0("@target-uri"), Bare0("@method")>>}
MCBadPatches ==
  LET good == <<Header("signature-input", <<T("i")>>), Header("signature", <<T("s")>>), Header("signature-agent", <<T("g")>>)>>
  IN {good, SubSeq(good, 1, 2), [good EXCEPT ![3].name = "x"], [good EXCEPT ![3].name = "signature"],
      [good EXCEPT ![2].value = <<>>], [good EXCEPT ![2].value = <<T("s"), Sp>>],
      [good EXCEPT ![1].value = <<<<"break">>, T("s")>>], Append(good, good[1])}

Later == Serialize(InputField([label |-> "sig1", components |-> SignedComponents(Options(Wg, <<Bare0("x")>>)),
                               parameters |-> SigningParameters(Options(Wg, <<>>), 80, "n")]))
\* A member that is not covered, of an agent's dictionary for one.
OtherMember == <<<<"word", "b">>, <<"=">>, <<"string", "https://b">>>>
MCOtherValues == {Later, LoneDictionary, OtherMember, <<<<"string", "https://b">>>>, <<>>}
MCOtherHeaders ==
  {Header("x", <<<<"string", "https://b">>>>), Header("x", <<>>), Header("d", LoneDictionary), Header("d", OtherMember),
   Header("signature-agent", OtherMember), Header("signature-input", Later)}
==============================================================================
