----------------------------- MODULE HttpMapping -----------------------------
(***************************************************************************)
(* How a captured HTTP/1.1 request becomes the request that is verified:    *)
(* packages/core/src/http/snapshot.ts, mapping.ts, authority.ts and         *)
(* forwarding.ts.                                                           *)
(*                                                                         *)
(* A header is [name, value, cost], its name already in lower case.  Values *)
(* are tagged records in place of text: an authority (kind "authority"), a  *)
(* list with a comma ("list"), nothing ("empty"), an address ("node"), a    *)
(* number, a word, the parameters of Forwarded ("pairs"), "control", which   *)
(* has a control character, or "junk", which no parser accepts.  The cost of *)
(* a header is its bytes with the separators.  A function that throws        *)
(* HttpMappingError returns the error's code; every other result is a record. *)
(***************************************************************************)
EXTENDS Naturals, Sequences, SequencesExt

\* An authority is [kind, host, capital, port, length]: capital says that the
\* text has upper-case letters, which its canonical form has not; port 0 is no
\* port; length is that of the text as it was received.
Failed(result) == result.kind = "rejected"
Reject(code) == [kind |-> "rejected", code |-> code]
Absent == [kind |-> "absent"]

\* The first rejection among results that are computed in this order.
FirstRejection(results) ==
  LET bad == {i \in DOMAIN results : Failed(results[i])}
  IN IF bad = {} THEN Absent ELSE results[CHOOSE i \in bad : \A j \in bad : i <= j]

MaxPort == 65535
ParseHttpAuthority(value) ==
  IF value.kind = "authority" /\ value.port <= MaxPort
  THEN value ELSE Reject("request-malformed")

HttpOriginKey(scheme, authority) ==
  <<scheme, authority.host,
    IF authority.port # 0 THEN authority.port ELSE IF scheme = "https" THEN 443 ELSE 80>>

\* Trusted peers are ranges [family, members]; an IPv6 address that maps an
\* IPv4 one is not in a range of IPv4.
TrustsPeer(ranges, peer) ==
  \E range \in ranges : range.family = peer.family /\ peer.address \in range.members

\* resolveHttpConfiguration.  The options of forwarding belong to one mode.
ValidHttpConfiguration(options) ==
  /\ options.mode \in {"direct", "trusted-ingress"} /\ options.origins # {}
  /\ options.mode = "direct" =>
       options.family = "none" /\ options.trustedPeers = {} /\ ~options.sanitizing
  /\ options.mode = "trusted-ingress" =>
       /\ \A origin \in options.origins : origin[1] = "https"
       /\ options.sanitizing /\ options.family \in {"forwarded", "x-forwarded"}
       /\ options.trustedPeers # {}

\* Forwarded is a sequence of tokens: pairs [name, value] at odd places, and
\* separators, whose name is ";" or ",", at even ones.  The first that is out of
\* order rejects the value; so do no pairs at all and a ";" at the end.
TokenFault(tokens, i) ==
  LET token == tokens[i]
  IN IF token.name = "," THEN "forwarding-chain-rejected"
     ELSE IF \/ i % 2 = 0 /\ (token.name # ";" \/ i = Len(tokens))
             \/ i % 2 = 1 /\ \/ token.name \notin {"host", "proto", "for", "by"}
                             \/ \E j \in 1..(i - 1) : tokens[j].name = token.name
                             \/ token.value.kind = "junk"
          THEN "forwarding-malformed" ELSE "none"

ParseForwarded(value) ==
  LET tokens == value.tokens
      bad == {i \in DOMAIN tokens : TokenFault(tokens, i) # "none"}
  IN IF value.kind # "pairs" THEN Reject("forwarding-malformed")
     ELSE IF tokens = <<>> THEN Reject("forwarding-malformed")
     ELSE IF bad # {} THEN Reject(TokenFault(tokens, CHOOSE i \in bad : \A j \in bad : i <= j))
     ELSE [kind |-> "pairs", pairs |-> {tokens[i] : i \in {j \in DOMAIN tokens : j % 2 = 1}}]

\* A node of RFC 7239 may be obfuscated or unknown; X-Forwarded-For is an
\* address in canonical form and nothing else.
ForwardedNode(value) ==
  IF value.kind = "node" THEN value ELSE Reject("forwarding-malformed")
XForwardedClient(value) ==
  IF value.kind = "node" /\ value.type = "ip" /\ value.canonical
  THEN value ELSE Reject("forwarding-malformed")

-----------------------------------------------------------------------------
(* The captured request.                                                     *)

Total(headers) == FoldLeft(LAMBDA sum, h : sum + h.cost, 0, headers)

\* Header by header: the bytes so far, then the name and the value.
HeaderFault(headers, i, limits) ==
  IF Total(SubSeq(headers, 1, i)) > limits.maxHeaderBytes THEN Reject("resource-limit")
  ELSE IF headers[i].name = "junk" \/ headers[i].value.kind = "control"
       THEN Reject("headers-malformed")
  ELSE Absent
HeadersFault(headers, limits) ==
  IF 4 * Len(headers) > limits.maxHeaderBytes THEN Reject("resource-limit")
  ELSE FirstRejection([i \in DOMAIN headers |-> HeaderFault(headers, i, limits)])

\* A method "long" has more characters than a whole header may have.
SnapshotHttpRequest(input, limits) ==
  IF input.version = "2" THEN Reject("http2-unsupported")
  ELSE IF input.version # "1.1" THEN Reject("request-unsupported")
  ELSE IF input.method = "long" \/ input.url.length > limits.maxTargetUriBytes
       THEN Reject("resource-limit")
  ELSE IF input.method = "junk" \/ input.url.kind = "empty" THEN Reject("request-malformed")
  ELSE IF input.method = "CONNECT" \/ input.url.kind = "absolute" THEN Reject("request-unsupported")
  ELSE IF input.url.kind # "path" THEN Reject("request-malformed")
  ELSE IF Failed(HeadersFault(input.headers, limits)) THEN HeadersFault(input.headers, limits)
  ELSE [kind |-> "snapshot", input |-> input]

\* What the server hands over: headers in a row, and in a row what a value of
\* Forwarded consists of.
ValueKinds == {"authority", "list", "empty", "node", "number", "word", "pairs", "control", "junk"}
IsRow(s) == s \in Seq(Range(s))
WellFormedInput(input) ==
  /\ IsRow(input.headers)
  /\ \A h \in Range(input.headers) :
       h.value.kind \in ValueKinds /\ (h.value.kind = "pairs" => IsRow(h.value.tokens))

-----------------------------------------------------------------------------
(* Its target.                                                               *)

\* What has been pushed for a name, one header after the other.
Values(input, name) ==
  LET headers == input.headers
      found[i \in 0 .. Len(headers)] ==
        IF i = 0 THEN <<>>
        ELSE IF headers[i].name = name THEN Append(found[i - 1], headers[i].value)
        ELSE found[i - 1]
  IN found[Len(headers)]
Has(input, name) == Values(input, name) # <<>>

XFields == {"x-forwarded-host", "x-forwarded-proto", "x-forwarded-port", "x-forwarded-for"}

MutSingle(input, name, required) ==
  LET values == Values(input, name)
  IN IF values = <<>>
     THEN IF required THEN Reject("forwarding-missing") ELSE Absent
     ELSE values[1]
\* single() of mapHttpSnapshot: every occurrence is screened, never just one.
Single(input, name, required) ==
  LET values == Values(input, name)
  IN IF values = <<>>
     THEN IF required THEN Reject("forwarding-missing") ELSE Absent
     ELSE IF Len(values) # 1 \/ values[1].kind = "list" THEN Reject("forwarding-chain-rejected")
     ELSE IF values[1].kind = "empty" THEN Reject("forwarding-malformed")
     ELSE values[1]

Target(host, protocol, client) ==
  IF protocol.kind # "word" \/ protocol.word # "https" THEN Reject("ingress-https-required")
  ELSE LET authority == ParseHttpAuthority(host)
       IN IF Failed(authority) THEN authority
          ELSE [kind |-> "target", scheme |-> "https", authority |-> authority, client |-> client]

ForwardedTarget(input) ==
  LET values == Values(input, "forwarded")
      parsed == ParseForwarded(values[1])
      Has1(name) == \E p \in parsed.pairs : p.name = name
      Get(name) == (CHOOSE p \in parsed.pairs : p.name = name).value
      Node(name) == IF Has1(name) THEN ForwardedNode(Get(name)) ELSE Absent
  IN IF values = <<>> THEN Reject("forwarding-missing")
     ELSE IF Len(values) # 1 THEN Reject("forwarding-chain-rejected")
     ELSE IF Failed(parsed) THEN parsed
     ELSE IF ~Has1("host") \/ ~Has1("proto") THEN Reject("forwarding-missing")
     ELSE LET bad == FirstRejection(<<Node("for"), Node("by")>>)
          IN IF Failed(bad) THEN bad ELSE Target(Get("host"), Get("proto"), Node("for"))

\* Of four headers that were screened: all are read before one is believed.
ScreenedTarget(host, proto, port, from) ==
  LET client == IF from.kind \in {"absent", "rejected"} THEN from ELSE XForwardedClient(from)
      bad == FirstRejection(<<host, proto, port, client,
                              IF Failed(host) THEN host ELSE ParseHttpAuthority(host)>>)
  IN IF Failed(bad) THEN bad
     ELSE IF port.kind # "absent" /\ (port.kind # "number" \/ port.number \notin 1..MaxPort)
          THEN Reject("forwarding-malformed")
     ELSE IF port.kind # "absent" /\ port.number # HttpOriginKey("https", host)[3]
          THEN Reject("forwarding-port-inconsistent")
     ELSE Target(host, proto, client)

XForwardedTarget(input) ==
  ScreenedTarget(Single(input, "x-forwarded-host", TRUE), Single(input, "x-forwarded-proto", TRUE),
                 Single(input, "x-forwarded-port", FALSE), Single(input, "x-forwarded-for", FALSE))

\* Forwarding headers are evidence only from a trusted peer, and only of the
\* family that is configured; the other family makes the request ambiguous.
IngressTarget(input, config) ==
  IF ~TrustsPeer(config.trustedPeers, input.peer) THEN Reject("ingress-peer-untrusted")
  ELSE IF \/ config.family = "forwarded" /\ \E x \in XFields : Has(input, x)
          \/ config.family = "x-forwarded" /\ Has(input, "forwarded")
       THEN Reject("forwarding-families-mixed")
  ELSE IF config.family = "forwarded" THEN ForwardedTarget(input)
  ELSE XForwardedTarget(input)

-----------------------------------------------------------------------------
(* The framing of its body, and the result.                                  *)

FramingAmbiguous(input) ==
  LET lengths == Values(input, "content-length")
      codings == Values(input, "transfer-encoding")
  IN \/ lengths # <<>> /\ (Len(lengths) # 1 \/ lengths[1].kind # "number")
     \/ codings # <<>> /\ \/ lengths # <<>> \/ Len(codings) # 1
                          \/ codings[1] # [kind |-> "word", word |-> "chunked"]

BodyPresent(input) ==
  \/ Has(input, "transfer-encoding")
  \/ Has(input, "content-length") /\ Values(input, "content-length")[1].number # 0

\* scheme://authority/path, as the verifier will read it.
TargetLength(target, url) ==
  (IF target.scheme = "https" THEN 5 ELSE 4) + 3 + target.authority.length + url.length

MapHttpSnapshot(input, config) ==
  LET snapshot == SnapshotHttpRequest(input, config.limits)
      hosts == Values(input, "host")
      internal == ParseHttpAuthority(hosts[1])
      target == IF config.mode = "trusted-ingress" THEN IngressTarget(input, config)
                ELSE [kind |-> "target", authority |-> internal, client |-> Absent,
                      scheme |-> IF input.encrypted THEN "https" ELSE "http"]
  IN IF Failed(snapshot) THEN snapshot
     ELSE IF hosts = <<>> THEN Reject("host-missing")
     ELSE IF Len(hosts) # 1 THEN Reject("host-ambiguous")
     ELSE IF Failed(internal) THEN internal
     ELSE IF Failed(target) THEN target
     ELSE IF HttpOriginKey(target.scheme, target.authority) \notin config.origins
          THEN Reject("origin-disallowed")
     ELSE IF TargetLength(target, input.url) > config.limits.maxTargetUriBytes THEN Reject("resource-limit")
     ELSE IF FramingAmbiguous(input) THEN Reject("headers-malformed")
     ELSE [kind |-> "mapped", scheme |-> target.scheme, authority |-> target.authority,
           internal |-> internal, client |-> target.client, body |-> BodyPresent(input)]

=============================================================================
