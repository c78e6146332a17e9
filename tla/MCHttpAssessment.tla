--------------------------- MODULE MCHttpAssessment ---------------------------
(* Small instances of HttpAssessment. *)
EXTENDS HttpAssessment, TLC

CONSTANTS c1, c2, r1

Observe == [mode |-> "observe", bodyPolicy |-> "reject", timeout |-> 1000]
Enforce == [mode |-> "enforce", bodyPolicy |-> "reject", timeout |-> 2]
Lenient == [mode |-> "enforce", bodyPolicy |-> "allow-unverified", timeout |-> 2]

Call(adapter, config) == [request |-> r1, adapter |-> adapter, config |-> config]
Plan(one, two) == c1 :> one @@ c2 :> two

\* Two installations with the same options, or with others; Hono alone, with
\* another middleware, and together with Express.
MCPlans == {
  Plan(Call("express", Enforce), Call("express", Enforce)),
  Plan(Call("fastify", Enforce), Call("fastify", Lenient)),
  Plan(Call("hono", Lenient), Call("hono", Lenient)),
  Plan(Call("hono", Enforce), Call("hono", Observe)),
  Plan(Call("express", Lenient), Call("hono", Lenient)),
  Plan(Call("express", Observe), Call("express", Observe))}

Authority(host, port) == [kind |-> "authority", host |-> host, capital |-> FALSE, port |-> port,
                          length |-> 1]
Word(word) == [kind |-> "word", word |-> word]
Number(number) == [kind |-> "number", number |-> number]
H(name, value) == [name |-> name, value |-> value, cost |-> 5]
Host(host) == H("host", Authority(host, 0))
Path == [kind |-> "path", length |-> 1]

Edge == [family |-> 4, address |-> "edge"]
Input(headers, peer) ==
  [version |-> "1.1", method |-> "GET", url |-> Path, headers |-> headers, peer |-> peer,
   encrypted |-> TRUE]

Plain == <<Host("a")>>
WithBody == Append(Plain, H("transfer-encoding", Word("chunked")))
Forwarded(tokens) == H("forwarded", [kind |-> "pairs", tokens |-> tokens])
Pair(name, value) == [name |-> name, value |-> value]
Semicolon == [name |-> ";"]
XHost(host) == H("x-forwarded-host", Authority(host, 0))
XProto == H("x-forwarded-proto", Word("https"))
XHttp == H("x-forwarded-proto", Word("http"))
XPort(port) == H("x-forwarded-port", Number(port))

\* https://a/ has ten bytes: one more is one too many.
Limits == [maxHeaderBytes |-> 40, maxTargetUriBytes |-> 10]
Origins(names) == {HttpOriginKey("https", Authority(name, 0)) : name \in names}
Direct == [mode |-> "direct", family |-> "none", trustedPeers |-> {}, sanitizing |-> FALSE,
           origins |-> Origins({"a"}), limits |-> Limits]
Clear == [Direct EXCEPT !.origins = {HttpOriginKey("http", Authority("a", 0))}]
Ingress(family) ==
  [mode |-> "trusted-ingress", family |-> family, sanitizing |-> TRUE, limits |-> Limits,
   origins |-> Origins({"a", "b"}), trustedPeers |-> {[family |-> 4, members |-> {"edge"}]}]
Instance(p, m, i, d, t) ==
  [plan |-> p, mapper |-> m, input |-> r1 :> i, delivery |-> r1 :> d, taken |-> t]

\* Every way to decide, for a request without a body, with one, and without a
\* host.
Deciding ==
  {Instance(p, Direct, Input(h, Edge), "owned", t) :
     p \in MCPlans, h \in {Plain, WithBody, <<>>}, t \in SUBSET {r1}}
  \cup {Instance(p, Direct, [Input(Plain, Edge) EXCEPT !.version = v], d, {}) :
          p \in MCPlans, v \in {"1.1", "2"}, d \in {"tampered", "foreign"}}

\* Every kind of target: headers that agree, contradict each other, come in the
\* wrong family, or more than once.
Pairs == {<<>>, <<Pair("host", Authority("b", 0))>>,
          <<Pair("host", Authority("b", 0)), Semicolon, Pair("proto", Word("https"))>>,
          <<Pair("proto", Word("https")), Semicolon, Pair("host", Authority("c", 0))>>,
          <<Pair("host", Authority("b", 0)), Semicolon, Pair("proto", Word("http"))>>,
          <<Pair("host", Authority("b", 0)), Semicolon, Pair("host", Authority("a", 0))>>,
          <<Pair("host", Authority("b", 0)), Semicolon, Pair("proto", Word("https")), Semicolon>>,
          <<Pair("host", Authority("b", 0)), [name |-> ","], Pair("proto", Word("https"))>>,
          <<Pair("host", Authority("b", 0)), Semicolon, Pair("proto", Word("https")), Semicolon,
            Pair("for", [kind |-> "word", word |-> "?"])>>}
Forwardings == {<<>>, <<XHost("b")>>, <<XHost("b"), XProto>>, <<XHost("b"), XProto, XPort(443)>>,
           <<XHost("b"), XProto, XPort(80)>>, <<XHost("b"), XHost("a"), XProto>>,
           <<H("x-forwarded-host", [kind |-> "list"]), XProto>>,
           <<XHost("c"), XProto>>, <<XHost("b"), XHttp>>, <<XHost("b"), XProto, XHttp>>,
           <<XHost("b"), XHttp, XProto>>, <<XHttp>>,
           <<XHost("b"), XProto, H("x-forwarded-for", [kind |-> "node", type |-> "ip", canonical |-> FALSE])>>}
  \cup {<<XHost("b"), XProto, Forwarded(p)>> : p \in Pairs}
  \cup {<<Forwarded(p)>> : p \in Pairs} \cup {<<Forwarded(p), XHost("a")>> : p \in Pairs}
Framings == {<<>>, <<H("content-length", Number(0))>>, <<H("content-length", Number(7))>>,
             <<H("content-length", Number(7)), H("transfer-encoding", Word("chunked"))>>,
             <<H("content-length", Number(7)), H("content-length", Number(7))>>}
Hosts == {<<>>, <<Host("a")>>, <<Host("a"), Host("b")>>, <<Host("c")>>}
Stranger == [family |-> 6, address |-> "edge"]
Mapping ==
  {Instance(Plan(Call("express", Observe), Call("express", Observe)), m, Input(h \o f \o b, peer), "owned", {r1}) :
     m \in {Direct, Ingress("forwarded"), Ingress("x-forwarded")},
     h \in Hosts, f \in Forwardings, b \in Framings, peer \in {Edge, Stranger}}

\* Requests that the snapshot refuses, or only just takes.
Odd == {[Input(Plain, Edge) EXCEPT !.method = m] : m \in {"long", "junk", "CONNECT", "POST"}}
  \cup {[Input(Plain, Edge) EXCEPT !.url = [kind |-> k, length |-> n]] :
          k \in {"path", "empty", "absolute", "junk"}, n \in {1, 2, 11}}
  \cup {Input(h, Edge) : h \in {Append(Plain, H("junk", Word("?"))), Append(Plain, H("x", [kind |-> "control"])),
                               Append(Plain, [H("x", Word("?")) EXCEPT !.cost = 36]),
                               <<[H("junk", Word("?")) EXCEPT !.cost = 41]>>,
                               [i \in 1..11 |-> H("x", Word("?"))]}}
Snapshots ==
  {Instance(Plan(Call("express", Observe), Call("express", Observe)), m, [i EXCEPT !.encrypted = e], "owned", {r1}) :
     m \in {Direct, Clear}, e \in BOOLEAN,
     i \in Odd \cup {Input(Plain \o f, Edge) : f \in {<<>>, <<XHost("b"), XProto>>, <<XHttp>>}}}

MCInstances == Deciding \cup Mapping \cup Snapshots
=============================================================================
