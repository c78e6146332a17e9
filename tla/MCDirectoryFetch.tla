--------------------------- MODULE MCDirectoryFetch ---------------------------
(* DirectoryEvidence with octets of one bit, so that IPv4 addresses have 4 bits and  *)
(* IPv6 ones 8: 1xxxxxxx is the envelope and 0001xxxx the mapped addresses.        *)
EXTENDS DirectoryEvidence

MCExcluded == {[family |-> 4, value |-> 0, bits |-> 1], [family |-> 6, value |-> 192, bits |-> 2]}
MCEnvelope == [family |-> 6, value |-> 128, bits |-> 1]
MCExceptions == [anycast4 |-> [family |-> 4, value |-> 5, bits |-> 4],
                 anycast6 |-> [family |-> 6, value |-> 208, bits |-> 4]]

Four(octets) == [family |-> 4, left |-> <<>>, right |-> <<>>, compressed |-> FALSE, octets |-> octets]
Six(left, right, octets) ==
  [family |-> 6, left |-> left, right |-> right, compressed |-> TRUE, octets |-> octets]
Public4 == Four(<<1, 0, 1, 0>>)
Anycast4 == Four(<<0, 1, 0, 1>>)
Public6 == Six(<<2>>, <<1>>, <<>>)
Anycast6 == Six(<<3, 1>>, <<>>, <<>>)
Special6 == [Six(<<3, 0, 1, 2>>, <<>>, <<>>) EXCEPT !.compressed = FALSE]
Mapped4 == Six(<<0>>, <<1>>, <<1, 0, 1, 0>>)
Garbage == [Public4 EXCEPT !.family = 0]

MCAnswers == {<<>>, <<Public4>>, <<Anycast4>>, <<Public6>>, <<Anycast6, Public6>>, <<Public6, Special6>>,
              <<Mapped4>>, <<Public4, Garbage>>, <<Public4, Public4, Anycast4>>}
MCPeers == {Public4, Anycast4, Public6, Anycast6, Mapped4, Garbage}

Plain == [plain |-> TRUE, mode |-> None, total |-> 4, policy |-> <<>>, allowed |-> <<"other", Origin>>,
          ca |-> None, proxy |-> None]
Proxy == [plain |-> TRUE, protocol |-> "https:", hostname |-> "valid", address |-> Public4, port |-> 1, ca |-> None]
Exempt == <<"anycast6", "anycast4">>
MCInputs ==
  {Plain, [Plain EXCEPT !.policy = Exempt], [Plain EXCEPT !.mode = "open", !.allowed = <<>>, !.proxy = Proxy],
   [Plain EXCEPT !.allowed = <<"other">>], [Plain EXCEPT !.allowed = <<Origin, "invalid">>],
   [Plain EXCEPT !.total = 5], [Plain EXCEPT !.policy = <<"anycast4", "anycast4">>],
   [Plain EXCEPT !.plain = FALSE], [Plain EXCEPT !.ca = "empty"],
   [Plain EXCEPT !.proxy = [Proxy EXCEPT !.port = 0]]}

MCSkews == {-1, 1}
MCKnownTestKeys == {<<"OKP", "Ed25519", <<1>>>>}
Header(name, value) == [name |-> name, value |-> value, directives |-> <<>>]
Listed(name, directives) ==
  [name |-> name, value |-> 0,
   directives |-> [i \in DOMAIN directives |-> [name |-> directives[i][1], seconds |-> directives[i][2]]]]
Control(directives) == Listed("cache-control", directives)
Pragma == Listed("pragma", <<<<"no-cache", 0>>>>)
Age == Header("age", 0)
Date == Header("date", 0)
Expires == Header("expires", 0)
MaxAge == Control(<<<<"max-age", 2>>>>)
Templates ==
  {<<>>, <<MaxAge>>, <<Age, MaxAge>>, <<Age, Date, Expires>>, <<Date, Expires>>, <<Expires>>,
   <<Date, Control(<<<<"max-age", 3>>, <<"s-maxage", 1>>>>)>>, <<MaxAge, MaxAge>>, <<MaxAge, Pragma>>,
   <<Age, Age>>, <<Control(<<<<"no-store", 0>>>>), MaxAge>>, <<Control(<<<<"max-age", Unparsed>>>>)>>,
   <<[Age EXCEPT !.value = Unparsed]>>, <<[MaxAge EXCEPT !.value = Unparsed]>>, <<Age, Date, Expires, MaxAge>>}

Key == [kty |-> "OKP", crv |-> "Ed25519", material |-> <<1>>, secret |-> FALSE, kid |-> Absent,
        use |-> Absent, ops |-> Absent, alg |-> Absent]
Rsa == [Key EXCEPT !.kty = "RSA", !.crv = Absent, !.material = <<2>>]
X25519 == [Key EXCEPT !.crv = "X25519"]
Document(keys) == [headers |-> <<MaxAge>>, bytes |-> 1, json |-> TRUE, keys |-> keys]
MCResponses ==
  {Document(keys) : keys \in
     {<<Key>>, <<Rsa, Key>>, <<[Key EXCEPT !.use = "sig", !.ops = <<"verify", "sign">>], Key>>,
      <<[Key EXCEPT !.alg = "EdDSA"]>>, <<[Key EXCEPT !.alg = "ed25519", !.kid = Thumbprint(Key)]>>,
      <<Key, [Key EXCEPT !.use = "enc"]>>, <<[Key EXCEPT !.ops = <<"sign">>]>>,
      <<[Key EXCEPT !.ops = <<"verify", "verify">>]>>, <<Key, [Rsa EXCEPT !.secret = TRUE]>>,
      <<[Rsa EXCEPT !.alg = "RS256"], Key>>, <<[X25519 EXCEPT !.use = "enc", !.ops = <<"deriveKey">>]>>,
      <<[X25519 EXCEPT !.alg = "EdDSA"], Key>>, <<[Key EXCEPT !.kid = <<0>>]>>, <<Key, Key, Key>>}} \cup
  {[Document(<<Key>>) EXCEPT !.headers = headers] : headers \in Templates} \cup
  {[Document(<<Key>>) EXCEPT !.bytes = 3], [Document(<<Key>>) EXCEPT !.json = FALSE]}

\* The proof that only admitted addresses are dialled takes this from the reader of addresses.
ASSUME MCDirectoryFetchAssumption == TextsDenote
================================================================================
