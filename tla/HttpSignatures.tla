---------------------------- MODULE HttpSignatures ----------------------------
(***************************************************************************)
(* RFC 9421 as packages/core implements it for requests: field values        *)
(* (headers.ts), derived components (uri.ts), the signature base             *)
(* (signature-base.ts), Signature-Input and Signature (signature-input.ts)   *)
(* and the cryptography (crypto.ts).                                        *)
(*                                                                         *)
(* A request is [method, target, raw, version, headers], a header            *)
(* [name, value] with its name in lower case and the lexemes of its value:    *)
(* those of StructuredFields, <<"text", t>> for what is none of them,          *)
(* <<"obs">> for a byte that is not ASCII, <<"fold">> for a folded line and     *)
(* <<"break">> for any other control character.  An Ed25519 signature is ideal: *)
(* it is the key and the base that it was made of.                            *)
(***************************************************************************)
EXTENDS StructuredFields

CONSTANTS
  Targets,       \* of each target URI that is one: [scheme, host, port, path, query, pairs]
  DerivedNames,  \* names that start with @
  FieldNames,    \* the other names, in lower case
  CoreLimits     \* [components, parameters, signatures]

None == "none"   \* no failure, or a part of a request that is not there
Text(lexemes) == [reason |-> None, text |-> lexemes]
Fails(reason) == [reason |-> reason, text |-> <<>>]
\* Of checks in a row, the first that fails.
FirstFailure(reasons) ==
  LET failures == SelectSeq(reasons, LAMBDA reason : reason # None)
  IN IF failures = <<>> THEN None ELSE Head(failures)

\* getParameter() and getMember().
Absent == <<"absent">>
Has(pairs, key) == \E i \in DOMAIN pairs : pairs[i][1] = key
ParameterOf(parameters, key) ==
  IF Has(parameters, key) THEN parameters[CHOOSE i \in DOMAIN parameters : parameters[i][1] = key][2] ELSE Absent

\* withSfErrors().
SfReason(parser) == IF parser.at # "failed" THEN None ELSE IF parser.reason = "limit" THEN "resource-limit" ELSE "malformed"
WriteFailure(field) ==
  IF ~ValidField(field) THEN "malformed" ELSE IF ~Fits(field) THEN "resource-limit" ELSE None
Written(field) ==
  IF WriteFailure(field) # None THEN Fails(WriteFailure(field)) ELSE Text(Serialize(field))

-----------------------------------------------------------------------------
(* Field values.                                                            *)

IsSpace(lexeme) == lexeme \in {Sp, Tab}
MutTrimmed(value) ==
  LET solid == {i \in DOMAIN value : ~IsSpace(value[i])}
  IN IF solid = {} THEN <<>> ELSE SubSeq(value, 1, Max(solid))
Trimmed(value) ==
  LET solid == {i \in DOMAIN value : ~IsSpace(value[i])}
  IN IF solid = {} THEN <<>> ELSE SubSeq(value, Min(solid), Max(solid))
Unfolded(value, version) ==
  IF version = "1.1" THEN [i \in DOMAIN value |-> IF value[i] = <<"fold">> THEN Sp ELSE value[i]] ELSE value
\* normalizeValue()'s failure.
Breaks(value, version) ==
  \E i \in DOMAIN value : Unfolded(value, version)[i] \in {<<"fold">>, <<"break">>}

LinesOf(headers, name) == SelectSeq(headers, LAMBDA header : header.name = name)
BadLines(headers, name, version) ==
  \E i \in DOMAIN LinesOf(headers, name) : Breaks(LinesOf(headers, name)[i].value, version)
\* fieldValues(), of lines that are not bad.
FieldValues(headers, name, version) ==
  LET lines == LinesOf(headers, name)
  IN [i \in DOMAIN lines |-> Trimmed(Unfolded(lines[i].value, version))]
Combined(values) == Joined(values, <<<<",">>, Sp>>)
IsAscii(text) == <<"obs">> \notin {text[i] : i \in DOMAIN text}

-----------------------------------------------------------------------------
(* Components.                                                              *)

IsDerived(component) == component.name \in DerivedNames

\* requestComponent(), of a derived name.
DefaultPort(scheme) == IF scheme = "https" THEN "443" ELSE "80"
Authority(target) ==
  IF target.port \in {"", DefaultPort(target.scheme)} THEN <<<<"text", target.host>>>>
  ELSE <<<<"text", target.host>>, <<":">>, <<"text", target.port>>>>
QueryParameter(target, name) ==
  LET found == SelectSeq(target.pairs, LAMBDA pair : pair[1] = name)
  IN IF Len(found) > 1 THEN Fails("malformed")
     ELSE IF found = <<>> THEN Fails("missing-component") ELSE Text(<<<<"text", found[1][2]>>>>)
TargetComponent(request, component) ==
  LET target == Targets[request.target]
      word(text) == Text(<<<<"text", text>>>>)
  IN CASE component.name = "@target-uri" -> word(request.target)
       [] component.name = "@authority" -> Text(Authority(target))
       [] component.name = "@scheme" -> word(target.scheme)
       [] component.name = "@path" -> word(IF target.path = "" THEN "/" ELSE target.path)
       [] component.name = "@query" -> word(IF target.query = "" THEN "?" ELSE target.query)
       [] component.name = "@query-param" ->
            QueryParameter(target, ParameterOf(component.parameters, "name")[2])
       [] OTHER -> Fails("unsupported")
RequestComponent(request, component) ==
  IF component.name = "@method" THEN Text(<<<<"text", request.method>>>>)
  ELSE IF component.name = "@request-target"
  THEN IF request.raw = None THEN Fails("missing-component") ELSE Text(<<<<"text", request.raw>>>>)
  ELSE IF request.target \notin DOMAIN Targets THEN Fails("malformed")
  ELSE IF Targets[request.target].scheme \notin {"http", "https"} THEN Fails("unsupported")
  ELSE TargetComponent(request, component)

\* componentFlags(): the first parameter that is bad, or a bad combination.
FlagFailure(pair) ==
  CASE pair[1] \in {"req", "sf", "bs"} -> IF pair[2] = True THEN None ELSE "malformed"
    [] pair[1] \in {"key", "name"} -> IF pair[2][1] = "string" THEN None ELSE "malformed"
    [] OTHER -> "unsupported"
FlagsFailure(component) ==
  LET parameters == component.parameters
      failure == FirstFailure([i \in DOMAIN parameters |-> FlagFailure(parameters[i])])
      has(key) == Has(parameters, key)
  IN IF failure # None THEN failure
     ELSE IF \/ IsDerived(component) /\ (has("sf") \/ has("bs") \/ has("key"))
             \/ has("name") # (component.name = "@query-param")
             \/ has("bs") /\ (has("sf") \/ has("key"))
     THEN "malformed" ELSE None

\* headerComponent().  `types` are the types of the structured fields.
TypeOf(types, name) ==
  IF name \in DOMAIN types THEN types[name]
  ELSE IF name \in {"signature-input", "signature", "content-digest"} THEN "dictionary" ELSE None
WrappedBytes(value) == Item(<<"bytes", [key |-> None, base |-> value]>>)
StrictText(component, parser) ==
  LET key == ParameterOf(component.parameters, "key")
      entries == Semantic(parser).entries
  IN IF SfReason(parser) # None THEN Fails(SfReason(parser))
     ELSE IF key = Absent THEN Written(Semantic(parser))
     ELSE IF ~Has(entries, key[2]) THEN Fails("missing-component")
     ELSE Text(WriteMember(ParameterOf(entries, key[2])))
HeaderText(component, values, type) ==
  LET text == Combined(values)
      has(key) == Has(component.parameters, key)
  IN IF values = <<>> THEN Fails("missing-component")
     ELSE IF has("bs")
     THEN Written([kind |-> "list", entries |-> [i \in DOMAIN values |-> <<i, WrappedBytes(values[i])>>]])
     ELSE IF ~IsAscii(text) THEN Fails("malformed")
     ELSE IF ~has("sf") /\ ~has("key") THEN Text(text)
     ELSE IF type = None THEN Fails("unsupported")
     ELSE IF has("key") /\ type # "dictionary" THEN Fails("malformed")
     ELSE StrictText(component, ParseRaw(text, type))
HeaderComponent(request, component, types) ==
  IF BadLines(request.headers, component.name, request.version) THEN Fails("malformed")
  ELSE HeaderText(component, FieldValues(request.headers, component.name, request.version),
                  TypeOf(types, component.name))

ComponentValue(request, component, types) ==
  IF FlagsFailure(component) # None THEN Fails(FlagsFailure(component))
  ELSE IF Has(component.parameters, "req") \/ component.name = "@status" THEN Fails("malformed")
  ELSE IF IsDerived(component) THEN RequestComponent(request, component)
  ELSE HeaderComponent(request, component, types)

-----------------------------------------------------------------------------
(* Signature-Input.  An input is [label, components, parameters].            *)

ParametersFailure(parameters) ==
  IF Len(parameters) > CoreLimits.parameters THEN "resource-limit"
  ELSE IF \E i \in DOMAIN parameters : parameters[i][2][1] \in {"date", "display-string"} THEN "unsupported"
  ELSE None
MetadataTypes(parameters) ==
  \A i \in DOMAIN parameters :
    /\ parameters[i][1] \in {"created", "expires"} => parameters[i][2][1] = "integer"
    /\ parameters[i][1] \in {"nonce", "alg", "keyid", "tag"} => parameters[i][2][1] = "string"
NamedItem(component) ==
  [kind |-> "item", bare |-> <<"string", component.name>>, parameters |-> component.parameters]
Inner(input) ==
  [kind |-> "inner-list", parameters |-> input.parameters,
   items |-> [i \in DOMAIN input.components |-> NamedItem(input.components[i])]]
InputField(input) == [kind |-> "dictionary", entries |-> <<<<input.label, Inner(input)>>>>]

\* signatureInnerList().
ComponentFailure(component) ==
  IF component.name \notin (DerivedNames \cup FieldNames) \ {"@signature-params"} THEN "malformed"
  ELSE ParametersFailure(component.parameters)
InputFailure(input) ==
  LET components == input.components
      failure == FirstFailure([i \in DOMAIN components |-> ComponentFailure(components[i])])
  IN IF Len(components) > CoreLimits.components THEN "resource-limit"
     ELSE IF ParametersFailure(input.parameters) # None THEN ParametersFailure(input.parameters)
     ELSE IF ~MetadataTypes(input.parameters) THEN "malformed"
     ELSE IF failure # None THEN failure
     ELSE WriteFailure(InputField(input))

\* createSignatureBase(): its lines, and the base.
AddLine(lines, identifier, value) ==
  IF lines.reason # None THEN lines
  ELSE IF identifier \in lines.seen THEN [lines EXCEPT !.reason = "malformed"]
  ELSE IF value.reason # None THEN [lines EXCEPT !.reason = value.reason]
  ELSE [reason |-> None, seen |-> lines.seen \cup {identifier},
        text |-> lines.text \o identifier \o <<<<": ">>>> \o value.text \o <<<<"newline">>>>]
Lines(request, components, types) ==
  FoldLeft(LAMBDA lines, component :
             AddLine(lines, WriteItem(NamedItem(component)), ComponentValue(request, component, types)),
           [reason |-> None, seen |-> {}, text |-> <<>>], components)
MutBase(input, lines) ==
  IF lines.reason # None THEN Fails(lines.reason) ELSE Text(lines.text)
Base(input, lines) ==
  IF lines.reason # None THEN Fails(lines.reason)
  ELSE Text(lines.text \o <<<<"string", "@signature-params">>, <<": ">>>> \o WriteMember(Inner(input)))
SignatureBase(request, input, types) ==
  IF InputFailure(input) # None THEN Fails(InputFailure(input))
  ELSE Base(input, Lines(request, input.components, types))

-----------------------------------------------------------------------------
(* parseSignatureHeaders().                                                 *)

\* One of the two fields as it is read: [there, reasons, parser].  Reasons are
\* why its text, its syntax and its labels are refused.
TextFailure(headers, name, text) ==
  IF BadLines(headers, name, None) \/ ~IsAscii(text) THEN "malformed" ELSE None
LabelsFailure(parser) ==
  LET entries == parser.entries
  IN IF parser.at = "failed" THEN None
     ELSE IF Len(entries) > CoreLimits.signatures THEN "resource-limit"
     ELSE IF \E i, j \in DOMAIN entries : i # j /\ entries[i].key = entries[j].key THEN "malformed"
     ELSE None
FieldOf(headers, name, text, parser) ==
  [there |-> LinesOf(headers, name) # <<>>, parser |-> parser,
   reasons |-> <<TextFailure(headers, name, text), SfReason(parser), LabelsFailure(parser)>>]
ReadField(headers, name) ==
  LET text == Combined(FieldValues(headers, name, None))
  IN FieldOf(headers, name, text, ParseRaw(text, "dictionary"))

InputOf(label, member) ==
  [label |-> label, parameters |-> member.parameters,
   components |-> [i \in DOMAIN member.items |->
                     [name |-> member.items[i].bare[2], parameters |-> member.items[i].parameters]]]
PairFailure(label, member, values) ==
  LET signature == ParameterOf(values, label)
  IN IF \/ ~Has(values, label) \/ member.kind # "inner-list"
        \/ signature.kind # "item" \/ signature.bare[1] # "bytes" THEN "malformed"
  ELSE IF ParametersFailure(signature.parameters) # None THEN ParametersFailure(signature.parameters)
  ELSE IF \E i \in DOMAIN member.items : member.items[i].bare[1] # "string" THEN "malformed"
  ELSE InputFailure(InputOf(label, member))

\* Signatures [input, bytes], in the order of Signature-Input.
PairSignatures(inputs, values) ==
  LET fails(reason) == [reason |-> reason, signatures |-> <<>>]
      failure == FirstFailure([i \in DOMAIN inputs |-> PairFailure(inputs[i][1], inputs[i][2], values)])
  IN IF Len(inputs) # Len(values) THEN fails("malformed")
     ELSE IF failure # None THEN fails(failure)
     ELSE [reason |-> None,
           signatures |-> [i \in DOMAIN inputs |-> [input |-> InputOf(inputs[i][1], inputs[i][2]),
                                                    bytes |-> ParameterOf(values, inputs[i][1]).bare[2]]]]
\* Both texts are read before either is parsed, and both parsed before the
\* labels of either are looked at.
ParseSignatureHeaders(inputField, valueField) ==
  LET fails(reason) == [reason |-> reason, signatures |-> <<>>]
      failure == FirstFailure([n \in 1..6 |->
                   (IF n % 2 = 1 THEN inputField ELSE valueField).reasons[(n + 1) \div 2]])
  IN IF ~inputField.there /\ ~valueField.there THEN fails(None)
     ELSE IF ~inputField.there \/ ~valueField.there THEN fails("malformed")
     ELSE IF failure # None THEN fails(failure)
     ELSE PairSignatures(Semantic(inputField.parser).entries, Semantic(valueField.parser).entries)

-----------------------------------------------------------------------------
(* crypto.ts.                                                               *)

SignedBytes(key, base) == [key |-> key, base |-> base.text]
SignatureField(label, bytes) == [kind |-> "dictionary", entries |-> <<<<label, Item(<<"bytes", bytes>>)>>>>]

\* verifyHttpSignatureCryptography(), with a key that is Ed25519: the reason of its
\* rejection, or None.
CompareBytes(signature, key, base) ==
  IF base.reason # None THEN base.reason
  ELSE IF signature.bytes # SignedBytes(key, base) THEN "signature-mismatch" ELSE None
VerifyCryptography(request, signature, key, types) ==
  IF InputFailure(signature.input) # None THEN InputFailure(signature.input)
  ELSE IF ParameterOf(signature.input.parameters, "alg") \notin {Absent, <<"string", "ed25519">>}
  THEN "algorithm-mismatch"
  ELSE CompareBytes(signature, key, SignatureBase(request, signature.input, types))

=============================================================================
