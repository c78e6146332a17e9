--------------------------- MODULE SignedFetchProofs ---------------------------
(***************************************************************************)
(* SendsOnce of SignedFetch, for every value of its constants: whatever the   *)
(* signer of the application returns, at most one request leaves, never after *)
(* an abort, and it has each of the three signature headers once.            *)
(***************************************************************************)
EXTENDS SignedFetch, FiniteSetTheorems, SequenceTheorems, TLAPS

\* Headers without those that a signer adds.
Unsigned(headers) == IsRow(headers) /\ \A i \in DOMAIN headers : headers[i].name \notin SignatureNames
\* Headers with each of those that a signer adds, once.
Added(headers) ==
  /\ IsRow(headers)
  /\ \A name \in SignatureNames : \E k \in DOMAIN headers : Places(headers, name) = {k}

Unsent == {"called", "signing", "signed"}

\* Until something is sent, the request that is owned is the one of the call; once
\* a signer has it, it has no signature headers; and what the signer answers is a
\* row of headers.
SInv ==
  /\ call \in Calls
  /\ phase \in Unsent =>
       /\ wire = <<>> /\ request.method = call.source.method /\ request.target = call.source.target
       /\ DOMAIN request = DOMAIN call.source
  /\ phase = "called" => request = call.source
  /\ phase \in {"signing", "signed"} => Unsigned(request.headers)
  /\ IsRow(answer.headers)
  /\ call.api = "direct" => ~aborted

\* A row has a length, and its elements are those of its range.
LEMMA RowFacts ==
  ASSUME NEW s, IsRow(s)
  PROVE  Len(s) \in Nat /\ DOMAIN s = 1 .. Len(s) /\ s \in Seq(Range(s))
  BY LenProperties DEF IsRow

\* Whatever is a sequence is a row.
LEMMA SequenceIsRow ==
  ASSUME NEW S, NEW s \in Seq(S)
  PROVE  IsRow(s)
<1>1. Len(s) \in Nat /\ DOMAIN s = 1 .. Len(s) /\ s = [i \in 1 .. Len(s) |-> s[i]]
  BY LenProperties
<1>2. \A i \in 1 .. Len(s) : s[i] \in Range(s)
  BY <1>1 DEF Range
<1> DEFINE n == Len(s)
<1>3. s \in [1 .. n -> Range(s)]
  BY <1>1, <1>2
<1> QED
  BY <1>1, <1>3, IsASeq DEF IsRow

\* The names of a Headers object are those of the headers that it was made of.
LEMMA FetchHeadersFacts ==
  ASSUME NEW headers, IsRow(headers)
  PROVE  /\ IsRow(FetchHeaders(headers))
         /\ \A k \in DOMAIN FetchHeaders(headers) : FetchHeaders(headers)[k].name \in Names(headers)
<1> DEFINE names == Names(headers)
           n == Cardinality(names)
           sorted == SetToSeq(names)
           made == FetchHeaders(headers)
<1>1. IsFiniteSet(names)
  <2>1. DOMAIN headers = 1 .. Len(headers) /\ Len(headers) \in Nat
    BY RowFacts
  <2>2. IsFiniteSet(DOMAIN headers)
    BY <2>1, FS_Interval
  <2> DEFINE f == [i \in DOMAIN headers |-> headers[i].name]
  <2>3. f \in Surjection(DOMAIN headers, names)
    BY DEF Surjection, Names
  <2> QED
    BY <2>2, <2>3, FS_Surjection
<1>2. PICK f \in [1 .. n -> names] : IsInjective(f)
  <2> HIDE DEF names
  <2>1. ExistsBijection(1 .. n, names)
    BY <1>1, FS_CardinalityType
  <2> QED
    BY <2>1 DEF ExistsBijection, Bijection, Injection
<1>3. sorted \in [1 .. n -> names]
  <2> HIDE DEF names, n
  <2> QED
    BY <1>2 DEF SetToSeq, n
<1>4. n \in Nat
  BY <1>1, FS_CardinalityType
<1> DEFINE value(k) == LET lines == LinesOf(headers, sorted[k])
                       IN Combined([i \in DOMAIN lines |-> Trimmed(lines[i].value)])
<1>5. made = [k \in DOMAIN sorted |-> Header(sorted[k], value(k))]
  BY DEF FetchHeaders
<1> HIDE DEF value, sorted, made, n, names
<1>6. DOMAIN sorted = 1 .. n
  BY <1>3
<1>7. \A k \in 1 .. n : made[k].name = sorted[k] /\ sorted[k] \in names
  BY <1>3, <1>5, <1>6 DEF Header
<1>8. made \in Seq({made[k] : k \in 1 .. n})
  BY <1>4, <1>5, <1>6, IsASeq
<1>9. IsRow(made)
  BY <1>8, SequenceIsRow
<1>10. DOMAIN made = 1 .. n
  BY <1>5, <1>6
<1> QED
  BY <1>7, <1>9, <1>10 DEF made, names

\* The headers of a signature follow, and each is there once.
LEMMA AddedFacts ==
  ASSUME NEW headers, Unsigned(headers), NEW patch, IsRow(patch), Len(patch) = 3,
         Names(patch) = SignatureNames
  PROVE  Added(headers \o patch)
<1> DEFINE n == Len(headers)
           all == headers \o patch
<1>1. n \in Nat /\ DOMAIN headers = 1 .. n /\ DOMAIN patch = 1 .. 3
  BY RowFacts DEF Unsigned
<1>2. /\ all \in Seq(Range(headers) \cup Range(patch))
      /\ Len(all) = n + 3 /\ DOMAIN all = 1 .. n + 3
      /\ \A i \in 1 .. n : all[i] = headers[i]
      /\ \A i \in 1 .. 3 : all[n + i] = patch[i]
  <2>1. headers \in Seq(Range(headers) \cup Range(patch)) /\ patch \in Seq(Range(headers) \cup Range(patch))
    BY SeqMonotonic, RowFacts DEF Unsigned
  <2>2. /\ all \in Seq(Range(headers) \cup Range(patch)) /\ Len(all) = n + 3
        /\ \A i \in 1 .. n + 3 : all[i] = IF i <= n THEN headers[i] ELSE patch[i - n]
    <3> DEFINE T == Range(headers) \cup Range(patch)
    <3> HIDE DEF T
    <3>1. headers \in Seq(T) /\ patch \in Seq(T)
      BY <2>1 DEF T
    <3>2. /\ all \in Seq(T) /\ Len(all) = n + Len(patch)
          /\ \A i \in 1 .. n + Len(patch) : all[i] = IF i <= n THEN headers[i] ELSE patch[i - n]
      BY <3>1, ConcatProperties, Zenon
    <3> QED
      BY <3>2 DEF T
  <2> HIDE DEF n, all
  <2>3. DOMAIN all = 1 .. n + 3
    BY <2>2, LenProperties
  <2>4. \A i \in 1 .. n : all[i] = headers[i]
    BY <1>1, <2>2
  <2>5. ASSUME NEW i \in 1 .. 3 PROVE all[n + i] = patch[i]
    <3>1. n + i \in 1 .. n + 3 /\ ~(n + i <= n) /\ (n + i) - n = i
      BY <1>1
    <3> QED
      BY <2>2, <3>1
  <2> QED
    BY <2>2, <2>3, <2>4, <2>5
<1> HIDE DEF n, all
<1>3. ASSUME NEW name \in SignatureNames
      PROVE  \E k \in DOMAIN all : Places(all, name) = {k}
  <2>1. PICK j \in 1 .. 3 : patch[j].name = name
    BY <1>1 DEF Names
  <2>2. \A i \in 1 .. 3 : patch[i].name = name => i = j
    <3>1. \A x \in SignatureNames : \E i \in 1 .. 3 : patch[i].name = x
      BY <1>1 DEF Names
    <3>2. /\ \E i \in 1 .. 3 : patch[i].name = "signature-input"
          /\ \E i \in 1 .. 3 : patch[i].name = "signature"
          /\ \E i \in 1 .. 3 : patch[i].name = "signature-agent"
      BY <3>1 DEF SignatureNames
    <3> DEFINE a == patch[1].name
               b == patch[2].name
               c == patch[3].name
    <3>3. "signature-input" \in {a, b, c} /\ "signature" \in {a, b, c} /\ "signature-agent" \in {a, b, c}
      BY <3>2
    <3> HIDE DEF a, b, c
    <3>4. a # b /\ b # c /\ a # c
      BY <3>3
    <3> QED
      BY <2>1, <3>4 DEF a, b, c
  <2>3. n + j \in DOMAIN all /\ all[n + j].name = name
    BY <1>1, <1>2, <2>1
  <2>4. \A i \in DOMAIN all : all[i].name = name => i = n + j
    <3> SUFFICES ASSUME NEW i \in DOMAIN all, all[i].name = name PROVE i = n + j
      OBVIOUS
    <3>1. i \notin 1 .. n
      BY <1>1, <1>2 DEF Unsigned
    <3>2. i - n \in 1 .. 3 /\ i = n + (i - n)
      BY <1>1, <1>2, <3>1
    <3>3. patch[i - n].name = name
      BY <1>2, <3>2
    <3> QED
      BY <2>2, <3>2, <3>3
  <2>5. Places(all, name) = {n + j}
    BY <2>3, <2>4 DEF Places
  <2> QED
    BY <2>3, <2>5
<1>4. IsRow(all)
  BY <1>2, SequenceIsRow
<1> QED
  BY <1>3, <1>4 DEF Added, all

\* What a signature consists of.
LEMMA SignedFacts ==
  ASSUME NEW owned, NEW options
  PROVE  /\ \A components, parameters : IsRow(SignComponents(owned, options, components, parameters).headers)
         /\ \A clock, nonce :
              LET signed == Sign(owned, options, clock, nonce)
              IN /\ IsRow(signed.headers)
                 /\ signed.reason = None =>
                      /\ \A i \in DOMAIN owned.headers : owned.headers[i].name \notin SignatureNames
                      /\ Len(signed.headers) = 3 /\ Names(signed.headers) = SignatureNames
<1>1. IsRow(<<>>)
  <2>1. <<>> \in Seq({})
    OBVIOUS
  <2> QED
    BY <2>1, SequenceIsRow
<1>2. ASSUME NEW x, NEW y, NEW z
      PROVE  LET patch == <<Header("signature-input", x), Header("signature", y), Header("signature-agent", z)>>
             IN IsRow(patch) /\ Len(patch) = 3 /\ Names(patch) = SignatureNames
  <2> DEFINE patch == <<Header("signature-input", x), Header("signature", y), Header("signature-agent", z)>>
  <2>1. patch \in Seq({patch[1], patch[2], patch[3]}) /\ Len(patch) = 3 /\ DOMAIN patch = 1 .. 3
    OBVIOUS
  <2>2. IsRow(patch)
    BY <2>1, SequenceIsRow
  <2>3. patch[1].name = "signature-input" /\ patch[2].name = "signature" /\ patch[3].name = "signature-agent"
    BY DEF Header
  <2> HIDE DEF patch
  <2>4. Names(patch) = {patch[1].name, patch[2].name, patch[3].name}
    BY <2>1 DEF Names
  <2>5. Names(patch) = SignatureNames
    BY <2>3, <2>4 DEF SignatureNames
  <2> QED
    BY <2>1, <2>2, <2>5 DEF patch
<1> DEFINE Sound(signed) ==
             /\ IsRow(signed.headers)
             /\ signed.reason = None => Len(signed.headers) = 3 /\ Names(signed.headers) = SignatureNames
<1>3. ASSUME NEW input, NEW agent, NEW base PROVE Sound(SignedHeaders(options, input, agent, base))
  <2>1. CASE base.reason # None
    <3>1. SigningFailure(base.reason) # None
      BY <2>1 DEF SigningFailure, None
    <3> QED
      BY <1>1, <2>1, <3>1 DEF SignedHeaders
  <2>2. CASE base.reason = None
    <3> DEFINE x == Serialize(InputField(input))
               y == Serialize(SignatureField(options.label, SignedBytes(options.key, base)))
               patch == <<Header("signature-input", x), Header("signature", y), Header("signature-agent", agent)>>
    <3>1. SignedHeaders(options, input, agent, base) = [reason |-> None, headers |-> patch]
      BY <2>2 DEF SignedHeaders
    <3> HIDE DEF x, y
    <3>2. IsRow(patch) /\ Len(patch) = 3 /\ Names(patch) = SignatureNames
      BY <1>2
    <3> HIDE DEF patch
    <3> QED
      BY <3>1, <3>2
  <2> QED
    BY <2>1, <2>2
<1>4. \A components, parameters : Sound(SignComponents(owned, options, components, parameters))
  <2> HIDE DEF Sound
  <2> QED
    BY <1>3 DEF SignComponents
<1>5. ASSUME NEW clock, NEW nonce
      PROVE  LET signed == Sign(owned, options, clock, nonce)
             IN /\ Sound(signed)
                /\ signed.reason = None => \A i \in DOMAIN owned.headers : owned.headers[i].name \notin SignatureNames
  <2> DEFINE signed == Sign(owned, options, clock, nonce)
             created == clock \div 1000
             fails(reason) == [reason |-> reason, headers |-> <<>>]
             known == \E i \in DOMAIN owned.headers : owned.headers[i].name \in SignatureNames
             late == clock < 0 \/ created + options.lifetime > MaxInteger
             made == SignComponents(owned, options, SignedComponents(options),
                                    SigningParameters(options, created, nonce))
  <2>1. signed = IF known THEN fails("existing-signature-headers")
                 ELSE IF late THEN fails("clock-unavailable")
                 ELSE IF nonce \in BadNonces THEN fails("nonce-generation-failed")
                 ELSE made
    BY DEF Sign
  <2>2. Sound(made)
    BY <1>4
  <2> HIDE DEF made, signed, late
  <2>3. \A reason : reason # None => Sound(fails(reason)) /\ fails(reason).reason # None
    BY <1>1
  <2>4. /\ "existing-signature-headers" # None /\ "clock-unavailable" # None
        /\ "nonce-generation-failed" # None
    BY DEF None
  <2> HIDE DEF fails, Sound
  <2>5. known => Sound(signed) /\ signed.reason # None
    BY <2>1, <2>3, <2>4
  <2>6. ~known => Sound(signed)
    BY <2>1, <2>2, <2>3, <2>4
  <2> QED
    BY <2>5, <2>6 DEF signed
<1> QED
  BY <1>4, <1>5

\* The invariant, action by action.
LEMMA Invariant == Spec => []SInv
<1>1. Init => SInv
  <2> SUFFICES ASSUME Init PROVE SInv
    OBVIOUS
  <2>1. IsRow(answer.headers)
    <3>1. <<>> \in Seq({})
      OBVIOUS
    <3> QED
      BY <3>1, SequenceIsRow DEF Init, NoAnswer
  <2>2. phase \in {"called", "ended"} /\ wire = <<>> /\ request = call.source /\ call \in Calls
    BY DEF Init
  <2>3. call.api = "direct" => ~aborted
    BY DEF Init
  <2> QED
    BY <2>1, <2>2, <2>3 DEF SInv
<1>2. SInv /\ [Next]_vars => SInv'
  <2> SUFFICES ASSUME SInv, [Next]_vars PROVE SInv'
    OBVIOUS
  <2>1. CASE UNCHANGED vars
    BY <2>1 DEF SInv, vars, callVars, pathVars, Unsent
  <2>2. ASSUME Fetch PROVE SInv'
    <3>1. phase = "called" /\ UNCHANGED <<call, wire, aborted>>
      BY <2>2 DEF Fetch, callVars
    <3>2. CASE CallFailure # None
      BY <2>2, <3>1, <3>2 DEF Fetch, Ends, SInv, Unsent
    <3>3. CASE CallFailure = None
      <4>1. call.source.headers = request.headers /\ IsRow(call.source.headers)
            /\ DOMAIN call.source = {"method", "target", "raw", "version", "headers"}
        BY <3>1, SignedFetchAssumption DEF SInv
      <4>2. request' = [call.source EXCEPT !.headers = FetchHeaders(@)]
        BY <2>2, <3>3 DEF Fetch
      <4>3. /\ request'.headers = FetchHeaders(call.source.headers) /\ DOMAIN request' = DOMAIN call.source
            /\ request'.method = call.source.method /\ request'.target = call.source.target
        BY <4>1, <4>2
      <4>4. Names(call.source.headers) \cap SignatureNames = {}
        BY <3>3 DEF CallFailure, None
      <4>5. Unsigned(request'.headers)
        BY <4>1, <4>3, <4>4, FetchHeadersFacts DEF Unsigned
      <4>6. phase' \in {"signing", "signed"}
        BY <2>2, <3>3 DEF Fetch
      <4>7. IsRow(answer'.headers)
        <5>1. UNCHANGED answer \/ \E clock, nonce : answer' = Sign(request', call.options, clock, nonce)
          BY <2>2, <3>3 DEF Fetch
        <5>2. \A owned, options, clock, nonce : IsRow(Sign(owned, options, clock, nonce).headers)
          BY SignedFacts
        <5> QED
          BY <5>1, <5>2 DEF SInv
      <4> QED
        BY <3>1, <4>3, <4>5, <4>6, <4>7 DEF SInv, Unsent
    <3> QED
      BY <3>2, <3>3
  <2>3. ASSUME SignerAnswers PROVE SInv'
    <3>1. /\ phase = "signing" /\ phase' = "signed"
          /\ UNCHANGED <<call, request, aborted, wire>>
      BY <2>3 DEF SignerAnswers, callVars
    <3>2. IsRow(answer'.headers)
      <4>1. \/ \E components, parameters :
                 answer' = SignComponents(request, call.options, components, parameters)
            \/ \E patch \in BadPatches : answer' = [reason |-> None, headers |-> patch]
            \/ answer' = [reason |-> "threw", headers |-> <<>>]
        BY <2>3 DEF SignerAnswers
      <4>2. \A owned, options, components, parameters :
              IsRow(SignComponents(owned, options, components, parameters).headers)
        BY SignedFacts
      <4>3. IsRow(<<>>)
        <5>1. <<>> \in Seq({})
          OBVIOUS
        <5> QED
          BY <5>1, SequenceIsRow
      <4> QED
        BY <4>1, <4>2, <4>3, SignedFetchAssumption
    <3> QED
      BY <3>1, <3>2 DEF SInv, Unsent
  <2>4. ASSUME Abort PROVE SInv'
    BY <2>4 DEF Abort, callVars, pathVars, SInv, Unsent
  <2>5. ASSUME Continue PROVE SInv'
    <3>1. phase' \in {"sent", "ended"} /\ UNCHANGED <<call, request, answer, aborted>>
      BY <2>5 DEF Continue, Sends, StopsWith, Ends, callVars
    <3> QED
      BY <3>1 DEF SInv, Unsent
  <2>6. ASSUME SignDirectly PROVE SInv'
    <3>1. phase' \in {"sent", "ended"} /\ UNCHANGED <<call, request, aborted>>
      BY <2>6 DEF SignDirectly, Sends, StopsWith, Ends, callVars
    <3>2. \E clock, nonce : answer' = Sign(request, call.options, clock, nonce)
      BY <2>6 DEF SignDirectly
    <3>3. IsRow(answer'.headers)
      BY <3>2, SignedFacts
    <3> QED
      BY <3>1, <3>3 DEF SInv, Unsent
  <2>7. ASSUME TransportSettles PROVE SInv'
    <3>1. phase' = "ended" /\ UNCHANGED <<call, request, answer, aborted>>
      BY <2>7 DEF TransportSettles, Ends, callVars
    <3> QED
      BY <3>1 DEF SInv, Unsent
  <2>8. ASSUME Alter \/ Arrive PROVE SInv'
    <3>1. UNCHANGED <<call, phase, request, answer, aborted, wire>>
      BY <2>8 DEF Alter, Arrive, callVars
    <3> QED
      BY <3>1 DEF SInv, Unsent
  <2> QED
    BY <2>1, <2>2, <2>3, <2>4, <2>5, <2>6, <2>7, <2>8 DEF Next
<1> QED
  BY <1>1, <1>2, PTL DEF Spec

\* What a step that sends does.
Sending(message) ==
  /\ wire = <<>> /\ wire' = Append(wire, message) /\ ~aborted
  /\ message.method = call.source.method /\ message.target = call.source.target
  /\ Added(message.headers)

\* A request that is sent has the headers of the signature behind its own.
LEMMA SentFacts ==
  ASSUME SInv, NEW patch, IsRow(patch), Len(patch) = 3, Names(patch) = SignatureNames,
         Unsigned(request.headers), phase \in Unsent, ~aborted,
         Sends([request EXCEPT !.headers = @ \o patch])
  PROVE  \E message : Sending(message)
<1> DEFINE message == [request EXCEPT !.headers = @ \o patch]
<1>1. /\ wire = <<>> /\ DOMAIN request = DOMAIN call.source /\ call \in Calls
      /\ request.method = call.source.method /\ request.target = call.source.target
  BY DEF SInv
<1>2. DOMAIN request = {"method", "target", "raw", "version", "headers"}
  BY <1>1, SignedFetchAssumption
<1>3. /\ message.method = request.method /\ message.target = request.target
      /\ message.headers = request.headers \o patch
  BY <1>2
<1>4. Added(message.headers)
  BY <1>3, AddedFacts
<1>5. wire' = Append(wire, message)
  BY DEF Sends
<1> HIDE DEF message
<1> QED
  BY <1>1, <1>3, <1>4, <1>5 DEF Sending

\* Only these two actions send.
LEMMA Sender ==
  ASSUME SInv, [Next]_vars, wire' # wire
  PROVE  \E message : Sending(message)
<1>1. Continue \/ SignDirectly
  <2>1. ~UNCHANGED vars
    BY DEF vars
  <2>2. ~Fetch /\ ~SignerAnswers /\ ~Abort /\ ~TransportSettles /\ ~Alter /\ ~Arrive
    BY DEF Fetch, SignerAnswers, Abort, TransportSettles, Alter, Arrive, pathVars
  <2> QED
    BY <2>1, <2>2 DEF Next
<1>2. ASSUME Continue PROVE \E message : Sending(message)
  <2>1. /\ phase = "signed" /\ ~aborted /\ ValidPatch(answer.headers)
        /\ Sends([request EXCEPT !.headers = @ \o answer.headers])
    BY <1>2 DEF Continue, StopsWith
  <2>2. IsRow(answer.headers) /\ Unsigned(request.headers)
    BY <2>1 DEF SInv
  <2> QED
    BY <2>1, <2>2, SentFacts DEF ValidPatch, Unsent
<1>3. ASSUME SignDirectly PROVE \E message : Sending(message)
  <2>1. PICK clock, nonce : answer' = Sign(request, call.options, clock, nonce)
    BY <1>3 DEF SignDirectly
  <2>2. /\ phase = "called" /\ call.api = "direct" /\ answer'.reason = None
        /\ Sends([request EXCEPT !.headers = @ \o answer'.headers])
    BY <1>3 DEF SignDirectly, StopsWith
  <2>3. ~aborted /\ call \in Calls /\ request = call.source
    BY <2>2 DEF SInv
  <2>4. /\ IsRow(answer'.headers) /\ Len(answer'.headers) = 3 /\ Names(answer'.headers) = SignatureNames
        /\ \A i \in DOMAIN request.headers : request.headers[i].name \notin SignatureNames
    BY <2>1, <2>2, SignedFacts
  <2>5. Unsigned(request.headers)
    BY <2>3, <2>4, SignedFetchAssumption DEF Unsigned
  <2> QED
    BY <2>2, <2>3, <2>4, <2>5, SentFacts DEF Unsent
<1> QED
  BY <1>1, <1>2, <1>3

\* One request is sent, if at all, and none after an abort: the one that was
\* signed, with each of the three headers once, whatever the signer returns
\* (packages/fetch/src/index.ts:149-180).
THEOREM SendsOnceHolds == Spec => SendsOnce
<1>1. SInv /\ [Next]_vars =>
        [wire' # wire =>
           /\ wire = <<>> /\ Len(wire') = 1 /\ ~aborted
           /\ wire'[1].method = call.source.method /\ wire'[1].target = call.source.target
           /\ \A name \in SignatureNames : Cardinality(Places(wire'[1].headers, name)) = 1]_vars
  <2> SUFFICES ASSUME SInv, [Next]_vars, wire' # wire
               PROVE  /\ wire = <<>> /\ Len(wire') = 1 /\ ~aborted
                      /\ wire'[1].method = call.source.method /\ wire'[1].target = call.source.target
                      /\ \A name \in SignatureNames : Cardinality(Places(wire'[1].headers, name)) = 1
    OBVIOUS
  <2>1. PICK message : Sending(message)
    BY Sender
  <2>2. Len(wire') = 1 /\ wire'[1] = message
    BY <2>1 DEF Sending
  <2>3. \A name \in SignatureNames : Cardinality(Places(message.headers, name)) = 1
    BY <2>1, FS_Singleton DEF Sending, Added
  <2> QED
    BY <2>1, <2>2, <2>3 DEF Sending
<1> QED
  BY <1>1, Invariant, PTL DEF Spec, SendsOnce

==============================================================================
