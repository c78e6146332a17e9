---------------------------- MODULE DirectoryFetch ----------------------------
(***************************************************************************)
(* One fetch of a directory: packages/core/src/discovery/fetch-directory.ts *)
(* with dns-resolution.ts, pinned-tls.ts, proxy-tls.ts and                  *)
(* directory-response.ts.  It is the worker that FetchScheduler starts.     *)
(*                                                                         *)
(* The three phases are records of their own, for each settles by itself:   *)
(* by its events, its timers, or the signal that fetchDirectoryOnce aborts. *)
(* `raced` is the first of a phase's promise and `stopped` to settle, which *)
(* is what its Promise.race yields.  The network may do anything.           *)
(***************************************************************************)
EXTENDS AddressPolicy

CONSTANTS
  Inputs,         \* of snapshotDirectoryFetchOptions()
  Origin,         \* whose directory is fetched
  Answers,        \* sequences of texts, for either family
  Peers,          \* texts of the addresses that sockets report
  MaxAddresses, MaxBody, MaxTotal, MaxPort,
  DnsLimit, ConnectLimit, HeaderLimit, IdleLimit,
  Never, None,
  MaxTime         \* bound: milliseconds

Addresses == UNION {{answer[i] : i \in DOMAIN answer} : answer \in Answers}

\* Why a fetch may be refused, and how its three phases may settle.
Refusals == {"invalid-agent-binding", "invalid-resource-limits", "invalid-key-configuration",
             "origin-denied", "aborted"}
DnsResults ==
  [kind : {"failed"}, reason : {"dns-limit", "address-denied", "dns-failure", "dns-timeout"}]
    \cup [kind : {"addresses"}, addresses : Seq(Addresses)]
ConnResults == {"aborted", "address-denied", "peer-mismatch", "connection-failed", "tls-failed",
                "connect-timeout", "connected"}
ReadResults == {"aborted", "status-rejected", "encoding-rejected", "media-type-rejected",
                "response-limit", "response-failed", "response-timeout", "response"}

ASSUME DirectoryFetchAssumption ==
  /\ {MaxAddresses, MaxTotal, MaxPort, DnsLimit, ConnectLimit, HeaderLimit, IdleLimit} \subseteq Nat \ {0}
  /\ MaxBody \in Nat /\ MaxTime \in Nat
  /\ Answers \subseteq Seq(Addresses)
  /\ None \notin Refusals \cup DnsResults \cup ConnResults \cup ReadResults \cup {"stopped", "phase", "total-timeout"}
  /\ None \notin Answers \cup {<<None>>} \cup Addresses \cup Peers
  /\ Never \notin Int

-----------------------------------------------------------------------------
(* The configuration.  `plain` is an object of known names without accessors. *)

InvalidOptions(code) == [kind |-> "invalid", code |-> code]

ValidProxy(proxy) ==
  /\ proxy.plain /\ proxy.protocol = "https:" /\ proxy.hostname = "valid"
  /\ proxy.address.family # 0 /\ proxy.port \in 1..MaxPort
  /\ proxy.ca # "empty"

SnapshotOptions(given) ==
  LET mode == IF given.mode = None THEN "allowlist" ELSE given.mode
      total == IF given.total = None THEN MaxTotal ELSE given.total
  IN IF ~given.plain \/ mode \notin {"allowlist", "open"} THEN InvalidOptions("invalid-agent-binding")
     ELSE IF total \notin 1..MaxTotal THEN InvalidOptions("invalid-resource-limits")
     ELSE IF \/ ~ValidPolicy(given.policy)
             \/ \E i \in DOMAIN given.allowed : given.allowed[i] = "invalid"
          THEN InvalidOptions("invalid-agent-binding")
     ELSE IF given.ca = "empty" THEN InvalidOptions("invalid-key-configuration")
     ELSE IF given.proxy # None /\ ~ValidProxy(given.proxy) THEN InvalidOptions("invalid-agent-binding")
     ELSE [kind |-> "options", mode |-> mode, total |-> total, policy |-> given.policy,
           allowed |-> given.allowed, proxy |-> given.proxy]

VARIABLES
  now, input,
  options,    \* the snapshot of `input`
  phase,      \* of fetchDirectoryOnce: which promise it awaits
  started, timer,
  stop,       \* why the controller was aborted by stop(), or None
  cancelled,  \* the caller's signal
  raced,
  dns,        \* [ipv4, ipv6, timer, result]
  conn,       \* [address, peer, stage, timer, result]: the connector
  raw, tls,   \* its sockets: "none", "opening", "open", "closed" or "orphan"
  reader,     \* [stage, started, budget, size, deadline, headers, idle, result]
  result      \* of the fetch

fetchVars == <<phase, started, timer, stop, raced, result>>
vars == <<now, input, options, cancelled, fetchVars, dns, conn, raw, tls, reader>>

NoDns == [ipv4 |-> None, ipv6 |-> None, timer |-> Never, result |-> None]
NoConn == [address |-> None, peer |-> None, stage |-> "none", timer |-> Never, result |-> None]
NoReader == [stage |-> "none", started |-> 0, budget |-> 0, size |-> 0,
             deadline |-> Never, headers |-> Never, idle |-> Never, result |-> None]

Init ==
  /\ now = 0 /\ input \in Inputs /\ options = None /\ cancelled = FALSE
  /\ phase = "idle" /\ started = 0 /\ timer = Never /\ stop = None
  /\ raced = None /\ result = None
  /\ dns = NoDns /\ conn = NoConn /\ raw = "none" /\ tls = "none" /\ reader = NoReader

Least(a, b) == IF a <= b THEN a ELSE b
Due(t) == t # Never /\ now >= t
Destroyed(socket) == IF socket = "none" THEN "none" ELSE "closed"

-----------------------------------------------------------------------------
(* How a phase ends.                                                         *)

\* A proxy's tunnel that was on its way when its connector failed may still
\* arrive; a connection that is being dialled is destroyed.
Discarded(socket) ==
  IF options.proxy # None /\ socket \in {"opening", "orphan"} THEN "orphan" ELSE Destroyed(socket)

\* fail() of the connectors and of the reader, unless they have settled.
ConnFails(reason) ==
  IF conn.stage \in {"transport", "handshake"}
  THEN [conn EXCEPT !.stage = "settled", !.timer = Never, !.result = reason] ELSE conn
ReaderFails(reason) ==
  IF reader.stage \in {"headers", "body"}
  THEN [reader EXCEPT !.stage = "settled", !.deadline = Never, !.headers = Never,
                      !.idle = Never, !.result = reason] ELSE reader

\* controller.abort(): the listeners run at once.
AbortPhases ==
  /\ conn' = ConnFails("aborted") /\ reader' = ReaderFails("aborted")
  /\ IF conn' # conn \/ reader' # reader
     THEN raw' = Discarded(raw) /\ tls' = Destroyed(tls) ELSE UNCHANGED <<raw, tls>>

MutDestroySocket == UNCHANGED <<raw, tls>>
\* `finally`: the timer is cleared, the controller aborted and the socket, if it
\* got one, destroyed.
DestroySocket == raw' = Discarded(raw) /\ tls' = Destroyed(tls)
Finish(outcome) ==
  /\ phase' = "done" /\ result' = outcome /\ timer' = Never /\ raced' = None
  /\ conn' = ConnFails("aborted") /\ reader' = ReaderFails("aborted")
  /\ DestroySocket
  /\ UNCHANGED <<now, input, options, cancelled, started, stop, dns>>

\* remaining(): the reason to give up, if there is one.
Expired == stop = "total-timeout" \/ now - started >= options.total
GivenUp == IF cancelled THEN "aborted" ELSE IF Expired THEN "total-timeout" ELSE None
Remaining == options.total - (now - started)

-----------------------------------------------------------------------------
(* The fetch.                                                                *)

\* Why a fetch is refused before anything is done for it.
Refusal ==
  LET snapshot == SnapshotOptions(input)
  IN IF snapshot.kind = "invalid" THEN snapshot.code
     ELSE IF snapshot.mode = "allowlist" /\ ~\E i \in DOMAIN snapshot.allowed : snapshot.allowed[i] = Origin
          THEN "origin-denied"
     ELSE IF cancelled THEN "aborted" ELSE None

Start ==
  /\ phase = "idle" /\ phase' = IF Refusal = None THEN "resolving" ELSE "done"
  /\ options' = SnapshotOptions(input)
  /\ IF Refusal = None
     THEN /\ started' = now /\ timer' = now + options'.total
          /\ dns' = [NoDns EXCEPT !.timer = now + Least(DnsLimit, options'.total)]
          /\ UNCHANGED result
     ELSE result' = Refusal /\ UNCHANGED <<started, timer, dns>>
  /\ UNCHANGED <<now, input, cancelled, stop, raced, conn, raw, tls, reader>>

MutStop(reason) ==
  /\ stop' = IF stop = None THEN reason ELSE stop
  /\ IF stop = None THEN AbortPhases ELSE UNCHANGED <<conn, reader, raw, tls>>
  /\ UNCHANGED <<now, input, options, phase, started, result, dns, raced>>
\* stop(): the first reason counts; a phase that is being awaited loses its race.
Stop(reason) ==
  /\ stop' = IF stop = None THEN reason ELSE stop
  /\ raced' = IF raced = None THEN "stopped" ELSE raced
  /\ IF stop = None THEN AbortPhases ELSE UNCHANGED <<conn, reader, raw, tls>>
  /\ UNCHANGED <<now, input, options, phase, started, result, dns>>

Cancel ==
  /\ ~cancelled /\ phase # "done"
  /\ cancelled' = TRUE
  /\ IF phase = "idle" THEN UNCHANGED <<now, input, options, fetchVars, dns, conn, raw, tls, reader>>
     ELSE Stop("aborted") /\ UNCHANGED timer
TotalTimer ==
  /\ Due(timer) /\ timer' = Never
  /\ Stop("total-timeout") /\ UNCHANGED cancelled

\* A phase's promise settles.
Settles == raced' = IF raced = None THEN "phase" ELSE raced

-----------------------------------------------------------------------------
(* Name resolution.                                                          *)

Family(f) == IF f = 4 THEN "ipv4" ELSE "ipv6"
DnsFailed(reason) == [kind |-> "failed", reason |-> reason]

MutValidateAddresses(ipv4, ipv6) ==
  LET all == SelectSeq(ipv4 \o ipv6, LAMBDA text : Allows(options.policy, text))
  IN IF Len(all) > MaxAddresses THEN DnsFailed("dns-limit")
     ELSE IF all = <<>> THEN DnsFailed("dns-failure")
     ELSE [kind |-> "addresses", addresses |-> all]
\* validateDirectoryAddresses(): every address of both families is looked at
\* before any of them may be used.
ValidateAddresses(ipv4, ipv6) ==
  LET all == ipv4 \o ipv6
  IN IF Len(all) > MaxAddresses THEN DnsFailed("dns-limit")
     ELSE IF \E i \in DOMAIN all : \/ ~Allows(options.policy, all[i])
                                   \/ all[i].family # IF i <= Len(ipv4) THEN 4 ELSE 6
          THEN DnsFailed("address-denied")
     ELSE IF all = <<>> THEN DnsFailed("dns-failure")
     ELSE [kind |-> "addresses", addresses |-> all]

\* The first failure, or both answers, or the timer, ends it; then the resolver
\* is cancelled and the timer cleared, and what comes later is ignored.
DnsEnds(outcome) == [dns EXCEPT !.result = outcome, !.timer = Never]

DnsAnswers(f) ==
  /\ dns.timer # Never /\ dns[Family(f)] = None
  /\ \E answer \in Answers \cup {<<None>>} :
       LET known == [dns EXCEPT ![Family(f)] = answer]
           both == known.ipv4 # None /\ known.ipv6 # None
           outcome == IF answer = <<None>> THEN DnsFailed("dns-failure")
                      ELSE ValidateAddresses(known.ipv4, known.ipv6)
       IN IF answer = <<None>> \/ both
          THEN /\ dns' = [known EXCEPT !.result = outcome, !.timer = Never]
               /\ IF phase = "resolving" THEN Settles ELSE UNCHANGED raced
          ELSE dns' = known /\ UNCHANGED raced
  /\ UNCHANGED <<now, input, options, cancelled, phase, started, timer, stop, result, conn, raw, tls, reader>>

DnsTimer ==
  /\ Due(dns.timer)
  /\ dns' = DnsEnds(DnsFailed("dns-timeout"))
  /\ IF phase = "resolving" THEN Settles ELSE UNCHANGED raced
  /\ UNCHANGED <<now, input, options, cancelled, phase, started, timer, stop, result, conn, raw, tls, reader>>

\* The one address that was selected is dialled, if the connector too admits it.
Dial(address) ==
  /\ phase' = "connecting"
  /\ IF Allows(options.policy, address)
     THEN /\ conn' = [NoConn EXCEPT !.address = address, !.stage = "transport",
                                    !.timer = now + Least(ConnectLimit, Remaining)]
          /\ raw' = "opening" /\ raced' = None
     ELSE /\ conn' = [NoConn EXCEPT !.stage = "settled", !.result = "address-denied"]
          /\ raced' = "phase" /\ UNCHANGED raw
  /\ UNCHANGED <<now, input, options, cancelled, started, timer, stop, result, dns, tls, reader>>

AfterResolve ==
  /\ phase = "resolving" /\ raced # None
  /\ IF raced = "stopped" THEN Finish(stop)
     ELSE IF dns.result.kind = "failed" THEN Finish(dns.result.reason)
     ELSE IF GivenUp # None THEN Finish(GivenUp)
     ELSE Dial(dns.result.addresses[1])

-----------------------------------------------------------------------------
(* The connection: direct, or through a proxy's tunnel.                      *)

ConnUnchanged == UNCHANGED <<now, input, options, cancelled, phase, started, timer, stop, result, dns, reader>>
ConnEnds(reason) ==
  /\ conn' = ConnFails(reason) /\ raw' = Discarded(raw) /\ tls' = Destroyed(tls) /\ Settles

Handshake(peer) ==
  /\ conn' = [conn EXCEPT !.stage = "handshake", !.peer = peer]
  /\ raw' = "open" /\ tls' = "opening" /\ UNCHANGED raced

\* The host at the other end, as the system reports it, must be the one dialled.
\* A proxy must answer 200, send nothing before TLS and have a valid certificate.
TransportOpens ==
  /\ conn.stage = "transport"
  /\ \/ /\ options.proxy = None
        /\ \E peer \in Peers :
             IF MatchesPeer(options.policy, conn.address, peer) THEN Handshake(peer)
             ELSE ConnEnds("peer-mismatch")
     \/ /\ options.proxy # None
        /\ Handshake(None) \/ ConnEnds("connection-failed") \/ ConnEnds("tls-failed")
  /\ ConnUnchanged

\* secureConnect: the certificate and the protocol, and the peer again unless
\* there is a proxy; a socket that was closed meanwhile has no peer.
Secured ==
  /\ conn.stage = "handshake"
  /\ \/ ConnEnds("tls-failed")
     \/ options.proxy = None /\ ConnEnds("peer-mismatch")
     \/ /\ options.proxy = None => MatchesPeer(options.policy, conn.address, conn.peer)
        /\ conn' = [conn EXCEPT !.stage = "settled", !.timer = Never, !.result = "connected"]
        /\ tls' = "open" /\ Settles /\ UNCHANGED raw
  /\ ConnUnchanged

\* The socket is closed before the reader has it.
PeerCloses ==
  /\ phase = "connecting" /\ tls = "open"
  /\ raw' = "closed" /\ tls' = "closed"
  /\ ConnUnchanged /\ UNCHANGED <<conn, raced>>

\* An error, or the close of a socket, before it was handed over.
ConnectionFails ==
  /\ conn.stage \in {"transport", "handshake"}
  /\ ConnEnds(IF conn.stage = "transport" THEN "connection-failed" ELSE "tls-failed")
  /\ ConnUnchanged
ConnectTimer ==
  /\ Due(conn.timer)
  /\ ConnEnds("connect-timeout")
  /\ ConnUnchanged

\* The proxy opens the tunnel after the connector has failed.
LateTunnel ==
  /\ raw = "orphan"
  /\ raw' = "closed"
  /\ UNCHANGED <<now, input, options, cancelled, fetchVars, dns, conn, tls, reader>>

AfterConnect ==
  /\ phase = "connecting" /\ raced # None
  /\ IF raced = "stopped" THEN Finish(stop)
     ELSE IF conn.result # "connected" THEN Finish(conn.result)
     ELSE IF GivenUp # None THEN Finish(GivenUp)
     ELSE IF tls = "closed" THEN Finish("response-failed")
     ELSE /\ phase' = "reading" /\ raced' = None
          /\ reader' = [NoReader EXCEPT !.stage = "headers", !.started = now, !.budget = Remaining,
                                        !.deadline = now + Remaining,
                                        !.headers = now + Least(HeaderLimit, Remaining)]
          /\ UNCHANGED <<now, input, options, cancelled, started, timer, stop, result, dns, conn, raw, tls>>

-----------------------------------------------------------------------------
(* The response.                                                             *)

ReadUnchanged == UNCHANGED <<now, input, options, cancelled, phase, started, timer, stop, result, dns, conn>>
ReadEnds(outcome) ==
  /\ reader' = ReaderFails(outcome) /\ raw' = Destroyed(raw) /\ tls' = Destroyed(tls) /\ Settles

\* Status, content encoding, media type and declared length.
HeadersArrive ==
  /\ reader.stage = "headers"
  /\ \/ reader' = [reader EXCEPT !.stage = "body", !.headers = Never, !.idle = now + IdleLimit]
        /\ UNCHANGED <<raw, tls, raced>>
     \/ \E reason \in {"status-rejected", "encoding-rejected", "media-type-rejected", "response-limit"} :
          ReadEnds(reason)
  /\ ReadUnchanged

DataArrives ==
  /\ reader.stage = "body"
  /\ IF reader.size + 1 > MaxBody THEN ReadEnds("response-limit")
     ELSE /\ reader' = [reader EXCEPT !.size = @ + 1, !.idle = now + IdleLimit]
          /\ UNCHANGED <<raw, tls, raced>>
  /\ ReadUnchanged

\* `end` comes also when the connection was cut: `complete` tells.
BodyEnds(complete) ==
  ReadEnds(IF ~complete THEN "response-failed"
           ELSE IF now - reader.started >= reader.budget THEN "response-timeout"
           ELSE "response")
ResponseEnds ==
  /\ reader.stage = "body"
  /\ \E complete \in BOOLEAN : BodyEnds(complete)
  /\ ReadUnchanged

ResponseFails ==
  /\ reader.stage \in {"headers", "body"}
  /\ ReadEnds("response-failed")
  /\ ReadUnchanged
ReadTimer ==
  /\ Due(reader.deadline) \/ Due(reader.headers) \/ Due(reader.idle)
  /\ ReadEnds("response-timeout")
  /\ ReadUnchanged

MutAfterRead ==
  /\ phase = "reading" /\ raced # None
  /\ Finish(IF raced = "stopped" THEN stop ELSE reader.result)
\* The last check of the time, for timers may run late.
AfterRead ==
  /\ phase = "reading" /\ raced # None
  /\ IF raced = "stopped" THEN Finish(stop)
     ELSE IF reader.result = "response" /\ GivenUp # None THEN Finish(GivenUp)
     ELSE Finish(reader.result)

-----------------------------------------------------------------------------

Tick == phase # "idle" /\ now < MaxTime /\ now' = now + 1
        /\ UNCHANGED <<input, options, cancelled, fetchVars, dns, conn, raw, tls, reader>>

Timers == TotalTimer \/ DnsTimer \/ ConnectTimer \/ ReadTimer
Continues == AfterResolve \/ AfterConnect \/ AfterRead
Network == \/ \E f \in {4, 6} : DnsAnswers(f)
           \/ TransportOpens \/ Secured \/ PeerCloses \/ ConnectionFails
           \/ HeadersArrive \/ DataArrives \/ ResponseEnds \/ ResponseFails

Next == Tick \/ Start \/ Cancel \/ Timers \/ Continues \/ Network \/ LateTunnel

Spec == Init /\ [][Next]_vars

\* Time passes, and the event loop runs the continuations and the total timer
\* that are ready.  Nothing else need happen: neither the network's events nor
\* the timers of the phases.
FairSpec == Spec /\ WF_vars(Tick) /\ WF_vars(Continues) /\ WF_vars(TotalTimer)

-----------------------------------------------------------------------------
(* Properties.  The references: the number a text denotes, digit by digit,   *)
(* and the interval of a prefix.                                             *)

Digit(text, k) ==
  LET tail == text.right \o DottedGroups(text.octets)
      first == GroupCount - Len(tail)
  IN IF k <= Len(text.left) THEN text.left[k] ELSE IF k > first THEN tail[k - first] ELSE 0
Denotes(text) ==
  IF text.family = 4 THEN MapThenSumSet(LAMBDA k : text.octets[k] * 2^(OctetBits * (4 - k)), 1..4)
  ELSE MapThenSumSet(LAMBDA k : Digit(text, k) * 2^(2 * OctetBits * (GroupCount - k)), 1..GroupCount)
\* What the program computes from a text is what the text denotes.
TextsDenote ==
  /\ \A k \in 0..Width(4) \cup 0..Width(6) : 2^k \in Nat \ {0}
  /\ \A text \in Addresses \cup Peers :
       text.family # 0 => Denotes(text) \in Nat /\ ParseAddress(text).value = Denotes(text)
Within(prefix, text) ==
  LET size == 2^(Width(prefix.family) - prefix.bits)
      lowest == (prefix.value \div size) * size
  IN text.family = prefix.family /\ Denotes(text) \in lowest..(lowest + size - 1)
Reachable(names, text) ==
  \/ /\ text.family = 6 => Within(Envelope, text)
     /\ text.family # 0 /\ \A prefix \in Excluded : ~Within(prefix, text)
  \/ \E i \in DOMAIN names : Within(Exceptions[names[i]], text)
SameHost(pinned, peer) ==
  Denotes(peer) = Denotes(pinned) + (IF pinned.family = peer.family THEN 0 ELSE MappedPrefix * 2^Width(4))

\* Only the first address of a complete answer is dialled, and only when all the
\* addresses of both families may be reached and the origin is admitted; TLS is
\* not begun with another host, nor a request made without it.
DialsOnlyAdmitted ==
  /\ conn.address # None =>
       LET all == dns.ipv4 \o dns.ipv6
       IN /\ options.mode = "open" \/ \E i \in DOMAIN input.allowed : input.allowed[i] = Origin
          /\ Len(all) <= MaxAddresses /\ conn.address = all[1]
          /\ \A i \in DOMAIN all : Reachable(input.policy, all[i])
  /\ tls # "none" =>
       input.proxy # None \/ (conn.peer.family # 0 /\ SameHost(conn.address, conn.peer))
  /\ reader.stage # "none" => conn.result = "connected"

\* A fetch that is over has destroyed its sockets and cleared its timers, all but
\* DNS's; and one that is stopped does so before its caller hears of it.
NothingLeaks ==
  /\ phase = "done" \/ raced = "stopped" => {raw, tls} \cap {"opening", "open"} = {}
  /\ phase = "done" => {timer, conn.timer, reader.deadline, reader.headers, reader.idle} = {Never}

\* A fetch yields one result, and a response only within its total time, for a
\* caller that has not cancelled it, and within the limit on its size.
ResponseInTime ==
  [][result' # result =>
       /\ result = None
       /\ result' = "response" => /\ ~cancelled /\ stop = None /\ now - started < options.total
                                  /\ reader.size <= MaxBody]_vars

\* A fetch that has begun ends by its total timer alone, when the resolver, the
\* peer and even the timers of the phases are silent.
FetchEnds == phase = "resolving" ~> phase = "done"

=============================================================================
