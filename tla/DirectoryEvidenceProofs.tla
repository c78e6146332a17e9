------------------------ MODULE DirectoryEvidenceProofs ------------------------
(***************************************************************************)
(* One fetch of a directory and what its response is evidence of.  The      *)
(* first half is about DirectoryFetch and speaks of any step of Next; the   *)
(* second adds the keys and the freshness of DirectoryEvidence, whose       *)
(* steps are steps of the fetch or leave it alone.                          *)
(***************************************************************************)
EXTENDS DirectoryEvidence, WellFoundedInduction, TLAPS

-----------------------------------------------------------------------------
(* The inductive invariant of the fetch.                                    *)

Timed == Int \cup {Never}
Connecting == {"transport", "handshake"}
Reading == {"headers", "body"}
Live == {"opening", "open"}

Typed ==
  /\ now \in Nat /\ started \in Nat /\ input \in Inputs /\ cancelled \in BOOLEAN
  /\ phase \in {"idle", "resolving", "connecting", "reading", "done"}
  /\ timer \in Timed
  /\ stop \in {None, "aborted", "total-timeout"} /\ raced \in {None, "stopped", "phase"}
  /\ dns \in [ipv4 : Answers \cup {None, <<None>>}, ipv6 : Answers \cup {None, <<None>>},
              timer : Timed, result : DnsResults \cup {None}]
  /\ conn \in [address : Addresses \cup {None}, peer : Peers \cup {None},
               stage : {"none", "settled"} \cup Connecting, timer : Timed,
               result : ConnResults \cup {None}]
  /\ raw \in {"none", "opening", "open", "closed", "orphan"}
  /\ tls \in {"none", "opening", "open", "closed"}
  /\ reader \in [stage : {"none", "settled"} \cup Reading, started : Nat, budget : Int, size : Nat,
                 deadline : Timed, headers : Timed, idle : Timed, result : ReadResults \cup {None}]

\* The snapshot that admits the origin.
Cleared ==
  /\ options = SnapshotOptions(input) /\ options.kind = "options"
  /\ options.total \in Int
  /\ options.policy = input.policy /\ options.proxy = input.proxy
  /\ options.mode = "open" \/ \E i \in DOMAIN input.allowed : input.allowed[i] = Origin

\* Which phase is awaited, and whether it has settled.
Awaited ==
  /\ phase = "idle" => timer = Never /\ stop = None /\ raced = None /\ dns = NoDns
  /\ phase \notin {"idle", "done"} \/ dns.timer # Never => Cleared
  /\ phase \in {"idle", "resolving"} =>
       conn = NoConn /\ reader = NoReader /\ raw = "none" /\ tls = "none"
  /\ phase = "connecting" => reader = NoReader /\ conn.stage # "none" /\ (raced = None => conn.stage \in Connecting)
  /\ phase = "reading" /\ raced = None => reader.stage \in Reading
  /\ conn.stage \in Connecting => phase = "connecting" /\ raced = None
  /\ reader.stage \in Reading => phase = "reading" /\ raced = None
  /\ phase = "done" => timer = Never /\ raced = None
  /\ phase # "done" => result = None
  /\ reader.stage # "none" => conn.stage = "settled" /\ conn.result = "connected"

Stopped ==
  /\ stop # None => raced # None \/ phase = "done"
  /\ raced = "stopped" => stop # None
  /\ stop = "aborted" => cancelled

Quiet ==
  /\ conn.stage \notin Connecting => conn.timer = Never
  /\ reader.stage \notin Reading =>
       reader.deadline = Never /\ reader.headers = Never /\ reader.idle = Never
  /\ phase = "done" \/ raced = "stopped" => raw \notin Live /\ tls \notin Live

Settled ==
  /\ phase = "resolving" /\ raced = "phase" => dns.result # None
  /\ phase = "connecting" /\ raced = "phase" => conn.result # None
  /\ phase = "reading" /\ raced = "phase" => reader.result # None
  /\ dns.timer # Never => dns.result = None /\ <<None>> \notin {dns.ipv4, dns.ipv6}
  /\ reader.size <= MaxBody

\* What is known of the addresses once they are resolved, and of the one dialled.
Resolved ==
  dns.result # None /\ dns.result.kind = "addresses" =>
    LET all == dns.result.addresses
    IN /\ all = dns.ipv4 \o dns.ipv6 /\ Len(all) <= MaxAddresses
       /\ all # <<>> /\ \A i \in DOMAIN all : Allows(input.policy, all[i])
Dialled ==
  /\ conn.address # None =>
       /\ Cleared
       /\ dns.result # None /\ dns.result.kind = "addresses" /\ conn.address = dns.result.addresses[1]
  /\ conn.stage \in Connecting => conn.address # None
  /\ conn.stage = "handshake" => tls # "none"
  /\ tls # "none" =>
       /\ conn.address # None
       /\ input.proxy # None \/ MatchesPeer(input.policy, conn.address, conn.peer)
       /\ input.proxy = None => conn.peer \in Peers

FetchInv == Typed /\ Awaited /\ Stopped /\ Quiet /\ Settled /\ Resolved /\ Dialled


-----------------------------------------------------------------------------
(* How phases end.                                                          *)

\* None is none of the names that the states hold.
LEMMA NoneLemma ==
  /\ None \notin {"stopped", "phase", "aborted", "total-timeout"}
  /\ None \notin Refusals /\ None \notin DnsResults /\ None \notin ConnResults /\ None \notin ReadResults
  /\ None # <<None>> /\ None \notin Answers \cup Addresses \cup Peers
  /\ Never \notin Int
  BY DirectoryFetchAssumption DEF ConnResults

\* A snapshot is refused, or is the configuration that was given.
LEMMA SnapshotLemma ==
  ASSUME NEW given
  PROVE  LET s == SnapshotOptions(given)
         IN \/ s.kind = "invalid" /\ s.code \in Refusals
            \/ /\ s.kind = "options" /\ s.total \in Int /\ s.mode \in {"allowlist", "open"}
               /\ s.policy = given.policy /\ s.proxy = given.proxy /\ s.allowed = given.allowed
  BY DEF SnapshotOptions, InvalidOptions, Refusals

\* fail() of the connector.
LEMMA ConnFailsLemma ==
  ASSUME FetchInv, NEW reason \in ConnResults \ {"connected"}
  PROVE  LET c == ConnFails(reason)
         IN /\ c \in [address : Addresses \cup {None}, peer : Peers \cup {None},
                      stage : {"none", "settled"}, timer : {Never}, result : ConnResults \cup {None}]
            /\ c.address = conn.address /\ c.peer = conn.peer
            /\ conn.stage \in Connecting => c.stage = "settled" /\ c.result = reason /\ c # conn
            /\ conn.stage \notin Connecting => c = conn
            /\ conn.stage # "none" => c.stage = "settled"
<1>1. /\ conn \in [address : Addresses \cup {None}, peer : Peers \cup {None},
                   stage : {"none", "settled"} \cup Connecting, timer : Timed,
                   result : ConnResults \cup {None}]
      /\ conn.stage \notin Connecting => conn.timer = Never
  BY DEF FetchInv, Typed, Quiet
<1>2. CASE conn.stage \in Connecting
  <2>1. ConnFails(reason) = [conn EXCEPT !.stage = "settled", !.timer = Never, !.result = reason]
    BY <1>2 DEF ConnFails, Connecting
  <2> QED
    BY <1>1, <1>2, <2>1 DEF Connecting
<1>3. CASE conn.stage \notin Connecting
  <2>1. ConnFails(reason) = conn
    BY <1>3 DEF ConnFails, Connecting
  <2> QED
    BY <1>1, <1>3, <2>1 DEF Connecting
<1> QED
  BY <1>2, <1>3

\* fail() of the reader.
LEMMA ReaderFailsLemma ==
  ASSUME FetchInv, NEW reason \in ReadResults
  PROVE  LET r == ReaderFails(reason)
         IN /\ r \in [stage : {"none", "settled"}, started : Nat, budget : Int, size : Nat,
                      deadline : {Never}, headers : {Never}, idle : {Never},
                      result : ReadResults \cup {None}]
            /\ r.size = reader.size /\ (r.stage = "none" <=> reader.stage = "none")
            /\ reader.stage \in Reading => r.stage = "settled" /\ r.result = reason /\ r # reader
            /\ reader.stage \notin Reading => r = reader
<1>1. /\ reader \in [stage : {"none", "settled"} \cup Reading, started : Nat, budget : Int,
                     size : Nat, deadline : Timed, headers : Timed, idle : Timed,
                     result : ReadResults \cup {None}]
      /\ reader.stage \notin Reading =>
           reader.deadline = Never /\ reader.headers = Never /\ reader.idle = Never
  BY DEF FetchInv, Typed, Quiet
<1>2. CASE reader.stage \in Reading
  <2>1. ReaderFails(reason) = [reader EXCEPT !.stage = "settled", !.deadline = Never,
                                             !.headers = Never, !.idle = Never, !.result = reason]
    BY <1>2 DEF ReaderFails, Reading
  <2> QED
    BY <1>1, <1>2, <2>1 DEF Reading
<1>3. CASE reader.stage \notin Reading
  <2>1. ReaderFails(reason) = reader
    BY <1>3 DEF ReaderFails, Reading
  <2> QED
    BY <1>1, <1>3, <2>1 DEF Reading
<1> QED
  BY <1>2, <1>3

\* What becomes of the sockets.
LEMMA SocketsLemma ==
  ASSUME Typed
  PROVE  /\ Discarded(raw) \in {"none", "closed", "orphan"} /\ Destroyed(raw) \in {"none", "closed"}
         /\ Destroyed(tls) \in {"none", "closed"} /\ (Destroyed(tls) = "none" <=> tls = "none")
         /\ raw = "none" => Discarded(raw) = "none" /\ Destroyed(raw) = "none"
  BY DEF Discarded, Destroyed, Typed

\* `finally` leaves nothing behind.
LEMMA FinishKeeps ==
  ASSUME FetchInv, phase \notin {"idle", "done"}, NEW outcome, Finish(outcome)
  PROVE  FetchInv'
<1> USE DEF FetchInv
<1>1. /\ phase' = "done" /\ result' = outcome /\ timer' = Never /\ raced' = None
      /\ UNCHANGED <<now, input, options, cancelled, started, stop, dns>>
      /\ conn' \in [address : Addresses \cup {None}, peer : Peers \cup {None},
                    stage : {"none", "settled"}, timer : {Never}, result : ConnResults \cup {None}]
      /\ conn'.address = conn.address /\ conn'.peer = conn.peer
      /\ conn.stage \notin Connecting => conn' = conn
  BY ConnFailsLemma DEF Finish, ConnResults
<1>2. /\ reader' \in [stage : {"none", "settled"}, started : Nat, budget : Int, size : Nat,
                      deadline : {Never}, headers : {Never}, idle : {Never},
                      result : ReadResults \cup {None}]
      /\ reader'.size = reader.size /\ (reader'.stage = "none" <=> reader.stage = "none")
  BY ReaderFailsLemma DEF Finish, ReadResults
<1>3. /\ raw' \in {"none", "closed", "orphan"} /\ tls' \in {"none", "closed"}
      /\ tls' = "none" <=> tls = "none"
  BY SocketsLemma DEF Finish, DestroySocket
<1>4. Typed'
  BY <1>1, <1>2, <1>3 DEF Typed, Timed
<1>5. Awaited'
  BY <1>1, <1>2 DEF Awaited, Cleared, Connecting, Reading
<1>6. Stopped'
  BY <1>1, NoneLemma DEF Stopped
<1>9. Settled' /\ Resolved'
  BY <1>1, <1>2, NoneLemma DEF Settled, Resolved
<1>7. Quiet'
  BY <1>1, <1>2, <1>3 DEF Quiet, Live
<1>8. Dialled'
  BY <1>1, <1>3 DEF Dialled, Cleared
<1> QED
  BY <1>4, <1>5, <1>6, <1>7, <1>8, <1>9

\* A phase that is stopped while it is awaited has let go of its sockets.
LEMMA StopKeeps ==
  ASSUME FetchInv, phase \notin {"idle", "done"},
         NEW reason \in {"aborted", "total-timeout"}, Stop(reason),
         timer' \in Timed, cancelled' \in BOOLEAN,
         cancelled => cancelled', reason = "aborted" => cancelled'
  PROVE  FetchInv'
<1> USE DEF FetchInv
<1>0. /\ UNCHANGED <<now, input, options, phase, started, result, dns>>
      /\ stop' \in {"aborted", "total-timeout"} /\ (stop # None => stop' = stop)
      /\ stop = None => stop' = reason
      /\ raced' = IF raced = None THEN "stopped" ELSE raced
  BY DEF Stop, Typed
<1>1. /\ conn' \in [address : Addresses \cup {None}, peer : Peers \cup {None},
                    stage : {"none", "settled"}, timer : {Never}, result : ConnResults \cup {None}]
      /\ conn'.address = conn.address /\ conn'.peer = conn.peer
      /\ conn.stage \notin Connecting => conn' = conn
      /\ conn.stage # "none" => conn'.stage # "none"
      /\ reader' \in [stage : {"none", "settled"}, started : Nat, budget : Int, size : Nat,
                      deadline : {Never}, headers : {Never}, idle : {Never},
                      result : ReadResults \cup {None}]
      /\ reader'.size = reader.size /\ (reader'.stage = "none" <=> reader.stage = "none")
      /\ reader.stage \notin Reading => reader' = reader
      /\ raw' \in {raw, Discarded(raw)} /\ tls' \in {tls, Destroyed(tls)}
      /\ raced = None => \/ conn.stage \notin Connecting /\ reader.stage \notin Reading
                         \/ raw' = Discarded(raw) /\ tls' = Destroyed(tls)
  <2>1. CASE stop = None
    <3>1. /\ conn' = ConnFails("aborted") /\ reader' = ReaderFails("aborted")
          /\ IF conn' # conn \/ reader' # reader
             THEN raw' = Discarded(raw) /\ tls' = Destroyed(tls) ELSE raw' = raw /\ tls' = tls
      BY <2>1 DEF Stop, AbortPhases
    <3>2. /\ "aborted" \in ConnResults \ {"connected"} /\ "aborted" \in ReadResults
      BY DEF ConnResults, ReadResults
    <3> DEFINE c == ConnFails("aborted")
               r == ReaderFails("aborted")
    <3>3. /\ c \in [address : Addresses \cup {None}, peer : Peers \cup {None},
                    stage : {"none", "settled"}, timer : {Never}, result : ConnResults \cup {None}]
          /\ c.address = conn.address /\ c.peer = conn.peer
          /\ conn.stage \in Connecting => c # conn
          /\ conn.stage \notin Connecting => c = conn
          /\ conn.stage # "none" => c.stage # "none"
      BY <3>2, ConnFailsLemma
    <3>4. /\ r \in [stage : {"none", "settled"}, started : Nat, budget : Int, size : Nat,
                      deadline : {Never}, headers : {Never}, idle : {Never},
                      result : ReadResults \cup {None}]
          /\ r.size = reader.size /\ (r.stage = "none" <=> reader.stage = "none")
          /\ reader.stage \in Reading => r # reader
          /\ reader.stage \notin Reading => r = reader
      BY <3>2, ReaderFailsLemma
    <3> HIDE DEF c, r
    <3>5. conn' = c /\ reader' = r
      BY <3>1 DEF c, r
    <3> QED
      BY <3>1, <3>3, <3>4, <3>5
  <2>2. CASE stop # None
    <3>1. raced # None /\ UNCHANGED <<conn, reader, raw, tls>>
      BY <2>2 DEF Stop, Stopped
    <3>2. conn.stage \notin Connecting /\ reader.stage \notin Reading
      BY <3>1 DEF Awaited
    <3> QED
      BY <3>1, <3>2 DEF Typed, Quiet, Timed
  <2> QED
    BY <2>1, <2>2
<1>2. /\ Discarded(raw) \in {"none", "closed", "orphan"} /\ Destroyed(tls) \in {"none", "closed"}
      /\ Destroyed(tls) = "none" <=> tls = "none"
      /\ raw = "none" => Discarded(raw) = "none"
  BY SocketsLemma
<1>3. Typed'
  BY <1>0, <1>1, <1>2 DEF Typed, Timed
<1>4. Awaited'
  <2>1. /\ raced' # None
        /\ conn'.stage \notin Connecting /\ reader'.stage \notin Reading
    BY <1>0, <1>1, NoneLemma DEF Connecting, Reading, Typed
  <2>2. /\ phase \in {"idle", "resolving"} =>
             conn' = NoConn /\ reader' = NoReader /\ raw' = "none" /\ tls' = "none"
        /\ phase = "connecting" => reader' = NoReader /\ conn'.stage # "none"
        /\ reader'.stage # "none" => conn'.stage = "settled" /\ conn'.result = "connected"
    BY <1>1, <1>2 DEF Awaited, NoConn, NoReader, Connecting, Reading
  <2>3. Cleared'
    BY <1>0 DEF Awaited, Cleared
  <2> QED
    BY <1>0, <2>1, <2>2, <2>3 DEF Awaited
<1>5. Stopped'
  <2>1. raced' # None /\ stop' # None
    BY <1>0, NoneLemma
  <2>2. ASSUME stop' = "aborted"
        PROVE  cancelled'
    BY <1>0, <2>2, NoneLemma DEF Stopped, Typed
  <2> QED
    BY <2>1, <2>2 DEF Stopped
<1>6. Quiet'
  <2>1. raced' = "stopped" => raw' \notin Live /\ tls' \notin Live
    <3>1. CASE raced = None
      <4>1. CASE conn.stage \notin Connecting /\ reader.stage \notin Reading
        <5>1. phase = "resolving"
          BY <3>1, <4>1 DEF Awaited, Typed
        <5> QED
          BY <1>1, <1>2, <5>1 DEF Awaited, Live
      <4> QED
        BY <1>1, <1>2, <3>1, <4>1 DEF Live
    <3>2. CASE raced # None
      BY <1>0, <1>1, <1>2, <3>2 DEF Quiet, Live
    <3> QED
      BY <3>1, <3>2
  <2> QED
    BY <1>0, <1>1, <2>1 DEF Quiet
<1>7. Settled'
  <2>1. raced' = "phase" => raced = "phase"
    BY <1>0
  <2>2. raced = "phase" => conn' = conn /\ reader' = reader
    BY <1>1, NoneLemma DEF Awaited
  <2> QED
    BY <1>0, <1>1, <2>1, <2>2 DEF Settled
<1>8. Resolved'
  BY <1>0 DEF Resolved
<1>9. Dialled'
  BY <1>0, <1>1, <1>2 DEF Dialled, Cleared
<1> QED
  BY <1>3, <1>4, <1>5, <1>6, <1>7, <1>8, <1>9


\* The connector settles with a failure and lets its sockets go.
LEMMA ConnEndsKeeps ==
  ASSUME FetchInv, conn.stage \in Connecting, NEW reason \in ConnResults \ {"connected"},
         ConnEnds(reason), ConnUnchanged
  PROVE  FetchInv'
<1> USE DEF FetchInv
<1>1. /\ phase = "connecting" /\ raced = None /\ raced' = "phase" /\ reader = NoReader
      /\ UNCHANGED <<now, input, options, cancelled, phase, started, timer, stop, result, dns, reader>>
      /\ raw' = Discarded(raw) /\ tls' = Destroyed(tls)
  BY DEF ConnEnds, ConnUnchanged, Settles, Awaited
<1>2. /\ conn' \in [address : Addresses \cup {None}, peer : Peers \cup {None},
                    stage : {"none", "settled"}, timer : {Never}, result : ConnResults \cup {None}]
      /\ conn'.address = conn.address /\ conn'.peer = conn.peer
      /\ conn'.stage = "settled" /\ conn'.result = reason
  BY ConnFailsLemma DEF ConnEnds
<1>3. /\ raw' \in {"none", "closed", "orphan"} /\ tls' \in {"none", "closed"}
      /\ tls' = "none" <=> tls = "none"
  BY <1>1, SocketsLemma
<1>4. Typed'
  BY <1>1, <1>2, <1>3 DEF Typed, Timed
<1>5. Awaited'
  BY <1>1, <1>2, NoneLemma DEF Awaited, Cleared, Connecting, Reading, NoReader
<1>6. Stopped'
  BY <1>1, NoneLemma DEF Stopped
<1>7. Quiet'
  BY <1>1, <1>2, <1>3 DEF Quiet
<1>8. Settled' /\ Resolved'
  BY <1>1, <1>2, NoneLemma DEF Settled, Resolved
<1>9. Dialled'
  BY <1>1, <1>2, <1>3 DEF Dialled, Cleared
<1> QED
  BY <1>4, <1>5, <1>6, <1>7, <1>8, <1>9

\* The reader settles and destroys the socket.
LEMMA ReadEndsKeeps ==
  ASSUME FetchInv, reader.stage \in Reading, NEW outcome \in ReadResults,
         ReadEnds(outcome), ReadUnchanged
  PROVE  FetchInv'
<1> USE DEF FetchInv
<1>1. /\ phase = "reading" /\ raced = None /\ raced' = "phase"
      /\ conn.stage \notin Connecting
      /\ UNCHANGED <<now, input, options, cancelled, phase, started, timer, stop, result, dns, conn>>
      /\ raw' = Destroyed(raw) /\ tls' = Destroyed(tls)
  BY DEF ReadEnds, ReadUnchanged, Settles, Awaited
<1>2. /\ reader' \in [stage : {"none", "settled"}, started : Nat, budget : Int, size : Nat,
                      deadline : {Never}, headers : {Never}, idle : {Never},
                      result : ReadResults \cup {None}]
      /\ reader'.size = reader.size /\ reader'.stage = "settled" /\ reader'.result = outcome
      /\ reader.stage # "none"
  BY ReaderFailsLemma DEF ReadEnds, Reading
<1>3. /\ raw' \in {"none", "closed"} /\ tls' \in {"none", "closed"}
      /\ tls' = "none" <=> tls = "none"
  BY <1>1, SocketsLemma
<1>4. Typed'
  BY <1>1, <1>2, <1>3 DEF Typed, Timed
<1>5. Awaited'
  BY <1>1, <1>2, NoneLemma DEF Awaited, Cleared, Connecting, Reading
<1>6. Stopped'
  BY <1>1, NoneLemma DEF Stopped
<1>7. Quiet'
  BY <1>1, <1>2, <1>3 DEF Quiet, Reading
<1>8. Settled' /\ Resolved'
  BY <1>1, <1>2, NoneLemma DEF Settled, Resolved
<1>9. Dialled'
  BY <1>1, <1>3 DEF Dialled, Cleared
<1> QED
  BY <1>4, <1>5, <1>6, <1>7, <1>8, <1>9

-----------------------------------------------------------------------------
(* The steps.                                                               *)

\* Nothing has been done yet.
LEMMA FetchInit == Init => FetchInv
<1> SUFFICES ASSUME Init PROVE FetchInv
  OBVIOUS
<1>1. Typed
  <2>1. NoDns \in [ipv4 : Answers \cup {None, <<None>>}, ipv6 : Answers \cup {None, <<None>>},
                   timer : Timed, result : DnsResults \cup {None}]
    BY DEF NoDns, Timed
  <2>2. NoConn \in [address : Addresses \cup {None}, peer : Peers \cup {None},
                    stage : {"none", "settled"} \cup Connecting, timer : Timed,
                    result : ConnResults \cup {None}]
    BY DEF NoConn, Timed
  <2>3. NoReader \in [stage : {"none", "settled"} \cup Reading, started : Nat, budget : Int, size : Nat,
                      deadline : Timed, headers : Timed, idle : Timed, result : ReadResults \cup {None}]
    BY DEF NoReader, Timed
  <2>4. /\ now \in Nat /\ started \in Nat /\ input \in Inputs /\ cancelled \in BOOLEAN
        /\ phase = "idle" /\ timer \in Timed /\ stop = None /\ raced = None
        /\ raw = "none" /\ tls = "none" /\ dns = NoDns /\ conn = NoConn /\ reader = NoReader
    BY DEF Init, Timed
  <2> HIDE DEF Init
  <2> QED
    BY <2>1, <2>2, <2>3, <2>4, ZenonT(60) DEF Typed
<1>2. Awaited
  BY DEF Init, Awaited, NoDns, NoConn, NoReader, Connecting, Reading
<1>3. Stopped /\ Quiet /\ Dialled /\ Resolved
  BY NoneLemma DEF Init, Stopped, Quiet, Dialled, Resolved, NoDns, NoConn, NoReader, Live, Connecting
<1>4. Settled
  BY NoneLemma, DirectoryFetchAssumption DEF Init, Settled, NoDns, NoConn, NoReader
<1> QED
  BY <1>1, <1>2, <1>3, <1>4 DEF FetchInv

\* A fetch is refused, or begins with its two lookups.
LEMMA StartKeeps ==
  ASSUME FetchInv, Start
  PROVE  FetchInv'
<1> USE DEF FetchInv
<1> DEFINE snapshot == SnapshotOptions(input)
<1>1. /\ phase = "idle" /\ options' = snapshot /\ conn = NoConn /\ reader = NoReader
      /\ raw = "none" /\ tls = "none" /\ stop = None /\ raced = None /\ timer = Never
      /\ dns = NoDns /\ result = None
      /\ UNCHANGED <<now, input, cancelled, stop, raced, conn, raw, tls, reader>>
      /\ \/ Refusal = None /\ phase' = "resolving"
         \/ Refusal # None /\ phase' = "done"
      /\ \/ /\ Refusal = None
            /\ started' = now /\ timer' = now + options'.total
            /\ dns' = [NoDns EXCEPT !.timer = now + Least(DnsLimit, options'.total)]
            /\ result' = result
         \/ /\ Refusal # None
            /\ result' = Refusal /\ UNCHANGED <<started, timer, dns>>
  BY DEF Start, Awaited
<1>2. CASE Refusal = None
  <2>1. /\ snapshot.kind = "options" /\ snapshot.total \in Int
        /\ snapshot.policy = input.policy /\ snapshot.proxy = input.proxy
        /\ snapshot.mode = "open" \/ \E i \in DOMAIN input.allowed : input.allowed[i] = Origin
    <3>1. /\ snapshot.kind = "invalid" => Refusal = snapshot.code
          /\ snapshot.kind # "invalid" /\ snapshot.mode = "allowlist"
             /\ (~\E i \in DOMAIN snapshot.allowed : snapshot.allowed[i] = Origin)
               => Refusal = "origin-denied"
      BY DEF Refusal
    <3>2. None \notin Refusals /\ None # "origin-denied"
      BY NoneLemma DEF Refusals
    <3> HIDE DEF snapshot
    <3>3. \/ snapshot.kind = "invalid" /\ snapshot.code \in Refusals
          \/ /\ snapshot.kind = "options" /\ snapshot.total \in Int
             /\ snapshot.mode \in {"allowlist", "open"}
             /\ snapshot.policy = input.policy /\ snapshot.proxy = input.proxy
             /\ snapshot.allowed = input.allowed
      BY SnapshotLemma DEF snapshot
    <3> QED
      BY <1>2, <3>1, <3>2, <3>3
  <2>2. Cleared'
    BY <1>1, <2>1 DEF Cleared
  <2>3. /\ phase' = "resolving" /\ started' = now /\ result' = None
        /\ timer' \in Int /\ dns'.timer \in Int
        /\ dns' = [NoDns EXCEPT !.timer = dns'.timer]
    <3>1. /\ now \in Nat /\ DnsLimit \in Int /\ options'.total \in Int
      BY <1>1, <2>1, DirectoryFetchAssumption DEF Typed
    <3>2. now + options'.total \in Int /\ now + Least(DnsLimit, options'.total) \in Int
      BY <3>1 DEF Least
    <3> QED
      BY <1>1, <1>2, <3>2 DEF NoDns
  <2>4. /\ dns' \in [ipv4 : Answers \cup {None, <<None>>}, ipv6 : Answers \cup {None, <<None>>},
                     timer : Timed, result : DnsResults \cup {None}]
        /\ dns'.result = None /\ dns'.ipv4 = None /\ dns'.ipv6 = None
    BY <2>3 DEF NoDns, Timed
  <2>5. Typed'
    BY <1>1, <2>3, <2>4 DEF Typed, Timed
  <2>6. Awaited'
    BY <1>1, <2>2, <2>3 DEF Awaited, NoConn, NoReader, Connecting, Reading
  <2>7. Stopped' /\ Quiet' /\ Dialled' /\ Resolved'
    BY <1>1, <2>3, <2>4, NoneLemma DEF Stopped, Quiet, Dialled, Resolved, NoConn, NoReader
  <2>8. Settled'
    BY <1>1, <2>3, <2>4, NoneLemma DEF Settled, NoReader
  <2> QED
    BY <2>5, <2>6, <2>7, <2>8
<1>3. CASE Refusal # None
  <2>1. phase' = "done" /\ UNCHANGED <<started, timer, dns>>
    BY <1>1, <1>3
  <2>2. Typed'
    BY <1>1, <2>1 DEF Typed
  <2>3. Awaited'
    BY <1>1, <2>1 DEF Awaited, NoDns, NoConn, NoReader, Connecting, Reading
  <2>4. Stopped' /\ Quiet' /\ Dialled' /\ Resolved'
    BY <1>1, <2>1, NoneLemma DEF Stopped, Quiet, Dialled, Resolved, NoConn, NoReader, Live
  <2>5. Settled'
    BY <1>1, <2>1, NoneLemma DEF Settled, NoReader
  <2> QED
    BY <2>2, <2>3, <2>4, <2>5
<1> QED
  BY <1>2, <1>3



\* What a complete pair of answers yields.
LEMMA ValidatedLemma ==
  ASSUME NEW ipv4 \in Seq(Addresses), NEW ipv6 \in Seq(Addresses)
  PROVE  LET outcome == ValidateAddresses(ipv4, ipv6)
         IN /\ outcome \in DnsResults
            /\ outcome.kind = "addresses" =>
                 /\ outcome.addresses = ipv4 \o ipv6 /\ Len(ipv4 \o ipv6) <= MaxAddresses
                 /\ ipv4 \o ipv6 # <<>>
                 /\ \A i \in DOMAIN (ipv4 \o ipv6) : Allows(options.policy, (ipv4 \o ipv6)[i])
<1> DEFINE all == ipv4 \o ipv6
<1>1. all \in Seq(Addresses)
  OBVIOUS
<1>2. Len(all) \in Nat /\ MaxAddresses \in Nat
  BY <1>1, DirectoryFetchAssumption
<1>3. \/ ValidateAddresses(ipv4, ipv6) \in {DnsFailed("dns-limit"), DnsFailed("address-denied"),
                                            DnsFailed("dns-failure")}
      \/ /\ ValidateAddresses(ipv4, ipv6) = [kind |-> "addresses", addresses |-> all]
         /\ Len(all) <= MaxAddresses /\ all # <<>>
         /\ \A i \in DOMAIN all : Allows(options.policy, all[i])
  <2> HIDE DEF all
  <2>1. ValidateAddresses(ipv4, ipv6) =
          IF Len(all) > MaxAddresses THEN DnsFailed("dns-limit")
          ELSE IF \E i \in DOMAIN all : \/ ~Allows(options.policy, all[i])
                                        \/ all[i].family # IF i <= Len(ipv4) THEN 4 ELSE 6
               THEN DnsFailed("address-denied")
          ELSE IF all = <<>> THEN DnsFailed("dns-failure")
          ELSE [kind |-> "addresses", addresses |-> all]
    BY DEF ValidateAddresses, all
  <2> QED
    BY <1>2, <2>1
<1> HIDE DEF all
<1>4. CASE ValidateAddresses(ipv4, ipv6) = [kind |-> "addresses", addresses |-> all]
           /\ Len(all) <= MaxAddresses /\ all # <<>>
           /\ \A i \in DOMAIN all : Allows(options.policy, all[i])
  <2>1. /\ [kind |-> "addresses", addresses |-> all] \in DnsResults
        /\ [kind |-> "addresses", addresses |-> all].addresses = all
    BY <1>1 DEF DnsResults
  <2> QED
    BY <1>4, <2>1 DEF all
<1>5. CASE ValidateAddresses(ipv4, ipv6) \in {DnsFailed("dns-limit"), DnsFailed("address-denied"),
                                              DnsFailed("dns-failure")}
  <2>1. \A reason \in {"dns-limit", "address-denied", "dns-failure"} :
          DnsFailed(reason) \in DnsResults /\ DnsFailed(reason).kind = "failed"
    BY DEF DnsFailed, DnsResults
  <2> QED
    BY <1>5, <2>1
<1> QED
  BY <1>3, <1>4, <1>5

\* The resolution settles, awaited or not.
LEMMA DnsSettles ==
  ASSUME FetchInv, dns.timer # Never, Resolved',
         dns' \in [ipv4 : Answers \cup {None, <<None>>}, ipv6 : Answers \cup {None, <<None>>},
                  timer : {Never}, result : DnsResults],
         raced' = IF phase = "resolving" /\ raced = None THEN "phase" ELSE raced,
         UNCHANGED <<now, input, options, cancelled, phase, started, timer, stop, result, conn, raw, tls, reader>>
  PROVE  FetchInv'
<1> USE DEF FetchInv
<1>1. /\ dns.result = None /\ phase # "idle" /\ dns'.result \in DnsResults /\ dns'.timer = Never
  BY DEF Settled, Awaited, NoDns
<1>2. Typed'
  <2>1. raced' \in {None, "stopped", "phase"}
    BY DEF Typed
  <2>2. dns' \in [ipv4 : Answers \cup {None, <<None>>}, ipv6 : Answers \cup {None, <<None>>},
                 timer : Timed, result : DnsResults \cup {None}]
    BY DEF Timed
  <2> QED
    BY <2>1, <2>2 DEF Typed
<1>3. Awaited'
  BY <1>1, NoneLemma DEF Awaited, Cleared, NoConn, NoReader, Connecting, Reading
<1>4. Stopped' /\ Quiet'
  BY <1>1, NoneLemma DEF Stopped, Quiet
<1>5. Settled'
  BY <1>1, NoneLemma DEF Settled
<1>6. Dialled'
  BY <1>1, NoneLemma DEF Dialled, Cleared
<1> QED
  BY <1>2, <1>3, <1>4, <1>5, <1>6

\* An answer of the resolver completes the pair, or is kept until the other comes.
LEMMA DnsAnswersKeeps ==
  ASSUME FetchInv, NEW f \in {4, 6}, DnsAnswers(f)
  PROVE  FetchInv'
<1> USE DEF FetchInv
<1>1. /\ dns.timer # Never /\ dns.result = None /\ phase # "idle"
      /\ UNCHANGED <<now, input, options, cancelled, phase, started, timer, stop, result, conn, raw, tls, reader>>
      /\ dns \in [ipv4 : Answers \cup {None, <<None>>}, ipv6 : Answers \cup {None, <<None>>},
                  timer : Timed, result : DnsResults \cup {None}]
      /\ dns.ipv4 # <<None>> /\ dns.ipv6 # <<None>>
  <2>1. /\ dns.timer # Never
        /\ UNCHANGED <<now, input, options, cancelled, phase, started, timer, stop, result, conn, raw, tls, reader>>
    BY DEF DnsAnswers
  <2>2. phase # "idle"
    BY <2>1 DEF Awaited, NoDns
  <2> QED
    BY <2>1, <2>2 DEF Settled, Typed
<1>2. PICK answer \in Answers \cup {<<None>>} :
        LET known == [dns EXCEPT ![Family(f)] = answer]
            both == known.ipv4 # None /\ known.ipv6 # None
            outcome == IF answer = <<None>> THEN DnsFailed("dns-failure")
                       ELSE ValidateAddresses(known.ipv4, known.ipv6)
        IN IF answer = <<None>> \/ both
           THEN /\ dns' = [known EXCEPT !.result = outcome, !.timer = Never]
                /\ IF phase = "resolving" THEN Settles ELSE UNCHANGED raced
           ELSE dns' = known /\ UNCHANGED raced
  BY DEF DnsAnswers
<1> DEFINE known == [dns EXCEPT ![Family(f)] = answer]
           both == known.ipv4 # None /\ known.ipv6 # None
           outcome == IF answer = <<None>> THEN DnsFailed("dns-failure")
                      ELSE ValidateAddresses(known.ipv4, known.ipv6)
<1>3. /\ known \in [ipv4 : Answers \cup {None, <<None>>}, ipv6 : Answers \cup {None, <<None>>},
                    timer : Timed, result : DnsResults \cup {None}]
      /\ known.timer = dns.timer /\ known.result = None
      /\ answer # <<None>> => known.ipv4 # <<None>> /\ known.ipv6 # <<None>>
  BY <1>1 DEF Family
<1>4. \/ /\ answer = <<None>> \/ both
         /\ dns' = [known EXCEPT !.result = outcome, !.timer = Never]
         /\ raced' = IF phase = "resolving" /\ raced = None THEN "phase" ELSE raced
      \/ ~(answer = <<None>> \/ both) /\ dns' = known /\ raced' = raced
  BY <1>2 DEF Settles
<1> HIDE DEF known
<1>5. CASE ~(answer = <<None>> \/ both) /\ dns' = known /\ raced' = raced
  <2>1. dns'.result = None /\ dns'.timer # Never /\ <<None>> \notin {dns'.ipv4, dns'.ipv6}
    BY <1>1, <1>3, <1>5
  <2>2. ~(phase = "resolving" /\ raced = "phase")
    BY <1>1, NoneLemma DEF Settled
  <2>3. Typed'
    BY <1>1, <1>3, <1>5 DEF Typed
  <2>4. Awaited'
    BY <1>1, <1>5 DEF Awaited, Cleared
  <2>5. Stopped' /\ Quiet' /\ Resolved'
    BY <1>1, <1>5, <2>1, NoneLemma DEF Stopped, Quiet, Resolved
  <2>6. Settled'
    BY <1>1, <1>5, <2>1, <2>2 DEF Settled
  <2>7. Dialled'
    BY <1>1, <1>5, NoneLemma DEF Dialled, Cleared
  <2> QED
    BY <2>3, <2>4, <2>5, <2>6, <2>7
<1>6. CASE /\ answer = <<None>> \/ both
           /\ dns' = [known EXCEPT !.result = outcome, !.timer = Never]
           /\ raced' = IF phase = "resolving" /\ raced = None THEN "phase" ELSE raced
  <2>1. /\ outcome \in DnsResults
        /\ outcome.kind = "addresses" =>
             /\ outcome.addresses = known.ipv4 \o known.ipv6
             /\ Len(known.ipv4 \o known.ipv6) <= MaxAddresses
             /\ known.ipv4 \o known.ipv6 # <<>>
             /\ \A i \in DOMAIN (known.ipv4 \o known.ipv6) :
                  Allows(options.policy, (known.ipv4 \o known.ipv6)[i])
    <3>1. CASE answer = <<None>>
      BY <3>1 DEF DnsFailed, DnsResults
    <3>2. CASE answer # <<None>>
      <4>1. known.ipv4 \in Seq(Addresses) /\ known.ipv6 \in Seq(Addresses)
        BY <1>3, <1>6, <3>2, DirectoryFetchAssumption
      <4> QED
        BY <3>2, <4>1, ValidatedLemma
    <3> QED
      BY <3>1, <3>2
  <2> HIDE DEF outcome
  <2>2. /\ dns' \in [ipv4 : Answers \cup {None, <<None>>}, ipv6 : Answers \cup {None, <<None>>},
                     timer : Timed, result : DnsResults \cup {None}]
        /\ dns'.timer = Never /\ dns'.result = outcome
        /\ dns'.ipv4 = known.ipv4 /\ dns'.ipv6 = known.ipv6
    BY <1>3, <1>6, <2>1 DEF Timed
  <2>3. Resolved'
    <3>1. options.policy = input.policy
      BY <1>1 DEF Awaited, Cleared
    <3> QED
      BY <1>1, <2>1, <2>2, <3>1 DEF Resolved
  <2> QED
    BY <1>1, <1>6, <2>1, <2>2, <2>3, DnsSettles
<1> QED
  BY <1>4, <1>5, <1>6


\* The resolver has been too long.
LEMMA DnsTimerKeeps ==
  ASSUME FetchInv, DnsTimer
  PROVE  FetchInv'
<1>1. /\ dns.timer # Never
      /\ dns' = [dns EXCEPT !.result = DnsFailed("dns-timeout"), !.timer = Never]
      /\ raced' = IF phase = "resolving" /\ raced = None THEN "phase" ELSE raced
      /\ UNCHANGED <<now, input, options, cancelled, phase, started, timer, stop, result, conn, raw, tls, reader>>
  BY DEF DnsTimer, Due, DnsEnds, Settles
<1>2. /\ DnsFailed("dns-timeout") \in DnsResults
      /\ DnsFailed("dns-timeout").kind = "failed"
  BY DEF DnsFailed, DnsResults
<1>3. /\ dns' \in [ipv4 : Answers \cup {None, <<None>>}, ipv6 : Answers \cup {None, <<None>>},
                  timer : {Never}, result : DnsResults]
      /\ dns'.result.kind = "failed"
  BY <1>1, <1>2 DEF FetchInv, Typed
<1>4. Resolved'
  BY <1>3 DEF Resolved
<1> QED
  BY <1>1, <1>3, <1>4, DnsSettles

\* What remaining() has found when it lets a fetch go on.
LEMMA GoesOn ==
  ASSUME FetchInv, phase \notin {"idle", "done"}, GivenUp = None
  PROVE  ~cancelled /\ stop = None /\ now - started < options.total
<1>1. ~cancelled /\ ~Expired
  BY NoneLemma DEF GivenUp
<1>2. now \in Int /\ started \in Int /\ options.total \in Int
  BY DEF FetchInv, Typed, Awaited, Cleared
<1>3. now - started < options.total
  BY <1>1, <1>2 DEF Expired
<1>4. stop = None
  BY <1>1, NoneLemma DEF Expired, FetchInv, Typed, Stopped
<1> QED
  BY <1>1, <1>3, <1>4

\* The address that was selected is dialled.
LEMMA DialKeeps ==
  ASSUME FetchInv, phase = "resolving", raced = "phase", GivenUp = None,
         dns.result.kind # "failed", Dial(dns.result.addresses[1])
  PROVE  FetchInv'
<1> USE DEF FetchInv
<1> DEFINE address == dns.result.addresses[1]
<1>1. /\ phase' = "connecting" /\ conn = NoConn /\ reader = NoReader /\ raw = "none" /\ tls = "none"
      /\ UNCHANGED <<now, input, options, cancelled, started, timer, stop, result, dns, tls, reader>>
      /\ \/ /\ conn' = [NoConn EXCEPT !.address = address, !.stage = "transport",
                                      !.timer = now + Least(ConnectLimit, Remaining)]
            /\ raw' = "opening" /\ raced' = None
         \/ /\ conn' = [NoConn EXCEPT !.stage = "settled", !.result = "address-denied"]
            /\ raced' = "phase" /\ raw' = raw
  BY DEF Dial, Awaited
<1>2. dns.result \in DnsResults /\ dns.result.kind = "addresses" /\ dns.timer = Never
  BY NoneLemma DEF Settled, Typed, DnsResults
<1>3. address \in Addresses
  <2>1. dns.result.addresses \in Seq(Addresses)
    BY <1>2 DEF DnsResults
  <2>2. dns.result.addresses # <<>>
    BY <1>2, NoneLemma DEF Resolved
  <2> QED
    BY <2>1, <2>2
<1>4. Cleared
  BY DEF Awaited
<1>5. now + Least(ConnectLimit, Remaining) \in Int
  BY <1>4, DirectoryFetchAssumption DEF Least, Remaining, Cleared, Typed
<1> HIDE DEF address
<1>6. \/ stop = None /\ raw' = "opening" /\ raced' = None /\ conn'.stage = "transport" /\ conn'.address = address
      \/ raw' = "none" /\ raced' = "phase" /\ conn'.stage = "settled" /\ conn'.result = "address-denied"
         /\ conn'.address = None /\ conn'.timer = Never
  BY <1>1, GoesOn DEF NoConn
<1>7. conn' \in [address : Addresses \cup {None}, peer : Peers \cup {None},
                stage : {"none", "settled"} \cup Connecting, timer : Timed,
                result : ConnResults \cup {None}]
  BY <1>1, <1>3, <1>5 DEF NoConn, Connecting, ConnResults, Timed
<1>8. Typed'
  <2>1. raced' \in {None, "phase"} /\ raw' \in {"none", "opening"}
    BY <1>6
  <2> QED
    BY <1>1, <1>7, <2>1 DEF Typed
<1>9. Awaited'
  BY <1>1, <1>4, <1>6, NoneLemma DEF Awaited, Cleared, NoReader, Connecting, Reading
<1>10. Stopped' /\ Quiet'
  BY <1>1, <1>6, NoneLemma DEF Stopped, Quiet, Live, Connecting
<1>11. Settled' /\ Resolved'
  BY <1>1, <1>6, NoneLemma DEF Settled, Resolved, ConnResults
<1>12. Dialled'
  <2>1. address # None
    BY <1>3, NoneLemma
  <2> QED
    BY <1>1, <1>2, <1>4, <1>6, <2>1, NoneLemma DEF Dialled, Cleared, Connecting, address
<1> QED
  BY <1>8, <1>9, <1>10, <1>11, <1>12


\* The continuation of the resolution.
LEMMA AfterResolveKeeps ==
  ASSUME FetchInv, AfterResolve
  PROVE  FetchInv'
<1>1. phase = "resolving" /\ raced # None
  BY DEF AfterResolve
<1>2. \/ \E outcome : Finish(outcome)
      \/ /\ raced # "stopped" /\ dns.result.kind # "failed" /\ GivenUp = None
         /\ Dial(dns.result.addresses[1])
  BY DEF AfterResolve
<1>3. raced \in {"stopped", "phase"}
  BY <1>1 DEF FetchInv, Typed
<1> QED
  BY <1>1, <1>2, <1>3, FinishKeeps, DialKeeps

\* TLS is begun with the host that was dialled, or through the proxy.
LEMMA HandshakeKeeps ==
  ASSUME FetchInv, conn.stage = "transport", NEW peer \in Peers \cup {None}, Handshake(peer),
         ConnUnchanged,
         \/ peer = None /\ options.proxy # None
         \/ peer \in Peers /\ MatchesPeer(options.policy, conn.address, peer)
  PROVE  FetchInv'
<1> USE DEF FetchInv
<1>1. /\ phase = "connecting" /\ raced = None /\ stop = None /\ Cleared
      /\ conn.address # None
  BY NoneLemma DEF Awaited, Stopped, Dialled, Connecting
<1>2. /\ conn' \in [address : Addresses \cup {None}, peer : Peers \cup {None},
                    stage : {"handshake"}, timer : Timed, result : ConnResults \cup {None}]
      /\ conn'.address = conn.address /\ conn'.peer = peer
  BY DEF Handshake, Typed
<1>3. /\ UNCHANGED <<now, input, options, cancelled, phase, started, timer, stop, result, dns, reader, raced>>
      /\ raw' = "open" /\ tls' = "opening" /\ conn'.stage = "handshake"
  BY <1>2 DEF Handshake, ConnUnchanged
<1>4. Typed'
  BY <1>2, <1>3 DEF Typed, Connecting
<1>5. Awaited'
  BY <1>1, <1>3, NoneLemma DEF Awaited, Cleared, NoReader, Connecting, Reading
<1>6. Stopped' /\ Quiet'
  BY <1>1, <1>3, NoneLemma DEF Stopped, Quiet, Connecting
<1>7. Settled' /\ Resolved'
  BY <1>1, <1>3, NoneLemma DEF Settled, Resolved
<1>8. Dialled'
  BY <1>1, <1>2, <1>3 DEF Dialled, Cleared
<1> QED
  BY <1>4, <1>5, <1>6, <1>7, <1>8

\* The response may come: the reader has the socket.
LEMMA ReadingKeeps ==
  ASSUME FetchInv, phase = "connecting", raced = "phase", conn.result = "connected", tls # "closed",
         GivenUp = None,
         phase' = "reading", raced' = None,
         reader' = [NoReader EXCEPT !.stage = "headers", !.started = now, !.budget = Remaining,
                                    !.deadline = now + Remaining,
                                    !.headers = now + Least(HeaderLimit, Remaining)],
         UNCHANGED <<now, input, options, cancelled, started, timer, stop, result, dns, conn, raw, tls>>
  PROVE  FetchInv'
<1> USE DEF FetchInv
<1>1. /\ stop = None /\ Cleared /\ conn.stage \notin Connecting
      /\ conn.stage = "settled"
  BY GoesOn, NoneLemma DEF Awaited, Typed
<1>2. Remaining \in Int /\ now + Remaining \in Int /\ now + Least(HeaderLimit, Remaining) \in Int
  <2>1. now \in Int /\ started \in Int /\ options.total \in Int
    BY <1>1 DEF Typed, Cleared
  <2>2. Remaining \in Int
    BY <2>1 DEF Remaining
  <2>3. HeaderLimit \in Int
    BY DirectoryFetchAssumption
  <2> QED
    BY ONLY <2>1, <2>2, <2>3 DEF Least
<1>3. /\ reader' \in [stage : {"headers"}, started : Nat, budget : Int, size : Nat,
                      deadline : Timed, headers : Timed, idle : Timed, result : ReadResults \cup {None}]
      /\ reader'.size = 0
  BY <1>2 DEF NoReader, Typed, Timed
<1>4. Typed'
  BY <1>3 DEF Typed, Reading
<1>5. Awaited'
  BY <1>1, <1>3, NoneLemma DEF Awaited, Cleared, Reading, Connecting
<1>6. Stopped' /\ Quiet'
  BY <1>1, <1>3, NoneLemma DEF Stopped, Quiet, Reading
<1>7. Settled' /\ Resolved'
  <2>1. MaxBody \in Nat
    BY DirectoryFetchAssumption
  <2>2. reader'.size <= MaxBody
    BY <1>3, <2>1
  <2> QED
    BY <2>2, NoneLemma DEF Settled, Resolved
<1>8. Dialled'
  BY DEF Dialled, Cleared
<1> QED
  BY <1>4, <1>5, <1>6, <1>7, <1>8


\* The socket opens: to the host that was dialled, to another one, or to the proxy.
LEMMA TransportOpensKeeps ==
  ASSUME FetchInv, TransportOpens
  PROVE  FetchInv'
<1>1. conn.stage = "transport" /\ ConnUnchanged
  BY DEF TransportOpens
<1>2. \/ \E reason \in ConnResults \ {"connected"} : ConnEnds(reason)
      \/ options.proxy # None /\ Handshake(None)
      \/ \E peer \in Peers : MatchesPeer(options.policy, conn.address, peer) /\ Handshake(peer)
  <2> HIDE DEF TransportOpens
  <2>1. {"peer-mismatch", "connection-failed", "tls-failed"} \subseteq ConnResults \ {"connected"}
    BY DEF ConnResults
  <2>2. \/ \E peer \in Peers :
             IF MatchesPeer(options.policy, conn.address, peer) THEN Handshake(peer)
             ELSE ConnEnds("peer-mismatch")
        \/ /\ options.proxy # None
           /\ Handshake(None) \/ ConnEnds("connection-failed") \/ ConnEnds("tls-failed")
    BY DEF TransportOpens
  <2> QED
    BY <2>1, <2>2
<1>3. ASSUME NEW reason \in ConnResults \ {"connected"}, ConnEnds(reason)
      PROVE  FetchInv'
  BY <1>1, <1>3, ConnEndsKeeps DEF Connecting
<1>4. CASE options.proxy # None /\ Handshake(None)
  BY <1>1, <1>4, HandshakeKeeps
<1>5. ASSUME NEW peer \in Peers, MatchesPeer(options.policy, conn.address, peer), Handshake(peer)
      PROVE  FetchInv'
  BY <1>1, <1>5, HandshakeKeeps
<1> QED
  BY <1>2, <1>3, <1>4, <1>5

\* TLS is established, or fails.
LEMMA SecuredKeeps ==
  ASSUME FetchInv, Secured
  PROVE  FetchInv'
<1>1. conn.stage = "handshake" /\ ConnUnchanged
  BY DEF Secured
<1>2. CASE ConnEnds("tls-failed") \/ ConnEnds("peer-mismatch")
  BY <1>1, <1>2, ConnEndsKeeps DEF Connecting, ConnResults
<1>3. CASE /\ options.proxy = None => MatchesPeer(options.policy, conn.address, conn.peer)
           /\ conn' = [conn EXCEPT !.stage = "settled", !.timer = Never, !.result = "connected"]
           /\ tls' = "open" /\ Settles /\ UNCHANGED raw
  <2> USE DEF FetchInv
  <2>1. /\ phase = "connecting" /\ raced = None /\ stop = None /\ Cleared /\ tls # "none"
        /\ reader = NoReader
    BY <1>1, NoneLemma DEF Awaited, Stopped, Dialled, Connecting
  <2>2. /\ conn' \in [address : Addresses \cup {None}, peer : Peers \cup {None},
                      stage : {"settled"}, timer : {Never}, result : {"connected"}]
        /\ conn'.address = conn.address /\ conn'.peer = conn.peer
    BY <1>3 DEF Typed
  <2>3. /\ UNCHANGED <<now, input, options, cancelled, phase, started, timer, stop, result, dns, reader, raw>>
        /\ tls' = "open" /\ raced' = "phase"
    BY <1>1, <1>3, <2>1 DEF ConnUnchanged, Settles
  <2>4. Typed'
    BY <2>2, <2>3 DEF Typed, Timed, ConnResults
  <2>5. Awaited'
    BY <2>1, <2>2, <2>3, NoneLemma DEF Awaited, Cleared, NoReader, Connecting, Reading
  <2>6. Stopped' /\ Quiet'
    BY <2>1, <2>2, <2>3, NoneLemma DEF Stopped, Quiet
  <2>7. Settled' /\ Resolved'
    BY <2>1, <2>2, <2>3, NoneLemma DEF Settled, Resolved, ConnResults
  <2>8. Dialled'
    BY <2>1, <2>2, <2>3 DEF Dialled, Cleared, Connecting
  <2> QED
    BY <2>4, <2>5, <2>6, <2>7, <2>8
<1> QED
  BY <1>1, <1>2, <1>3 DEF Secured

\* The peer closes a socket that is still to be handed over.
LEMMA PeerClosesKeeps ==
  ASSUME FetchInv, PeerCloses
  PROVE  FetchInv'
<1> USE DEF FetchInv
<1>1. /\ phase = "connecting" /\ tls = "open" /\ raw' = "closed" /\ tls' = "closed"
      /\ UNCHANGED <<now, input, options, cancelled, phase, started, timer, stop, result, dns, reader, conn, raced>>
  BY DEF PeerCloses, ConnUnchanged
<1>2. Typed'
  BY <1>1 DEF Typed
<1>3. Awaited' /\ Stopped' /\ Quiet'
  BY <1>1 DEF Awaited, Stopped, Quiet, Cleared, Live
<1>4. Settled' /\ Resolved' /\ Dialled'
  BY <1>1 DEF Settled, Resolved, Dialled, Cleared
<1> QED
  BY <1>2, <1>3, <1>4

\* The connector fails, or its time is over.
LEMMA ConnectionEndsKeeps ==
  ASSUME FetchInv, ConnectionFails \/ ConnectTimer
  PROVE  FetchInv'
<1>1. {"connection-failed", "tls-failed", "connect-timeout"} \subseteq ConnResults \ {"connected"}
  BY DEF ConnResults
<1>2. CASE ConnectionFails
  BY <1>1, <1>2, ConnEndsKeeps DEF ConnectionFails, Connecting
<1>3. CASE ConnectTimer
  <2>1. conn.stage \in Connecting
    BY <1>3 DEF ConnectTimer, Due, FetchInv, Quiet
  <2> QED
    BY <1>1, <1>3, <2>1, ConnEndsKeeps DEF ConnectTimer
<1> QED
  BY <1>2, <1>3

\* A tunnel that comes too late is closed.
LEMMA LateTunnelKeeps ==
  ASSUME FetchInv, LateTunnel
  PROVE  FetchInv'
<1> USE DEF FetchInv
<1>1. /\ raw = "orphan" /\ raw' = "closed"
      /\ UNCHANGED <<now, input, options, cancelled, phase, started, timer, stop, result, dns, reader, conn, raced, tls>>
  BY DEF LateTunnel, fetchVars
<1>2. Typed'
  BY <1>1 DEF Typed
<1>3. Awaited' /\ Stopped' /\ Quiet'
  BY <1>1 DEF Awaited, Stopped, Quiet, Cleared, Live
<1>4. Settled' /\ Resolved' /\ Dialled'
  BY <1>1 DEF Settled, Resolved, Dialled, Cleared
<1> QED
  BY <1>2, <1>3, <1>4

\* The continuation of the connection.
LEMMA AfterConnectKeeps ==
  ASSUME FetchInv, AfterConnect
  PROVE  FetchInv'
<1>1. phase = "connecting" /\ raced # None
  BY DEF AfterConnect
<1>2. \/ \E outcome : Finish(outcome)
      \/ /\ raced # "stopped" /\ conn.result = "connected" /\ GivenUp = None /\ tls # "closed"
         /\ phase' = "reading" /\ raced' = None
         /\ reader' = [NoReader EXCEPT !.stage = "headers", !.started = now, !.budget = Remaining,
                                       !.deadline = now + Remaining,
                                       !.headers = now + Least(HeaderLimit, Remaining)]
         /\ UNCHANGED <<now, input, options, cancelled, started, timer, stop, result, dns, conn, raw, tls>>
  BY DEF AfterConnect
<1>3. raced \in {"stopped", "phase"}
  BY <1>1 DEF FetchInv, Typed
<1> QED
  BY <1>1, <1>2, <1>3, FinishKeeps, ReadingKeeps


\* The reader goes on: a step of it that neither settles nor closes anything.
LEMMA ReaderKeeps ==
  ASSUME FetchInv, reader.stage \in Reading, ReadUnchanged, UNCHANGED <<raw, tls, raced>>,
         reader' \in [stage : {"body"}, started : Nat, budget : Int, size : 0..MaxBody,
                      deadline : Timed, headers : Timed, idle : Timed, result : ReadResults \cup {None}]
  PROVE  FetchInv'
<1> USE DEF FetchInv
<1>1. /\ UNCHANGED <<now, input, options, cancelled, phase, started, timer, stop, result, dns, conn, raw, tls, raced>>
      /\ phase = "reading" /\ raced = None
  BY DEF ReadUnchanged, Awaited
<1>2. /\ reader'.stage = "body" /\ reader'.size \in Nat /\ reader'.size <= MaxBody
      /\ reader' \in [stage : {"body"}, started : Nat, budget : Int, size : Nat,
                      deadline : Timed, headers : Timed, idle : Timed, result : ReadResults \cup {None}]
  BY DirectoryFetchAssumption
<1>3. Typed'
  BY <1>1, <1>2 DEF Typed, Reading
<1>4. Awaited'
  BY <1>1, <1>2, NoneLemma DEF Awaited, Cleared, Connecting, Reading
<1>5. Stopped' /\ Quiet'
  BY <1>1, <1>2, NoneLemma DEF Stopped, Quiet, Reading
<1>6. Settled' /\ Resolved' /\ Dialled'
  BY <1>1, <1>2, NoneLemma DEF Settled, Resolved, Dialled, Cleared
<1> QED
  BY <1>3, <1>4, <1>5, <1>6

\* The headers of the response are accepted, or refused.
LEMMA HeadersArriveKeeps ==
  ASSUME FetchInv, HeadersArrive
  PROVE  FetchInv'
<1>1. reader.stage = "headers" /\ ReadUnchanged
  BY DEF HeadersArrive
<1>2. CASE /\ reader' = [reader EXCEPT !.stage = "body", !.headers = Never, !.idle = now + IdleLimit]
           /\ UNCHANGED <<raw, tls, raced>>
  <2>1. now + IdleLimit \in Int /\ MaxBody \in Nat
    BY DirectoryFetchAssumption DEF FetchInv, Typed
  <2>2. reader.size \in 0..MaxBody
    BY <2>1 DEF FetchInv, Typed, Settled
  <2>3. reader' \in [stage : {"body"}, started : Nat, budget : Int, size : 0..MaxBody,
                     deadline : Timed, headers : Timed, idle : Timed, result : ReadResults \cup {None}]
    BY <1>2, <2>1, <2>2 DEF FetchInv, Typed, Timed
  <2> QED
    BY <1>1, <1>2, <2>3, ReaderKeeps DEF Reading
<1>3. CASE \E reason \in {"status-rejected", "encoding-rejected", "media-type-rejected", "response-limit"} :
             ReadEnds(reason)
  BY <1>1, <1>3, ReadEndsKeeps DEF Reading, ReadResults
<1> QED
  BY <1>2, <1>3 DEF HeadersArrive

\* More of the body arrives.
LEMMA DataArrivesKeeps ==
  ASSUME FetchInv, DataArrives
  PROVE  FetchInv'
<1>1. reader.stage = "body" /\ ReadUnchanged
  BY DEF DataArrives
<1>2. reader.size \in Nat /\ MaxBody \in Nat
  BY DirectoryFetchAssumption DEF FetchInv, Typed
<1>3. CASE reader.size + 1 > MaxBody
  BY <1>1, <1>3, ReadEndsKeeps DEF DataArrives, Reading, ReadResults
<1>4. CASE ~(reader.size + 1 > MaxBody)
  <2>1. /\ reader' = [reader EXCEPT !.size = @ + 1, !.idle = now + IdleLimit]
        /\ UNCHANGED <<raw, tls, raced>>
    BY <1>4 DEF DataArrives
  <2>2. now + IdleLimit \in Int /\ reader.size + 1 \in 0..MaxBody
    BY <1>2, <1>4, DirectoryFetchAssumption DEF FetchInv, Typed
  <2>3. reader' \in [stage : {"body"}, started : Nat, budget : Int, size : 0..MaxBody,
                     deadline : Timed, headers : Timed, idle : Timed, result : ReadResults \cup {None}]
    BY <1>1, <2>1, <2>2 DEF FetchInv, Typed, Timed
  <2> QED
    BY <1>1, <2>1, <2>3, ReaderKeeps DEF Reading
<1> QED
  BY <1>3, <1>4

\* The response ends, whole or not, or fails, or has been too long.
LEMMA ResponseSettlesKeeps ==
  ASSUME FetchInv, ResponseEnds \/ ResponseFails \/ ReadTimer
  PROVE  FetchInv'
<1>1. {"response-failed", "response-timeout", "response"} \subseteq ReadResults
  BY DEF ReadResults
<1>2. ReadUnchanged /\ \E outcome \in ReadResults : ReadEnds(outcome)
  BY <1>1 DEF ResponseEnds, BodyEnds, ResponseFails, ReadTimer
<1>3. reader.stage \in Reading
  BY DEF ResponseEnds, ResponseFails, ReadTimer, Due, Reading, FetchInv, Quiet
<1> QED
  BY <1>2, <1>3, ReadEndsKeeps

\* The continuation of the response.
LEMMA AfterReadKeeps ==
  ASSUME FetchInv, AfterRead
  PROVE  FetchInv'
<1>1. phase = "reading" /\ \E outcome : Finish(outcome)
  BY DEF AfterRead
<1> QED
  BY <1>1, FinishKeeps

\* Time passes.
LEMMA TickKeeps ==
  ASSUME FetchInv, Tick
  PROVE  FetchInv'
<1> USE DEF FetchInv
<1>1. /\ now' = now + 1
      /\ UNCHANGED <<input, options, cancelled, phase, started, timer, stop, raced, result, dns, conn, raw, tls, reader>>
  BY DEF Tick, fetchVars
<1>2. Typed'
  BY <1>1 DEF Typed
<1>3. Awaited' /\ Stopped' /\ Quiet'
  BY <1>1 DEF Awaited, Stopped, Quiet, Cleared
<1>4. Settled' /\ Resolved' /\ Dialled'
  BY <1>1 DEF Settled, Resolved, Dialled, Cleared
<1> QED
  BY <1>2, <1>3, <1>4

\* The caller cancels.
LEMMA CancelKeeps ==
  ASSUME FetchInv, Cancel
  PROVE  FetchInv'
<1> USE DEF FetchInv
<1>1. phase # "done" /\ cancelled' = TRUE
  BY DEF Cancel
<1>2. CASE phase = "idle"
  <2>1. UNCHANGED <<now, input, options, phase, started, timer, stop, raced, result, dns, conn, raw, tls, reader>>
    BY <1>2 DEF Cancel, fetchVars
  <2>2. Typed'
    BY <1>1, <2>1 DEF Typed
  <2>3. Awaited' /\ Stopped' /\ Quiet'
    BY <1>1, <2>1 DEF Awaited, Stopped, Quiet, Cleared
  <2>4. Settled' /\ Resolved' /\ Dialled'
    BY <2>1 DEF Settled, Resolved, Dialled, Cleared
  <2> QED
    BY <2>2, <2>3, <2>4
<1>3. CASE phase # "idle"
  <2>1. Stop("aborted") /\ timer' \in Timed
    BY <1>3 DEF Cancel, Typed
  <2> QED
    BY <1>1, <1>3, <2>1, StopKeeps
<1> QED
  BY <1>2, <1>3

\* The time for the whole fetch is over.
LEMMA TotalTimerKeeps ==
  ASSUME FetchInv, TotalTimer
  PROVE  FetchInv'
<1>1. timer # Never /\ timer' = Never /\ Stop("total-timeout") /\ cancelled' = cancelled
  BY DEF TotalTimer, Due
<1>2. phase \notin {"idle", "done"}
  BY <1>1 DEF FetchInv, Awaited
<1>3. timer' \in Timed /\ cancelled' \in BOOLEAN
  BY <1>1 DEF Timed, FetchInv, Typed
<1> QED
  BY <1>1, <1>2, <1>3, StopKeeps

\* Every step of the fetch keeps the invariant.
LEMMA FetchStep ==
  ASSUME FetchInv, Next \/ UNCHANGED vars
  PROVE  FetchInv'
<1>1. CASE Tick \/ Start \/ Cancel
  BY <1>1, TickKeeps, StartKeeps, CancelKeeps
<1>2. CASE Timers
  BY <1>2, TotalTimerKeeps, DnsTimerKeeps, ConnectionEndsKeeps, ResponseSettlesKeeps DEF Timers
<1>3. CASE Continues
  BY <1>3, AfterResolveKeeps, AfterConnectKeeps, AfterReadKeeps DEF Continues
<1>4. CASE Network
  BY <1>4, DnsAnswersKeeps, TransportOpensKeeps, SecuredKeeps, PeerClosesKeeps, ConnectionEndsKeeps,
     HeadersArriveKeeps, DataArrivesKeeps, ResponseSettlesKeeps DEF Network
<1>5. CASE LateTunnel
  BY <1>5, LateTunnelKeeps
<1>6. CASE UNCHANGED vars
  <2> USE DEF FetchInv
  <2>1. UNCHANGED <<now, input, options, cancelled, phase, started, timer, stop, raced, result, dns, conn, raw, tls, reader>>
    BY <1>6 DEF vars, fetchVars
  <2>2. Typed'
    BY <2>1 DEF Typed
  <2>3. Awaited' /\ Stopped' /\ Quiet'
    BY <2>1 DEF Awaited, Stopped, Quiet, Cleared
  <2>4. Settled' /\ Resolved' /\ Dialled'
    BY <2>1 DEF Settled, Resolved, Dialled, Cleared
  <2> QED
    BY <2>2, <2>3, <2>4
<1> QED
  BY <1>1, <1>2, <1>3, <1>4, <1>5, <1>6 DEF Next


-----------------------------------------------------------------------------
(* What the invariant says of a fetch.                                      *)

\* The invariant in every state of a fetch.
LEMMA FetchHolds == Spec => []FetchInv
<1>1. FetchInv /\ [Next]_vars => FetchInv'
  BY FetchStep
<1> QED
  BY <1>1, FetchInit, PTL DEF Spec

\* A fetch with what is made of its response takes the steps of a fetch, or none.
THEOREM EvidenceIsFetch == EvidenceSpec => Spec
<1>1. EvidenceInit => Init
  BY DEF EvidenceInit
<1>2. [Meanwhile(Next) \/ Prepare]_allVars => [Next]_vars
  BY DEF Meanwhile, Prepare, allVars
<1> QED
  BY <1>1, <1>2, PTL DEF EvidenceSpec, Spec

\* fetchDirectoryOnce and the connectors leave no socket or timer behind: not when
\* the fetch is over, and no socket when it has been stopped.
THEOREM NothingLeaksHolds == EvidenceSpec => []NothingLeaks
<1>1. FetchInv => NothingLeaks
  <2> SUFFICES ASSUME FetchInv PROVE NothingLeaks
    OBVIOUS
  <2>1. phase = "done" \/ raced = "stopped" => {raw, tls} \cap {"opening", "open"} = {}
    BY DEF FetchInv, Quiet, Live
  <2>2. ASSUME phase = "done"
        PROVE  {timer, conn.timer, reader.deadline, reader.headers, reader.idle} = {Never}
    <3>1. timer = Never /\ conn.stage \notin Connecting /\ reader.stage \notin Reading
      BY <2>2 DEF FetchInv, Awaited
    <3> QED
      BY <3>1 DEF FetchInv, Quiet
  <2> QED
    BY <2>1, <2>2 DEF NothingLeaks
<1> QED
  BY <1>1, FetchHolds, EvidenceIsFetch, PTL

\* The outcome of a fetch, when it is a response.
LEMMA OutcomeLemma ==
  ASSUME FetchInv, Continues, result' # result
  PROVE  /\ result = None
         /\ result' = "response" => /\ phase = "reading" /\ ~cancelled /\ stop = None
                                    /\ now - started < options.total /\ reader.size <= MaxBody
<1> USE DEF FetchInv
<1>1. /\ phase \notin {"idle", "done"} /\ result = None /\ reader.size <= MaxBody
      /\ stop # "response" /\ GivenUp # "response"
  <2>1. /\ phase \notin {"idle", "done"}
    BY DEF Continues, AfterResolve, AfterConnect, AfterRead
  <2>2. stop # "response"
    <3>1. None # "response"
      BY NoneLemma DEF ReadResults
    <3> QED
      BY <3>1 DEF Typed
  <2>3. GivenUp # "response"
    BY NoneLemma DEF GivenUp, ReadResults
  <2> QED
    BY <2>1, <2>2, <2>3 DEF Awaited, Settled
<1>2. CASE AfterResolve
  <2>1. \/ result' = stop
        \/ raced # "stopped" /\ dns.result.kind = "failed" /\ result' = dns.result.reason
        \/ result' = GivenUp
    BY <1>2 DEF AfterResolve, Finish, Dial
  <2>2. ASSUME raced # "stopped", dns.result.kind = "failed"
        PROVE  dns.result.reason # "response"
    <3>1. raced = "phase" /\ phase = "resolving"
      BY <1>2, <2>2 DEF AfterResolve, Typed
    <3>2. dns.result \in DnsResults
      BY <3>1 DEF Settled, Typed
    <3> QED
      BY <2>2, <3>2 DEF DnsResults
  <2> QED
    BY <1>1, <2>1, <2>2
<1>3. CASE AfterConnect
  <2>1. result' \in {stop, conn.result, GivenUp, "response-failed"}
    BY <1>3 DEF AfterConnect, Finish
  <2>2. conn.result # "response"
    <3>1. "response" \notin ConnResults /\ None # "response"
      BY NoneLemma DEF ConnResults, ReadResults
    <3> QED
      BY <3>1 DEF Typed
  <2> QED
    BY <1>1, <2>1, <2>2
<1>4. CASE AfterRead
  <2>1. \/ result' \in {stop, GivenUp}
        \/ result' = reader.result /\ (reader.result = "response" => GivenUp = None)
    BY <1>4 DEF AfterRead, Finish
  <2>2. GivenUp = None => ~cancelled /\ stop = None /\ now - started < options.total
    BY <1>1, GoesOn
  <2>3. phase = "reading"
    BY <1>4 DEF AfterRead
  <2> QED
    BY <1>1, <2>1, <2>2, <2>3
<1> QED
  BY <1>2, <1>3, <1>4 DEF Continues

\* A response that comes too late, for a caller that has cancelled, or beyond the
\* limit on its size, is none: remaining() is asked again before it is returned.
THEOREM ResponseInTimeHolds == EvidenceSpec => ResponseInTime
<1> DEFINE Answered ==
      /\ result = None
      /\ result' = "response" => /\ ~cancelled /\ stop = None /\ now - started < options.total
                                 /\ reader.size <= MaxBody
<1>1. FetchInv /\ [Next]_vars => [result' # result => Answered]_vars
  <2> SUFFICES ASSUME FetchInv, Next, result' # result
               PROVE  Answered
    BY DEF vars, fetchVars
  <2>1. CASE Start
    <3>1. phase = "idle" /\ result = None
      BY <2>1 DEF Start, FetchInv, Awaited
    <3>2. result' = Refusal /\ Refusal # None
      BY <2>1 DEF Start
    <3>3. Refusal \in Refusals
      <4>1. Refusal = None \/ Refusal \in {"origin-denied", "aborted"}
              \/ (SnapshotOptions(input).kind = "invalid" /\ Refusal = SnapshotOptions(input).code)
        BY DEF Refusal
      <4>2. SnapshotOptions(input).kind = "invalid" => SnapshotOptions(input).code \in Refusals
        BY SnapshotLemma
      <4> QED
        BY <3>2, <4>1, <4>2 DEF Refusals
    <3>4. result' # "response"
      BY <3>2, <3>3 DEF Refusals
    <3> QED
      BY <3>1, <3>4
  <2>2. CASE Continues
    BY <2>2, OutcomeLemma
  <2>3. CASE Tick \/ Cancel \/ Timers \/ Network \/ LateTunnel
    <3>1. result' = result
      BY <2>3 DEF Tick, Cancel, Timers, Network, LateTunnel, TotalTimer, DnsTimer, ConnectTimer, ReadTimer,
         Stop, fetchVars, ConnUnchanged, ReadUnchanged, DnsAnswers, TransportOpens, Secured, PeerCloses,
         ConnectionFails, HeadersArrive, DataArrives, ResponseEnds, ResponseFails
    <3> QED
      BY <3>1
  <2> QED
    BY <2>1, <2>2, <2>3 DEF Next
<1> QED
  BY <1>1, FetchHolds, EvidenceIsFetch, PTL DEF Spec, ResponseInTime


-----------------------------------------------------------------------------
(* Which addresses are dialled.  That the digits of a text are added up to   *)
(* the number it denotes is taken from TextsDenote.                          *)

\* What the quotient and the remainder are.
LEMMA Quotient ==
  ASSUME NEW x \in Nat, NEW d \in Nat \ {0}
  PROVE  /\ x \div d \in Nat /\ x % d \in 0..(d - 1)
         /\ x = (x \div d) * d + (x % d)
  BY Z3

\* Numbers are in the same block of a size when their quotients agree.
LEMMA SameBlock ==
  ASSUME NEW x \in Nat, NEW y \in Nat, NEW size \in Nat \ {0}
  PROVE  x \div size = y \div size <=> x \in ((y \div size) * size)..((y \div size) * size + size - 1)
<1> DEFINE p == x \div size
           q == y \div size
<1>1. /\ p \in Nat /\ q \in Nat
      /\ \E r \in 0..(size - 1) : x = p * size + r
  BY Quotient
<1>2. p * size \in Nat /\ q * size \in Nat
  BY <1>1, Z3
<1> HIDE DEF p, q
<1>3. /\ p * size <= x /\ x < p * size + size
  BY <1>1, <1>2
<1>4. ASSUME p + 1 <= q
      PROVE  p * size + size <= q * size
  BY <1>1, <1>4, Z3
<1>5. ASSUME q + 1 <= p
      PROVE  q * size + size <= p * size
  BY <1>1, <1>5, Z3
<1>6. p = q <=> x \in (q * size)..(q * size + size - 1)
  <2>1. ASSUME p = q
        PROVE  x \in (q * size)..(q * size + size - 1)
    BY <1>2, <1>3, <2>1
  <2>2. ASSUME x \in (q * size)..(q * size + size - 1)
        PROVE  p = q
    <3>1. q * size <= x /\ x < q * size + size
      BY <1>2, <2>2
    <3>2. ~(p + 1 <= q) /\ ~(q + 1 <= p)
      BY <1>2, <1>3, <1>4, <1>5, <3>1
    <3> QED
      BY <1>1, <3>2
  <2> QED
    BY <2>1, <2>2
<1> QED
  BY <1>6 DEF p, q

\* The shift of prefix() finds the interval of the prefix.
LEMMA CoversIsWithin ==
  ASSUME TextsDenote, NEW prefix, PrefixOk(prefix), NEW text \in Addresses \cup Peers
  PROVE  Covers(prefix, ParseAddress(text)) <=> Within(prefix, text)
<1> DEFINE address == ParseAddress(text)
           size == 2^(Width(prefix.family) - prefix.bits)
<1>1. address.family = text.family
  BY DEF ParseAddress
<1>2. CASE text.family # prefix.family
  BY <1>1, <1>2 DEF Covers, Within
<1>3. CASE text.family = prefix.family
  <2>1. address.value = Denotes(text) /\ Denotes(text) \in Nat
    BY <1>3 DEF TextsDenote, PrefixOk
  <2>2. Width(4) \in Nat /\ Width(6) \in Nat
    BY AddressPolicyAssumption, Z3 DEF Width
  <2>3. Width(prefix.family) - prefix.bits \in 0..Width(4) \cup 0..Width(6)
    BY <2>2 DEF PrefixOk
  <2>4. size \in Nat \ {0}
    BY <2>3 DEF TextsDenote
  <2>5. prefix.value \in Nat
    <3>1. 2^Width(prefix.family) \in Nat
      BY <2>2 DEF PrefixOk, TextsDenote
    <3> QED
      BY <3>1 DEF PrefixOk, Values
  <2>6. Covers(prefix, address) <=> address.value \div size = prefix.value \div size
    BY <1>1, <1>3 DEF Covers
  <2>7. Within(prefix, text) <=>
          Denotes(text) \in ((prefix.value \div size) * size)..((prefix.value \div size) * size + size - 1)
    BY <1>3 DEF Within
  <2> HIDE DEF address, size
  <2>8. address.value \div size = prefix.value \div size <=>
          address.value \in ((prefix.value \div size) * size)..((prefix.value \div size) * size + size - 1)
    BY <2>1, <2>4, <2>5, SameBlock
  <2> QED
    BY <2>1, <2>6, <2>7, <2>8 DEF address
<1> QED
  BY <1>2, <1>3

\* An address that the policy allows may be reached.
LEMMA AllowsIsReachable ==
  ASSUME TextsDenote, NEW names, NEW text \in Addresses \cup Peers, Allows(names, text),
         \A i \in DOMAIN names : names[i] \in DOMAIN Exceptions
  PROVE  Reachable(names, text) /\ text.family \in {4, 6}
<1> DEFINE address == ParseAddress(text)
<1>1. address.family = text.family
  BY DEF ParseAddress
<1> HIDE DEF address
<1>2. text.family # 0 /\ Allowed(names, address)
  BY DEF Allows, address
<1>3. CASE Admitted(address)
  <2>1. text.family = 4 \/ (text.family = 6 /\ Within(Envelope, text))
    BY <1>1, <1>3, AddressPolicyAssumption, CoversIsWithin DEF Admitted, Covers, address
  <2>2. \A prefix \in Excluded : ~Within(prefix, text)
    BY <1>3, AddressPolicyAssumption, CoversIsWithin DEF Admitted, address
  <2> QED
    BY <1>2, <2>1, <2>2 DEF Reachable
<1>4. CASE \E i \in DOMAIN names : Covers(Exceptions[names[i]], address)
  <2>1. PICK i \in DOMAIN names : Covers(Exceptions[names[i]], address)
    BY <1>4
  <2>2. PrefixOk(Exceptions[names[i]])
    BY AddressPolicyAssumption
  <2>3. Within(Exceptions[names[i]], text)
    BY <2>1, <2>2, CoversIsWithin DEF address
  <2>4. text.family \in {4, 6}
    BY <1>1, <2>1, <2>2 DEF Covers, PrefixOk
  <2> QED
    BY <2>3, <2>4 DEF Reachable
<1> QED
  BY <1>2, <1>3, <1>4 DEF Allowed

\* A peer that matches is the host that was dialled.
LEMMA MatchIsSameHost ==
  ASSUME TextsDenote, NEW names, NEW pinned \in Addresses, NEW peer \in Peers,
         MatchesPeer(names, pinned, peer)
  PROVE  peer.family # 0 /\ SameHost(pinned, peer)
<1> DEFINE expected == ParseAddress(pinned)
           actual == ParseAddress(peer)
<1>1. /\ peer.family # 0 /\ pinned.family # 0
      /\ \/ expected = actual
         \/ /\ expected.family = 4 /\ actual.family = 6
            /\ actual.value \div 2^Width(4) = MappedPrefix
            /\ actual.value % 2^Width(4) = expected.value
  BY DEF MatchesPeer, Allows
<1>2. /\ expected.family = pinned.family /\ actual.family = peer.family
      /\ expected.value = Denotes(pinned) /\ actual.value = Denotes(peer)
      /\ Denotes(pinned) \in Nat /\ Denotes(peer) \in Nat
  BY <1>1 DEF TextsDenote, ParseAddress
<1>3. CASE expected = actual
  <2>1. pinned.family = peer.family /\ Denotes(pinned) = Denotes(peer)
    BY <1>2, <1>3
  <2> QED
    BY <1>1, <1>2, <2>1 DEF SameHost
<1>4. CASE /\ expected.family = 4 /\ actual.family = 6
           /\ actual.value \div 2^Width(4) = MappedPrefix
           /\ actual.value % 2^Width(4) = expected.value
  <2> DEFINE size == 2^Width(4)
  <2>1. Width(4) \in Nat
    BY AddressPolicyAssumption DEF Width
  <2>2. size \in Nat \ {0}
    BY <2>1 DEF TextsDenote
  <2> HIDE DEF expected, actual
  <2>3. Denotes(peer) \div size = MappedPrefix /\ Denotes(peer) % size = Denotes(pinned)
    BY <1>2, <1>4
  <2> HIDE DEF size
  <2>4. Denotes(peer) = MappedPrefix * size + Denotes(pinned)
    BY <1>2, <2>2, <2>3, Quotient
  <2>5. MappedPrefix * size \in Nat
    BY <2>2, AddressPolicyAssumption, Z3
  <2>6. pinned.family # peer.family
    BY <1>2, <1>4
  <2>7. SameHost(pinned, peer) <=> Denotes(peer) = Denotes(pinned) + MappedPrefix * size
    BY <2>6 DEF SameHost, size
  <2> QED
    BY <1>1, <1>2, <2>4, <2>5, <2>7
<1> QED
  BY <1>1, <1>3, <1>4


\* The exceptions that a policy names are known.
LEMMA PolicyLemma ==
  ASSUME NEW given, SnapshotOptions(given).kind = "options"
  PROVE  \A i \in DOMAIN given.policy : given.policy[i] \in DOMAIN Exceptions
<1>1. ValidPolicy(given.policy)
  BY DEF SnapshotOptions, InvalidOptions
<1> QED
  BY <1>1 DEF ValidPolicy

\* Only the first address of a complete answer is dialled, when every address of
\* both families may be reached and the origin is admitted; TLS is begun only with
\* the host that was dialled, and a request made only over TLS.
THEOREM DialsOnlyAdmittedHolds ==
  ASSUME TextsDenote
  PROVE  EvidenceSpec => []DialsOnlyAdmitted
<1>1. FetchInv => DialsOnlyAdmitted
  <2> SUFFICES ASSUME FetchInv PROVE DialsOnlyAdmitted
    OBVIOUS
  <2> USE DEF FetchInv
  <2>1. ASSUME conn.address # None
        PROVE  LET all == dns.ipv4 \o dns.ipv6
               IN /\ options.mode = "open" \/ \E i \in DOMAIN input.allowed : input.allowed[i] = Origin
                  /\ Len(all) <= MaxAddresses /\ conn.address = all[1]
                  /\ \A i \in DOMAIN all : Reachable(input.policy, all[i])
    <3> DEFINE all == dns.result.addresses
    <3>1. /\ Cleared /\ dns.result # None /\ dns.result.kind = "addresses"
          /\ conn.address = all[1]
      BY <2>1 DEF Dialled
    <3>2. /\ all = dns.ipv4 \o dns.ipv6 /\ Len(all) <= MaxAddresses
          /\ \A i \in DOMAIN all : Allows(input.policy, all[i])
      BY <3>1 DEF Resolved
    <3>3. all \in Seq(Addresses)
      BY <3>1 DEF Typed, DnsResults
    <3>4. \A i \in DOMAIN input.policy : input.policy[i] \in DOMAIN Exceptions
      BY <3>1, PolicyLemma DEF Cleared
    <3> HIDE DEF all
    <3>5. ASSUME NEW i \in DOMAIN all
          PROVE  Reachable(input.policy, all[i])
      <4>1. all[i] \in Addresses /\ Allows(input.policy, all[i])
        <5>1. \A j \in DOMAIN all : all[j] \in Addresses
          BY <3>3
        <5> QED
          BY <3>2, <5>1
      <4> QED
        BY <3>4, <4>1, AllowsIsReachable
    <3> QED
      BY <3>1, <3>2, <3>5 DEF Cleared
  <2>2. ASSUME tls # "none", input.proxy = None
        PROVE  conn.peer.family # 0 /\ SameHost(conn.address, conn.peer)
    <3>1. /\ conn.address # None /\ conn.peer \in Peers
          /\ MatchesPeer(input.policy, conn.address, conn.peer)
      BY <2>2 DEF Dialled
    <3>2. conn.address \in Addresses
      BY <3>1 DEF Typed
    <3> QED
      BY <3>1, <3>2, MatchIsSameHost
  <2>3. reader.stage # "none" => conn.result = "connected"
    BY DEF Awaited
  <2> QED
    BY <2>1, <2>2, <2>3 DEF DialsOnlyAdmitted
<1> QED
  BY <1>1, FetchHolds, EvidenceIsFetch, PTL


-----------------------------------------------------------------------------
(* Which keys are found.                                                     *)

\* A document that is loaded has nothing but valid entries, and those of Ed25519
\* are found in it.
LEMMA LoadedLemma ==
  ASSUME NEW document, NEW format, LoadJwks(document, format).kind = "loaded"
  PROVE  /\ \A i \in DOMAIN document.keys : ValidEntry(document.keys[i], format)
         /\ \A t : LookupKey(LoadJwks(document, format), t) = "found" <=>
              \E i \in DOMAIN document.keys : Selectable(document.keys[i]) /\ Thumbprint(document.keys[i]) = t
<1> DEFINE keys == document.keys
           bad == {i \in DOMAIN keys : ~ValidEntry(keys[i], format)}
           entry(i) == [thumbprint |-> Thumbprint(keys[i]), keyIndex |-> i,
                        knownTestKey |-> Thumbprint(keys[i]) \in KnownTestKeys]
           found == {entry(i) : i \in {j \in DOMAIN keys : Selectable(keys[j])}}
           skipped == {[thumbprint |-> Thumbprint(keys[i]), keyIndex |-> i,
                        reason |-> SkipReason(keys[i], format)] :
                          i \in {j \in DOMAIN keys : ~Selectable(keys[j])}}
<1> HIDE DEF bad, found, skipped
<1>1. LoadJwks(document, format) =
        IF document.bytes > MaxJwksBytes \/ ~document.json \/ Len(keys) > MaxKeys THEN InvalidJwks(Absent)
        ELSE IF bad # {} THEN InvalidJwks(CHOOSE i \in bad : \A j \in bad : i <= j)
        ELSE [kind |-> "loaded", keys |-> found, skipped |-> skipped]
  BY DEF LoadJwks, bad, found, skipped
<1>2. \A index : InvalidJwks(index).kind # "loaded"
  BY DEF InvalidJwks
<1>3. /\ bad = {}
      /\ LoadJwks(document, format) = [kind |-> "loaded", keys |-> found, skipped |-> skipped]
  BY <1>1, <1>2
<1>4. \A i \in DOMAIN keys : ValidEntry(keys[i], format)
  BY <1>3 DEF bad
<1>5. ASSUME NEW t
      PROVE  LookupKey(LoadJwks(document, format), t) = "found" <=> \E key \in found : key.thumbprint = t
  BY <1>3 DEF LookupKey
<1>6. ASSUME NEW t
      PROVE  (\E key \in found : key.thumbprint = t) <=>
               \E i \in DOMAIN keys : Selectable(keys[i]) /\ Thumbprint(keys[i]) = t
  <2>1. \A i : entry(i).thumbprint = Thumbprint(keys[i])
    OBVIOUS
  <2> HIDE DEF entry
  <2> QED
    BY <2>1 DEF found
<1> QED
  BY <1>4, <1>5, <1>6

\* The entries that have the thumbprint of an Ed25519 key are Ed25519's.
LEMMA SameThumbprint ==
  ASSUME NEW key, NEW other, Selectable(key), Thumbprint(other) = Thumbprint(key)
  PROVE  other.kty = "OKP" /\ other.crv = "Ed25519"
  BY DEF Selectable, Thumbprint

\* A valid entry of Ed25519 is for verification alone.
LEMMA VerificationKey ==
  ASSUME NEW key, NEW format \in Formats, ValidEntry(key, format), key.crv = "Ed25519"
  PROVE  /\ ~key.secret /\ key.use \in {Absent, "sig"}
         /\ key.ops # Absent =>
              /\ \E j \in DOMAIN key.ops : key.ops[j] = "verify"
              /\ \A j \in DOMAIN key.ops : key.ops[j] \notin EncryptionOperations
         /\ key.alg \in {Absent, IF format = "jwks" THEN "EdDSA" ELSE "ed25519"}
<1> DEFINE ops == {key.ops[i] : i \in DOMAIN key.ops}
<1>1. ~key.secret /\ key.use \in {Absent, "sig"}
  BY DEF ValidEntry, PublicJwk, JwkUsage
<1>2. key.alg \in {Absent, SupportedName(format)}
  BY DEF ValidEntry, JwkAlgorithm
<1>3. ASSUME key.ops # Absent
      PROVE  "verify" \in ops /\ ops \subseteq SignatureOperations
  BY <1>3 DEF ValidEntry, JwkUsage
<1>4. SignatureOperations \cap EncryptionOperations = {}
  BY DEF SignatureOperations, EncryptionOperations
<1> QED
  BY <1>1, <1>2, <1>3, <1>4 DEF SupportedName


\* What prepare() reads of a document, for both formats.
Parsed ==
  evidence # None => evidence.sets = [format \in Formats |-> LoadJwks(evidence.response, format)]

\* What is kept of a document is what was read of it.
LEMMA ParsedHolds == EvidenceSpec => []Parsed
<1>1. EvidenceInit => Parsed
  BY DEF EvidenceInit, Parsed
<1>2. Parsed /\ [Meanwhile(Next) \/ Prepare]_allVars => Parsed'
  <2> SUFFICES ASSUME Parsed, [Meanwhile(Next) \/ Prepare]_allVars PROVE Parsed'
    OBVIOUS
  <2>1. CASE evidence' = evidence
    BY <2>1 DEF Parsed
  <2>2. CASE Prepare
    <3>1. PICK honest \in Honest :
            evidence' = [response |-> honest.response, generated |-> honest.generated,
                         sets |-> [format \in Formats |-> LoadJwks(honest.response, format)],
                         freshness |-> CalculateFreshness(honest.response.headers, reader.started,
                                                          received.time, received.wall)]
      BY <2>2 DEF Prepare
    <3>2. /\ evidence'.response = honest.response
          /\ evidence'.sets = [format \in Formats |-> LoadJwks(honest.response, format)]
      BY <3>1
    <3> QED
      BY <3>2 DEF Parsed
  <2> QED
    BY <2>1, <2>2 DEF Meanwhile, allVars
<1> QED
  BY <1>1, <1>2, PTL DEF EvidenceSpec

\* loadJwks and lookup: a document with a secret is no source of keys, whatever is
\* found in one is meant for Ed25519's verification and nothing else by every entry
\* with its thumbprint, and the two formats find the same.
THEOREM SelectedKeysHold == EvidenceSpec => []SelectedKeysSound
<1>1. Parsed => SelectedKeysSound
  <2> SUFFICES ASSUME Parsed, evidence # None
               PROVE  SelectedKeysSound
    BY DEF SelectedKeysSound
  <2> DEFINE keys == evidence.response.keys
             entries(thumbprint) == {i \in DOMAIN keys : Thumbprint(keys[i]) = thumbprint}
             thumbprints == {Thumbprint(keys[i]) : i \in DOMAIN keys}
             found(format) == {t \in thumbprints : LookupKey(evidence.sets[format], t) = "found"}
             loaded == {format \in Formats : evidence.sets[format].kind = "loaded"}
             Meant(key, format) ==
               /\ <<key.kty, key.crv>> = <<"OKP", "Ed25519">>
               /\ key.use \in {Absent, "sig"}
               /\ key.ops # Absent =>
                    /\ \E j \in DOMAIN key.ops : key.ops[j] = "verify"
                    /\ \A j \in DOMAIN key.ops : key.ops[j] \notin EncryptionOperations
               /\ key.alg \in {Absent, IF format = "jwks" THEN "EdDSA" ELSE "ed25519"}
  <2>1. ASSUME NEW format \in loaded
        PROVE  /\ format \in Formats
               /\ \A i \in DOMAIN keys : ValidEntry(keys[i], format)
               /\ \A t : LookupKey(evidence.sets[format], t) = "found" <=>
                    \E i \in DOMAIN keys : Selectable(keys[i]) /\ Thumbprint(keys[i]) = t
    <3>1. format \in Formats /\ evidence.sets[format].kind = "loaded"
      OBVIOUS
    <3>2. evidence.sets[format] = LoadJwks(evidence.response, format)
      BY <3>1 DEF Parsed
    <3> HIDE DEF loaded, keys
    <3>3. LoadJwks(evidence.response, format).kind = "loaded"
      BY <3>1, <3>2
    <3> QED
      BY <3>1, <3>2, <3>3, LoadedLemma DEF keys
  <2> HIDE DEF keys, loaded
  <2>2. ASSUME NEW format \in loaded, NEW t \in found(format), NEW i \in entries(t)
        PROVE  Meant(keys[i], format)
    <3>1. PICK k \in DOMAIN keys : Selectable(keys[k]) /\ Thumbprint(keys[k]) = t
      BY <2>1
    <3>2. keys[i].kty = "OKP" /\ keys[i].crv = "Ed25519"
      BY <3>1, SameThumbprint
    <3>3. format \in Formats /\ ValidEntry(keys[i], format)
      BY <2>1
    <3> QED
      BY <3>2, <3>3, VerificationKey
  <2>3. ASSUME NEW format \in loaded, NEW i \in DOMAIN keys
        PROVE  ~keys[i].secret
    BY <2>1 DEF ValidEntry, PublicJwk
  <2>4. ASSUME loaded = Formats
        PROVE  found("jwks") = found("wg-directory-00")
    <3>1. "jwks" \in loaded /\ "wg-directory-00" \in loaded
      BY <2>4 DEF Formats
    <3> QED
      BY <2>1, <3>1
  <2> HIDE DEF found, entries, Meant
  <2>5. \A format \in loaded :
          /\ \A i \in DOMAIN keys : ~keys[i].secret
          /\ \A t \in found(format) : \A i \in entries(t) : Meant(keys[i], format)
    BY <2>2, <2>3
  <2> QED
    BY <2>4, <2>5 DEF SelectedKeysSound, keys, loaded, found, entries, Meant
<1> QED
  BY <1>1, ParsedHolds, PTL


-----------------------------------------------------------------------------
(* How long a response is used.                                              *)

\* A nonempty set of naturals has a least element.
LEMMA LeastNatural ==
  ASSUME NEW T, T \subseteq Nat, T # {}
  PROVE  LeastOf(T) \in T /\ \A y \in T : LeastOf(T) <= y
<1>1. IsWellFoundedOn(OpToRel(<, Nat), Nat)
  BY NatLessThanWellFounded
<1>2. PICK x \in T : \A y \in T : ~(<<y, x>> \in OpToRel(<, Nat))
  BY <1>1, WFMin
<1>3. ASSUME NEW y \in T PROVE x <= y
  <2>1. y < x => <<y, x>> \in OpToRel(<, Nat)
    BY DEF OpToRel
  <2>2. ~(y < x)
    BY <1>2, <2>1, Zenon
  <2> QED
    BY <2>2
<1> QED
  BY <1>3 DEF LeastOf

\* The lesser of two.
LEMMA LesserLemma ==
  ASSUME NEW a \in Int, NEW b \in Int
  PROVE  LeastOf({a, b}) \in Int /\ LeastOf({a, b}) <= a /\ LeastOf({a, b}) <= b
<1>1. \E x \in {a, b} : \A y \in {a, b} : x <= y
  OBVIOUS
<1> QED
  BY <1>1 DEF LeastOf

\* A whole number of seconds is read from a difference as that number.
LEMMA WholeSeconds ==
  ASSUME NEW n \in Nat, NEW d \in Nat \ {0}
  PROVE  /\ n * d \in Nat
         /\ (n * d) \div d = n
<1>1. n * d \in Nat
  BY Z3
<1>2. (n * d) \div d = n
  BY Z3
<1> QED
  BY <1>1, <1>2

\* What is filled in, and what is left as it was.
LEMMA FilledLemma ==
  ASSUME NEW template \in Seq(HeaderFields), NEW sent \in Int, NEW age \in Nat, NEW skew \in Int
  PROVE  LET headers == Filled(template, sent, sent - age * PerSecond, skew)
         IN /\ DOMAIN headers = DOMAIN template
            /\ \A i \in DOMAIN headers :
                 /\ headers[i].name = template[i].name
                 /\ headers[i].directives = template[i].directives
                 /\ headers[i].value \in Int \cup {Unparsed}
                 /\ headers[i].value # Unparsed =>
                      /\ headers[i].name = "age" => headers[i].value = age
                      /\ headers[i].name = "date" => headers[i].value = sent - age * PerSecond + skew
                      /\ headers[i].name = "expires" =>
                           headers[i].value = sent - age * PerSecond + skew + ExpiresAfter
<1> DEFINE generated == sent - age * PerSecond
           headers == Filled(template, sent, generated, skew)
<1>1. /\ age * PerSecond \in Nat /\ (age * PerSecond) \div PerSecond = age
  BY WholeSeconds, DirectoryEvidenceAssumption
<1>2. generated \in Int /\ (sent - generated) = age * PerSecond /\ ExpiresAfter \in Nat
  BY <1>1, DirectoryEvidenceAssumption
<1>3. (sent - generated) \div PerSecond = age
  BY <1>1, <1>2
<1> HIDE DEF generated
<1>4. DOMAIN headers = DOMAIN template
  BY DEF Filled
<1> HIDE DEF headers
<1>5. ASSUME NEW i \in DOMAIN headers
      PROVE  /\ headers[i].name = template[i].name
             /\ headers[i].directives = template[i].directives
             /\ headers[i].value \in Int \cup {Unparsed}
             /\ headers[i].value # Unparsed =>
                  /\ headers[i].name = "age" => headers[i].value = age
                  /\ headers[i].name = "date" => headers[i].value = generated + skew
                  /\ headers[i].name = "expires" => headers[i].value = generated + skew + ExpiresAfter
  <2> DEFINE value == LET given == template[i].value
                      IN IF given = Unparsed THEN given
                         ELSE CASE template[i].name = "age" -> (sent - generated) \div PerSecond
                                [] template[i].name = "date" -> generated + skew
                                [] template[i].name = "expires" -> generated + skew + ExpiresAfter
                                [] OTHER -> given
  <2>1. template[i] \in HeaderFields
    BY <1>4
  <2>2. headers[i] = [template[i] EXCEPT !.value = value]
    BY <1>4, <1>5 DEF headers, Filled
  <2>3. /\ value \in Int \cup {Unparsed}
        /\ value # Unparsed =>
             /\ template[i].name = "age" => value = age
             /\ template[i].name = "date" => value = generated + skew
             /\ template[i].name = "expires" => value = generated + skew + ExpiresAfter
    <3>1. /\ template[i].value \in Int \cup {Unparsed} /\ age \in Int
          /\ generated + skew \in Int /\ generated + skew + ExpiresAfter \in Int
      BY <1>2, <2>1, DirectoryEvidenceAssumption DEF HeaderFields
    <3>2. CASE template[i].value = Unparsed
      BY <3>2
    <3>3. CASE template[i].value # Unparsed /\ template[i].name = "age"
      BY <1>3, <3>1, <3>3
    <3>4. CASE template[i].value # Unparsed /\ template[i].name = "date"
      BY <3>1, <3>4
    <3>5. CASE template[i].value # Unparsed /\ template[i].name = "expires"
      BY <3>1, <3>5
    <3>6. CASE template[i].value # Unparsed /\ template[i].name \notin {"age", "date", "expires"}
      BY <3>1, <3>6
    <3> QED
      BY <3>2, <3>3, <3>4, <3>5, <3>6
  <2> HIDE DEF value
  <2>4. headers[i].name = template[i].name /\ headers[i].directives = template[i].directives
        /\ headers[i].value = value
    BY <2>1, <2>2 DEF HeaderFields
  <2> QED
    BY <2>3, <2>4
<1> QED
  BY <1>4, <1>5 DEF headers, generated


\* What may still be said of a response that is used at an age.
MayBeUsed(headers, age) ==
  /\ age < MaximumLifetime * PerSecond
  /\ \A i \in DOMAIN headers : headers[i].value # Unparsed
  /\ \A i \in DOMAIN headers : headers[i].name \in {"cache-control", "pragma"} =>
       \A j \in DOMAIN headers[i].directives :
         LET directive == headers[i].directives[j]
         IN /\ directive.name # "no-cache"
            /\ headers[i].name = "cache-control" =>
                 /\ directive.name \notin {"no-store", "private"}
                 /\ directive.name \in {"max-age", "s-maxage"} => age < directive.seconds * PerSecond
  /\ Lifetimes(headers) = {} =>
       age < IF Named(headers, "expires") # {} THEN ExpiresAfter ELSE Fallback * PerSecond

\* Headers that can be read.
Readable(headers) ==
  \A i \in DOMAIN headers :
    /\ headers[i].value \in Int
    /\ headers[i].directives \in Seq([name : STRING, seconds : Nat \cup {Unparsed}])

\* What the headers that have the name say.
LEMMA ValueLemma ==
  ASSUME NEW headers, NEW name, Named(headers, name) # {}
  PROVE  \E i \in DOMAIN headers : headers[i].name = name /\ Value(headers, name) = headers[i].value
<1>1. \E i \in Named(headers, name) : TRUE
  OBVIOUS
<1>2. (CHOOSE i \in Named(headers, name) : TRUE) \in Named(headers, name)
  BY <1>1
<1> QED
  BY <1>2 DEF Value, Named

\* The directives of a header that can be read are looked at.
LEMMA DirectivesLemma ==
  ASSUME NEW headers, Readable(headers), Unparsed \notin Int, NEW names,
         NEW i \in DOMAIN headers, headers[i].name \in names, NEW j \in DOMAIN headers[i].directives
  PROVE  /\ <<i, j>> \in Directives(headers, names)
         /\ DirectiveAt(headers, <<i, j>>) = headers[i].directives[j]
<1>1. headers[i].value # Unparsed
  BY DEF Readable
<1> QED
  BY <1>1 DEF Directives, DirectiveAt

\* The least of the lifetimes is one that the headers give.
LEMMA LifetimesLemma ==
  ASSUME NEW headers, Readable(headers), Unparsed \notin Lifetimes(headers)
  PROVE  /\ Lifetimes(headers) \subseteq Nat
         /\ Lifetimes(headers) # {} =>
              /\ LeastOf(Lifetimes(headers)) \in Nat
              /\ \A s \in Lifetimes(headers) : LeastOf(Lifetimes(headers)) <= s
<1>1. ASSUME NEW s \in Lifetimes(headers)
      PROVE  s \in Nat
  <2>1. PICK at \in Given(headers, {"cache-control"}, {"max-age", "s-maxage"}) :
          s = DirectiveAt(headers, at).seconds
    BY <1>1 DEF Lifetimes
  <2>2. at \in Directives(headers, {"cache-control"})
    BY <2>1 DEF Given
  <2>3. PICK i \in DOMAIN headers : at \in {<<i, j>> : j \in DOMAIN headers[i].directives}
    BY <2>2 DEF Directives
  <2>4. PICK j \in DOMAIN headers[i].directives : at = <<i, j>>
    BY <2>3
  <2>5. headers[i].directives \in Seq([name : STRING, seconds : Nat \cup {Unparsed}])
    BY DEF Readable
  <2>6. headers[i].directives[j] \in [name : STRING, seconds : Nat \cup {Unparsed}]
    <3> DEFINE directives == headers[i].directives
               Parts == [name : STRING, seconds : Nat \cup {Unparsed}]
    <3>1. directives \in Seq(Parts) /\ j \in DOMAIN directives
      BY <2>5
    <3> HIDE DEF directives, Parts
    <3>2. directives[j] \in Parts
      BY <3>1
    <3> QED
      BY <3>2 DEF directives, Parts
  <2>7. DirectiveAt(headers, at) = headers[i].directives[j]
    BY <2>4 DEF DirectiveAt
  <2> QED
    BY <1>1, <2>1, <2>6, <2>7
<1> QED
  BY <1>1, LeastNatural


\* calculateDirectoryFreshness: while a response is fresh, the time since it was
\* generated is less than every lifetime it states.
LEMMA FreshnessLemma ==
  ASSUME NEW template \in Seq(HeaderFields), NEW began \in Nat, NEW at \in Nat, NEW wall \in Int,
         NEW sent \in began..at, NEW age \in Nat, NEW skew \in Int,
         Named(template, "age") = {} => age = 0,
         NEW time \in Int,
         LET headers == Filled(template, sent, sent - age * PerSecond, skew)
         IN IsFresh(CalculateFreshness(headers, began, at, wall), time)
  PROVE  MayBeUsed(Filled(template, sent, sent - age * PerSecond, skew), time - (sent - age * PerSecond))
<1> DEFINE headers == Filled(template, sent, sent - age * PerSecond, skew)
           fresh == CalculateFreshness(headers, began, at, wall)
           older == time - (sent - age * PerSecond)
           life == Lifetime(headers)
           most == MaximumLifetime * PerSecond
           initial == InitialAge(headers, began, at, wall)
           usable == /\ Persist(headers) /\ ~Revalidate(headers)
                     /\ SingleMetadata(headers) /\ MetadataParses(headers)
                     /\ began >= 0 /\ at >= began
<1>1. /\ PerSecond \in Nat \ {0} /\ ExpiresAfter \in Nat /\ Unparsed \notin Int
      /\ most \in Nat /\ Fallback * PerSecond \in Nat /\ age * PerSecond \in Nat
  <2>1. /\ PerSecond \in Nat \ {0} /\ ExpiresAfter \in Nat /\ Unparsed \notin Int
        /\ MaximumLifetime \in Nat /\ Fallback \in Nat
    BY DirectoryEvidenceAssumption
  <2> QED
    BY <2>1, WholeSeconds
<1>2. /\ DOMAIN headers = DOMAIN template
      /\ \A i \in DOMAIN headers :
           /\ headers[i].name = template[i].name
           /\ headers[i].directives = template[i].directives
           /\ headers[i].value \in Int \cup {Unparsed}
           /\ headers[i].value # Unparsed =>
                /\ headers[i].name = "age" => headers[i].value = age
                /\ headers[i].name = "date" => headers[i].value = sent - age * PerSecond + skew
                /\ headers[i].name = "expires" =>
                     headers[i].value = sent - age * PerSecond + skew + ExpiresAfter
  BY FilledLemma
<1> HIDE DEF headers
<1>3. /\ fresh.remaining = IF usable THEN Greater(0, LeastOf({life, most}) - initial) ELSE 0
      /\ fresh.received = at
  BY DEF CalculateFreshness
<1>4. time >= at /\ time - at < fresh.remaining
  BY <1>3 DEF IsFresh, headers
<1> HIDE DEF fresh, usable, life, most, initial
<1>5. /\ usable
      /\ fresh.remaining = Greater(0, LeastOf({life, most}) - initial)
  BY <1>3, <1>4
<1>6. Readable(headers) /\ \A i \in DOMAIN headers : headers[i].value # Unparsed
  <2>1. \A i \in DOMAIN headers : headers[i].value # Unparsed
    BY <1>5 DEF usable, MetadataParses
  <2>2. ASSUME NEW i \in DOMAIN headers
        PROVE  headers[i].directives \in Seq([name : STRING, seconds : Nat \cup {Unparsed}])
    <3>1. template[i] \in HeaderFields
      BY <1>2
    <3> QED
      BY <1>2, <3>1 DEF HeaderFields
  <2> QED
    BY <1>2, <2>1, <2>2 DEF Readable
<1>7. initial \in Int /\ initial >= age * PerSecond + (at - began)
  <2> DEFINE told == IF Named(headers, "age") = {} THEN 0 ELSE Value(headers, "age") * PerSecond
             apparent == IF Named(headers, "date") = {} THEN 0 ELSE wall - Value(headers, "date")
  <2>1. told = age * PerSecond
    <3>1. CASE Named(headers, "age") = {}
      <4>1. Named(template, "age") = {}
        BY <1>2, <3>1 DEF Named
      <4>2. age = 0
        BY <4>1
      <4> QED
        BY <1>1, <3>1, <4>2
    <3>2. CASE Named(headers, "age") # {}
      BY <1>2, <1>6, <3>2, ValueLemma
    <3> QED
      BY <3>1, <3>2
  <2>2. apparent \in Int
    <3>1. CASE Named(headers, "date") # {}
      <4>1. Value(headers, "date") \in Int
        BY <1>6, <3>1, ValueLemma DEF Readable
      <4> QED
        BY <3>1, <4>1
    <3> QED
      BY <3>1
  <2>3. initial = Greater(apparent, told + (at - began))
    BY DEF initial, InitialAge
  <2> HIDE DEF told, apparent
  <2> QED
    BY <1>1, <2>1, <2>2, <2>3 DEF Greater
<1>8. /\ Lifetimes(headers) \subseteq Nat
      /\ Lifetimes(headers) # {} =>
           /\ LeastOf(Lifetimes(headers)) \in Nat
           /\ \A s \in Lifetimes(headers) : LeastOf(Lifetimes(headers)) <= s
  BY <1>5, <1>6, LifetimesLemma DEF usable, MetadataParses
<1>9. /\ life \in Int
      /\ \A s \in Lifetimes(headers) : s \in Nat /\ life <= s * PerSecond
      /\ Lifetimes(headers) = {} =>
           life <= IF Named(headers, "expires") # {} THEN ExpiresAfter ELSE Fallback * PerSecond
  <2>1. CASE Lifetimes(headers) # {}
    <3> DEFINE least == LeastOf(Lifetimes(headers))
    <3>1. life = least * PerSecond
      BY <2>1 DEF life, Lifetime
    <3>2. least \in Nat /\ \A s \in Lifetimes(headers) : s \in Nat /\ least <= s
      BY <1>8, <2>1
    <3> HIDE DEF least
    <3>3. ASSUME NEW s \in Nat, least <= s
          PROVE  least * PerSecond <= s * PerSecond
      BY <1>1, <3>2, <3>3, Z3
    <3>4. least * PerSecond \in Nat
      BY <1>1, <3>2, WholeSeconds
    <3> QED
      BY <2>1, <3>1, <3>2, <3>3, <3>4
  <2>2. CASE Lifetimes(headers) = {} /\ Named(headers, "expires") = {}
    BY <1>1, <2>2 DEF life, Lifetime
  <2>3. CASE Lifetimes(headers) = {} /\ Named(headers, "expires") # {} /\ Named(headers, "date") = {}
    <3>1. life = 0
      BY <2>3 DEF life, Lifetime
    <3> QED
      BY <1>1, <2>3, <3>1
  <2>4. CASE Lifetimes(headers) = {} /\ Named(headers, "expires") # {} /\ Named(headers, "date") # {}
    <3>1. life = Greater(0, Value(headers, "expires") - Value(headers, "date"))
      BY <2>4 DEF life, Lifetime
    <3>2. Value(headers, "expires") = sent - age * PerSecond + skew + ExpiresAfter
      BY <1>2, <1>6, <2>4, ValueLemma
    <3>3. Value(headers, "date") = sent - age * PerSecond + skew
      BY <1>2, <1>6, <2>4, ValueLemma
    <3>4. life = ExpiresAfter
      BY <1>1, <3>1, <3>2, <3>3 DEF Greater
    <3> QED
      BY <1>1, <2>4, <3>4
  <2> QED
    BY <2>1, <2>2, <2>3, <2>4
<1>10. older \in Int /\ older < life /\ older < most
  <2> DEFINE capped == LeastOf({life, most})
  <2>1. capped \in Int /\ capped <= life /\ capped <= most
    <3>1. life \in Int /\ most \in Int
      BY <1>1, <1>9
    <3>2. \A a \in Int, b \in Int :
            LeastOf({a, b}) \in Int /\ LeastOf({a, b}) <= a /\ LeastOf({a, b}) <= b
      BY LesserLemma
    <3> QED
      BY <3>1, <3>2
  <2>2. time - at < Greater(0, capped - initial) /\ time >= at
    BY <1>4, <1>5
  <2> HIDE DEF capped
  <2>3. time - at < capped - initial
    BY <1>7, <2>1, <2>2 DEF Greater
  <2> DEFINE told == age * PerSecond
  <2> HIDE DEF told
  <2>4. told \in Nat /\ initial >= told + (at - began)
    BY <1>1, <1>7 DEF told
  <2>5. time - (sent - told) < capped
    BY <1>7, <2>1, <2>3, <2>4
  <2>6. older = time - (sent - told) /\ older \in Int
    BY <2>4 DEF told
  <2> QED
    BY <1>1, <1>9, <2>1, <2>5, <2>6
<1> HIDE DEF older
<1>11. ASSUME NEW i \in DOMAIN headers, headers[i].name \in {"cache-control", "pragma"},
              NEW j \in DOMAIN headers[i].directives
       PROVE  LET directive == headers[i].directives[j]
              IN /\ directive.name # "no-cache"
                 /\ headers[i].name = "cache-control" =>
                      /\ directive.name \notin {"no-store", "private"}
                      /\ directive.name \in {"max-age", "s-maxage"} => older < directive.seconds * PerSecond
  <2> DEFINE directive == headers[i].directives[j]
  <2>1. /\ <<i, j>> \in Directives(headers, {"cache-control", "pragma"})
        /\ DirectiveAt(headers, <<i, j>>) = directive
    <3>1. Readable(headers) /\ Unparsed \notin Int
      BY <1>1, <1>6
    <3> QED
      BY ONLY <3>1, <1>11, DirectivesLemma DEF directive
  <2>2. headers[i].name = "cache-control" => <<i, j>> \in Directives(headers, {"cache-control"})
    BY <1>1, <1>6, DirectivesLemma
  <2> HIDE DEF directive
  <2>3. directive.name # "no-cache"
    BY <1>5, <2>1 DEF usable, Revalidate, Given
  <2>4. ASSUME headers[i].name = "cache-control"
        PROVE  directive.name \notin {"no-store", "private"}
    BY <1>5, <2>1, <2>2, <2>4 DEF usable, Persist, Given
  <2>5. ASSUME headers[i].name = "cache-control", directive.name \in {"max-age", "s-maxage"}
        PROVE  older < directive.seconds * PerSecond
    <3>1. directive.seconds \in Lifetimes(headers)
      BY <2>1, <2>2, <2>5 DEF Lifetimes, Given
    <3>2. directive.seconds \in Nat /\ life <= directive.seconds * PerSecond
      BY <1>9, <3>1
    <3>3. directive.seconds * PerSecond \in Nat
      BY <1>1, <3>2, WholeSeconds
    <3> QED
      BY <1>9, <1>10, <3>2, <3>3
  <2> QED
    BY <2>3, <2>4, <2>5 DEF directive
<1>12. Lifetimes(headers) = {} =>
         older < IF Named(headers, "expires") # {} THEN ExpiresAfter ELSE Fallback * PerSecond
  BY <1>1, <1>9, <1>10
<1>13. MayBeUsed(headers, older)
  BY <1>6, <1>10, <1>11, <1>12 DEF MayBeUsed, most
<1> QED
  BY <1>13 DEF headers, older


\* What is known of the time of the response that is being read, or was.
Timely ==
  /\ reader.started <= now
  /\ reader.stage = "body" \/ reader.result = "response" =>
       received \in [time : Nat, wall : Int] /\ reader.started <= received.time
  /\ result = "response" => reader.result = "response"

\* The reader is the same, a new one, or one that goes on or settles.
ReaderMoves ==
  \/ reader' = reader
  \/ reader'.started = now /\ reader'.stage = "headers" /\ reader'.result = None
  \/ /\ reader'.started = reader.started
     /\ reader'.stage = "body" => reader.stage \in Reading
     /\ reader'.result = "response" => reader.stage = "body" \/ reader.result = "response"

\* fail() of the reader keeps when it began.
LEMMA ReaderSettles ==
  ASSUME FetchInv, NEW reason \in ReadResults
  PROVE  LET r == ReaderFails(reason)
         IN /\ r.started = reader.started /\ r.stage # "body"
            /\ r.result \in {reason, reader.result}
            /\ reader.stage \notin Reading => r = reader
  BY DEF ReaderFails, Reading, FetchInv, Typed

\* How the steps of a fetch change its reader and its result.
LEMMA ReaderStep ==
  ASSUME FetchInv, Next
  PROVE  /\ ReaderMoves /\ now' \in {now, now + 1}
         /\ \/ result' = result /\ (reader' = reader \/ phase # "done")
            \/ result' = "response" => reader'.result = "response"
<1>0. "aborted" \in ReadResults /\ "aborted" # "response"
  BY DEF ReadResults
<1>1. ASSUME reader' = ReaderFails("aborted")
      PROVE  ReaderMoves
  BY <1>0, <1>1, ReaderSettles DEF ReaderMoves
<1>2. CASE Tick \/ DnsTimer \/ LateTunnel \/ \E f \in {4, 6} : DnsAnswers(f)
  BY <1>2 DEF Tick, DnsTimer, LateTunnel, DnsAnswers, ReaderMoves, fetchVars
<1>3. CASE Start
  <2>1. reader' = reader /\ now' = now /\ result' \in {result, Refusal}
    BY <1>3 DEF Start
  <2>2. result' # result => result' # "response"
    <3>1. Refusal = None \/ Refusal \in {"origin-denied", "aborted"}
            \/ (SnapshotOptions(input).kind = "invalid" /\ Refusal = SnapshotOptions(input).code)
      BY DEF Refusal
    <3>2. SnapshotOptions(input).kind = "invalid" => SnapshotOptions(input).code \in Refusals
      BY SnapshotLemma
    <3>3. "response" \notin Refusals /\ None # "response"
      BY NoneLemma DEF Refusals, ReadResults
    <3> QED
      BY <2>1, <3>1, <3>2, <3>3
  <2> QED
    BY <2>1, <2>2 DEF ReaderMoves
<1>4. CASE Cancel \/ TotalTimer
  <2>1. now' = now /\ result' = result /\ phase # "done"
    BY <1>4 DEF Cancel, TotalTimer, Stop, Due, FetchInv, Awaited, fetchVars
  <2>2. reader' \in {reader, ReaderFails("aborted")}
    BY <1>4 DEF Cancel, TotalTimer, Stop, AbortPhases
  <2> QED
    BY <1>1, <2>1, <2>2 DEF ReaderMoves
<1>5. CASE TransportOpens \/ Secured \/ PeerCloses \/ ConnectionFails \/ ConnectTimer
  BY <1>5 DEF TransportOpens, Secured, PeerCloses, ConnectionFails, ConnectTimer, ConnUnchanged, ReaderMoves
<1>6. CASE HeadersArrive \/ DataArrives
  <2>1. now' = now /\ result' = result /\ reader.stage \in Reading
    BY <1>6 DEF HeadersArrive, DataArrives, ReadUnchanged, Reading
  <2>2. phase # "done"
    BY <2>1 DEF FetchInv, Awaited
  <2>3. \/ reader' = [reader EXCEPT !.stage = "body", !.headers = Never, !.idle = now + IdleLimit]
        \/ reader' = [reader EXCEPT !.size = @ + 1, !.idle = now + IdleLimit]
        \/ \E reason \in ReadResults \ {"response"} : reader' = ReaderFails(reason)
    BY <1>6 DEF HeadersArrive, DataArrives, ReadEnds, ReadResults
  <2>4. CASE \E reason \in ReadResults \ {"response"} : reader' = ReaderFails(reason)
    BY <2>1, <2>2, <2>4, ReaderSettles DEF ReaderMoves
  <2>5. CASE reader' = [reader EXCEPT !.stage = "body", !.headers = Never, !.idle = now + IdleLimit]
    <3>1. reader'.started = reader.started /\ reader'.result = reader.result
      BY <2>5 DEF FetchInv, Typed
    <3> QED
      BY <2>1, <2>2, <3>1 DEF ReaderMoves
  <2>6. CASE reader' = [reader EXCEPT !.size = @ + 1, !.idle = now + IdleLimit]
    <3>1. reader'.started = reader.started /\ reader'.result = reader.result
      BY <2>6 DEF FetchInv, Typed
    <3> QED
      BY <2>1, <2>2, <3>1 DEF ReaderMoves
  <2> QED
    BY <2>3, <2>4, <2>5, <2>6
<1>7. CASE ResponseEnds \/ ResponseFails \/ ReadTimer
  <2>1. now' = now /\ result' = result /\ reader.stage \in Reading
    BY <1>7 DEF ResponseEnds, ResponseFails, ReadTimer, ReadUnchanged, Reading, Due, FetchInv, Quiet
  <2>2. phase # "done"
    BY <2>1 DEF FetchInv, Awaited
  <2>3. \E reason \in ReadResults :
          reader' = ReaderFails(reason) /\ (reason = "response" => reader.stage = "body")
    BY <1>7 DEF ResponseEnds, BodyEnds, ResponseFails, ReadTimer, ReadEnds, ReadResults
  <2> QED
    BY <2>1, <2>2, <2>3, ReaderSettles DEF ReaderMoves
<1>8. CASE AfterResolve \/ AfterConnect
  <2>1. now' = now /\ phase # "done" /\ Continues
    BY <1>8 DEF AfterResolve, AfterConnect, Finish, Dial, Continues
  <2>2. \/ reader' \in {reader, ReaderFails("aborted")}
        \/ reader'.started = now /\ reader'.stage = "headers" /\ reader'.result = None
    BY <1>8 DEF AfterResolve, AfterConnect, Finish, Dial, NoReader
  <2>3. result' # "response" \/ result' = result
    BY <1>8, <2>1, OutcomeLemma DEF AfterResolve, AfterConnect
  <2> QED
    BY <1>1, <2>1, <2>2, <2>3 DEF ReaderMoves
<1>9. CASE AfterRead
  <2>1. now' = now /\ reader' = ReaderFails("aborted") /\ reader.stage \notin Reading
    BY <1>9 DEF AfterRead, Finish, FetchInv, Awaited
  <2>2. reader' = reader
    BY <1>0, <2>1, ReaderSettles
  <2>3. result' \in {stop, GivenUp, reader.result}
    BY <1>9 DEF AfterRead, Finish
  <2>4. stop # "response" /\ GivenUp # "response"
    BY NoneLemma DEF FetchInv, Typed, GivenUp, ReadResults
  <2> QED
    BY <2>1, <2>2, <2>3, <2>4 DEF ReaderMoves
<1> QED
  BY <1>2, <1>3, <1>4, <1>5, <1>6, <1>7, <1>8, <1>9 DEF Next, Timers, Continues, Network


\* The headers come after the reader began.
LEMMA TimelyStep ==
  ASSUME FetchInv, Timely, Next, Receives
  PROVE  Timely'
<1>1. /\ now \in Nat /\ now' \in {now, now + 1} /\ reader.started \in Nat /\ ReaderMoves
      /\ \/ result' = result /\ (reader' = reader \/ phase # "done")
         \/ result' = "response" => reader'.result = "response"
  BY ReaderStep DEF FetchInv, Typed
<1>2. reader'.started <= now'
  BY <1>1 DEF ReaderMoves, Timely
<1>3. None # "response"
  BY NoneLemma DEF ReadResults
<1>4. ASSUME result' = "response"
      PROVE  reader'.result = "response"
  <2>1. CASE result' = result /\ reader' = reader
    BY <1>4, <2>1 DEF Timely
  <2>2. CASE result' = result /\ phase # "done"
    BY <1>3, <1>4, <2>2 DEF FetchInv, Awaited
  <2> QED
    BY <1>1, <1>4, <2>1, <2>2
<1>5. ASSUME reader'.stage = "body" \/ reader'.result = "response"
      PROVE  received' \in [time : Nat, wall : Int] /\ reader'.started <= received'.time
  <2>1. CASE reader.stage = "headers" /\ reader'.stage = "body"
    <3>1. PICK skew \in Skews : received' = [time |-> now, wall |-> now + skew]
      BY <2>1 DEF Receives
    <3>2. reader'.started <= now
      BY <1>1, <2>1 DEF ReaderMoves, Timely
    <3> QED
      BY <1>1, <3>1, <3>2, DirectoryEvidenceAssumption
  <2>2. CASE ~(reader.stage = "headers" /\ reader'.stage = "body")
    <3>1. received' = received
      BY <2>2 DEF Receives
    <3>2. reader'.started = reader.started /\ (reader.stage = "body" \/ reader.result = "response")
      BY <1>3, <1>5, <2>2, <1>1 DEF ReaderMoves, Reading
    <3> QED
      BY <3>1, <3>2 DEF Timely
  <2> QED
    BY <2>1, <2>2
<1> QED
  BY <1>2, <1>4, <1>5 DEF Timely

\* The freshness that is kept is used for no longer than the response allows, at
\* whatever time it is asked for.
Sober ==
  evidence # None =>
    /\ evidence.generated \in Int
    /\ \A time \in Int :
         IsFresh(evidence.freshness, time) => MayBeUsed(evidence.response.headers, time - evidence.generated)

\* prepare() when the response has come.
LEMMA PrepareLemma ==
  ASSUME Timely, FetchInv, Prepare
  PROVE  Sober'
<1>1. PICK honest \in Honest :
        evidence' = [response |-> honest.response, generated |-> honest.generated,
                     sets |-> [format \in Formats |-> LoadJwks(honest.response, format)],
                     freshness |-> CalculateFreshness(honest.response.headers, reader.started,
                                                      received.time, received.wall)]
  BY DEF Prepare
<1>2. /\ reader.started \in Nat /\ received.time \in Nat /\ received.wall \in Int
  BY DEF Prepare, Timely, FetchInv, Typed
<1>3. PICK response \in Responses : honest \in Served(response)
  BY DEF Honest
<1>4. PICK skew \in Skews, sent \in reader.started..received.time,
           age \in IF Named(response.headers, "age") = {} THEN {0} ELSE Ages :
        honest = [response |-> [response EXCEPT !.headers = Filled(@, sent, sent - age * PerSecond, skew)],
                  generated |-> sent - age * PerSecond]
  BY <1>3 DEF Served
<1>5. /\ response.headers \in Seq(HeaderFields) /\ skew \in Int /\ age \in Nat /\ sent \in Int
      /\ Named(response.headers, "age") = {} => age = 0
      /\ PerSecond \in Nat \ {0}
  <2>1. response.headers \in Seq(HeaderFields)
    <3>1. response \in [headers : Seq(HeaderFields), bytes : Nat, json : BOOLEAN,
                        keys : {r.keys : r \in Responses}]
      BY DirectoryEvidenceAssumption
    <3> QED
      BY <3>1
  <2>2. skew \in Int /\ Ages \subseteq Nat /\ PerSecond \in Nat \ {0}
    BY DirectoryEvidenceAssumption
  <2>3. age \in Nat /\ (Named(response.headers, "age") = {} => age = 0)
    BY <2>2
  <2>4. sent \in Int
    BY <1>2
  <2> QED
    BY <2>1, <2>2, <2>3, <2>4
<1> DEFINE headers == Filled(response.headers, sent, sent - age * PerSecond, skew)
           generated == sent - age * PerSecond
           fresh == CalculateFreshness(headers, reader.started, received.time, received.wall)
<1>6. honest.response.headers = headers /\ honest.generated = generated
  <2>1. response \in [headers : Seq(HeaderFields), bytes : Nat, json : BOOLEAN,
                      keys : {r.keys : r \in Responses}]
    BY DirectoryEvidenceAssumption
  <2>2. [response EXCEPT !.headers = headers].headers = headers
    BY <2>1
  <2> QED
    BY <1>4, <2>2
<1>7. generated \in Int
  BY <1>5, WholeSeconds
<1>8. ASSUME NEW time \in Int, IsFresh(fresh, time)
      PROVE  MayBeUsed(headers, time - generated)
  BY <1>2, <1>5, <1>8, FreshnessLemma
<1> HIDE DEF headers, generated, fresh
<1>9. /\ evidence'.response.headers = headers /\ evidence'.generated = generated
      /\ evidence'.freshness = fresh
  BY <1>1, <1>6 DEF fresh
<1> QED
  BY <1>7, <1>8, <1>9 DEF Sober

\* Whatever the headers and the clocks say, a response is used only while it is
\* younger than every lifetime it states and than the program's own limit.
THEOREM EvidenceNeverOverstaysHolds == EvidenceSpec => []EvidenceNeverOverstays
<1>1. EvidenceInit => Timely /\ Sober
  BY NoneLemma DEF EvidenceInit, Init, Timely, Sober, NoReader, ReadResults
<1>2. FetchInv /\ Timely /\ Sober /\ [Meanwhile(Next) \/ Prepare]_allVars => (Timely /\ Sober)'
  <2> SUFFICES ASSUME FetchInv, Timely, Sober, [Meanwhile(Next) \/ Prepare]_allVars
               PROVE  (Timely /\ Sober)'
    OBVIOUS
  <2>1. CASE Meanwhile(Next)
    BY <2>1, TimelyStep DEF Meanwhile, Sober
  <2>2. CASE Prepare
    <3>1. Timely'
      BY <2>2 DEF Prepare, Timely, vars, fetchVars
    <3> QED
      BY <2>2, <3>1, PrepareLemma
  <2>3. CASE UNCHANGED allVars
    BY <2>3 DEF allVars, vars, fetchVars, Timely, Sober
  <2> QED
    BY <2>1, <2>2, <2>3
<1>3. FetchInv /\ Sober => EvidenceNeverOverstays
  <2> SUFFICES ASSUME FetchInv, Sober, evidence # None,
                      NEW time \in evidence.generated..(now + MaximumLifetime * PerSecond),
                      IsFresh(evidence.freshness, time)
               PROVE  MayBeUsed(evidence.response.headers, time - evidence.generated)
    BY DEF EvidenceNeverOverstays, MayBeUsed
  <2>1. evidence.generated \in Int /\ now \in Nat
    BY DEF Sober, FetchInv, Typed
  <2>2. MaximumLifetime * PerSecond \in Nat
    BY DirectoryEvidenceAssumption, WholeSeconds
  <2> QED
    BY <2>1, <2>2 DEF Sober
<1> QED
  BY <1>1, <1>2, <1>3, FetchHolds, EvidenceIsFetch, PTL DEF EvidenceSpec

=============================================================================
