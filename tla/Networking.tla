------------------------------- MODULE Networking -------------------------------
(***************************************************************************)
(* The sockets and HTTP requests of a program (src/stdlib.rs): handles     *)
(* that hold a place in the runtime's SocketQuota, streams read in pieces  *)
(* against a deadline, and requests that follow redirects, all of them     *)
(* within the permissions of the runtime.                                  *)
(*                                                                         *)
(* A byte is "a", a character of its own, or "h" and "t", the head and the *)
(* tail of a character of two bytes.                                       *)
(***************************************************************************)
EXTENDS Integers, Sequences, FiniteSets, SequencesExt

CONSTANTS
  Handles,          \* 1 .. n: the socket values a program may hold
  MaxResources, MaxListeners,
  Capacities,       \* the sizes a program reads with
  Sites,            \* records: host, port, named and resolved (is the name
                    \* granted, is some address it resolves to)
  Lookups,          \* sequences of addresses: allowed (granted) and up (it answers)
  MaxRedirects, MaxBody,
  MaxSent           \* bound: what a peer sends on one handle

VARIABLES
  kind,          \* per handle: "free", "stream", "listener", "udp" or "closed"
  resources, listeners,      \* the counters of the quota
  wire,          \* what has arrived and is not read: bytes, datagrams, connections
  ended,         \* the peer has closed its side
  read_buffer,
  op,            \* the call that waits for the network
  answer,        \* what the last call returned
  sent, seen,    \* history: what the peer sent, what the program was given or lost
  contacted      \* history: the addresses or requests of the last outgoing call

vars == <<kind, resources, listeners, wire, ended, read_buffer, op, answer, sent, seen, contacted>>
stream == <<wire, ended, read_buffer, sent, seen>>
places == <<kind, resources, listeners>>

Bytes == {"a", "h", "t"}
Idle == [call |-> "idle"]
Answer(call, handle, ok, bytes, limit) ==
  [call |-> call, handle |-> handle, ok |-> ok, bytes |-> bytes, limit |-> limit]
Silence == Answer("none", 0, TRUE, <<>>, 0)
Quiet == answer' = Silence /\ contacted' = {}   \* they tell of the last step of a call
Failed(call, handle) == answer' = Answer(call, handle, FALSE, <<>>, 0)

\* std::str::from_utf8: whole characters, a last one that is not finished, or wrong.
Utf8(s) ==
  CASE \E i \in DOMAIN s : \/ s[i] = "t" /\ (i = 1 \/ s[i - 1] # "h")
                           \/ s[i] = "h" /\ i < Len(s) /\ s[i + 1] # "t" -> "wrong"
    [] Len(s) > 0 /\ Last(s) = "h" -> "unfinished"
    [] OTHER -> "whole"

-----------------------------------------------------------------------------
MutRefused(as) == resources >= MaxResources   \* the listeners are not counted

\* SocketQuota::acquire: the place of a listener first, given back when there
\* is none left for the resource.
Refused(as) == \/ as = "listener" /\ listeners >= MaxListeners
               \/ resources >= MaxResources
acquire(h, as) ==
  /\ ~Refused(as)
  /\ resources' = resources + 1
  /\ listeners' = IF as = "listener" THEN listeners + 1 ELSE listeners
  /\ kind' = [kind EXCEPT ![h] = as]

\* The lease goes when the socket is closed or dropped.
Live == {"stream", "listener", "udp"}
MutRelease(h, left) ==
  /\ resources' = IF kind[h] \in Live THEN resources - 1 ELSE resources
  /\ listeners' = listeners
  /\ kind' = [kind EXCEPT ![h] = left]

release(h, left) ==
  /\ resources' = IF kind[h] \in Live THEN resources - 1 ELSE resources
  /\ listeners' = IF kind[h] = "listener" THEN listeners - 1 ELSE listeners
  /\ kind' = [kind EXCEPT ![h] = left]

IsFree(h) == kind[h] = "free" /\ \A g \in 1 .. h - 1 : kind[g] # "free"
Fresh(h) ==
  /\ wire' = [wire EXCEPT ![h] = <<>>] /\ ended' = [ended EXCEPT ![h] = FALSE]
  /\ read_buffer' = [read_buffer EXCEPT ![h] = <<>>]
  /\ sent' = [sent EXCEPT ![h] = <<>>] /\ seen' = [seen EXCEPT ![h] = <<>>]

\* The addresses a name resolves to, those that are granted.
Granted(addresses) == SelectSeq(addresses, LAMBDA a : a.allowed)

MutTried(addresses, tries) == {addresses[i] : i \in 1 .. tries}

\* The addresses that are tried: those granted, up to the first that answers
\* or, when the deadline passes, up to some earlier one.
Tried(addresses, tries) == {SubSeq(Granted(addresses), 1, tries)[i] : i \in 1 .. tries}

\* socket_tcp_connect_guarded, socket_tcp_listen_guarded, socket_udp_bind_guarded.
Open(h, as, named, addresses, tries) ==
  LET granted == Granted(addresses)
      reached == \E i \in 1 .. tries : granted[i].up
  IN /\ op = Idle /\ IsFree(h)
     /\ (~named => tries = 0)
     /\ \A i \in 1 .. tries - 1 : ~granted[i].up
     /\ contacted' = Tried(addresses, tries)
     /\ IF reached /\ ~Refused(as)
        THEN /\ acquire(h, as) /\ Fresh(h) /\ answer' = Silence
        ELSE /\ Failed("open", h) /\ UNCHANGED <<places, stream>>
     /\ UNCHANGED op

\* socket_udp_send_bytes_to_guarded: the address is checked before the handle.
UdpSend(h, named, addresses, tries) ==
  LET granted == Granted(addresses)
  IN /\ op = Idle /\ kind[h] \in Live \cup {"closed"}
     /\ (~named \/ kind[h] # "udp" => tries = 0)
     /\ \A i \in 1 .. tries - 1 : ~granted[i].up
     /\ contacted' = Tried(addresses, tries)
     /\ IF \E i \in 1 .. tries : granted[i].up THEN answer' = Silence ELSE Failed("send", h)
     /\ UNCHANGED <<places, stream, op>>

\* socket_accept: a connection that finds the quota used up is dropped.
Accept(h, g) ==
  /\ op = Idle /\ kind[h] = "listener" /\ IsFree(g)
  /\ wire[h] # <<>>
  /\ IF Refused("stream")
     THEN /\ Failed("accept", h) /\ wire' = [wire EXCEPT ![h] = Tail(@)]
          /\ UNCHANGED <<places, ended, read_buffer, sent, seen>>
     ELSE /\ acquire(g, "stream") /\ answer' = Silence
          /\ wire' = [wire EXCEPT ![h] = Tail(@), ![g] = <<>>]
          /\ ended' = [ended EXCEPT ![g] = FALSE]
          /\ read_buffer' = [read_buffer EXCEPT ![g] = <<>>]
          /\ sent' = [sent EXCEPT ![g] = <<>>] /\ seen' = [seen EXCEPT ![g] = <<>>]
  /\ UNCHANGED op /\ contacted' = {}

\* socket_close leaves a closed handle behind, the last reference takes it away.
Close(h) ==
  /\ op = Idle /\ kind[h] \in Live \cup {"closed"}
  /\ release(h, "closed") /\ Fresh(h) /\ answer' = Silence
  /\ UNCHANGED op /\ contacted' = {}

Drop(h) ==
  /\ op = Idle /\ kind[h] # "free"
  /\ release(h, "free") /\ Fresh(h) /\ answer' = Silence
  /\ UNCHANGED op /\ contacted' = {}

-----------------------------------------------------------------------------
\* Reading.  Give hands bytes to the program, Lose takes them away for good.
Given(bytes, lost) == [i \in DOMAIN bytes |-> [byte |-> bytes[i], lost |-> lost]]
Give(h, call, bytes, limit) ==
  /\ seen' = [seen EXCEPT ![h] = @ \o Given(bytes, FALSE)]
  /\ answer' = Answer(call, h, TRUE, bytes, limit)

\* socket_receive_bytes: what the buffer holds, else one read.
ReceiveBytes(h, capacity) ==
  /\ op = Idle /\ kind[h] = "stream"
  /\ IF read_buffer[h] # <<>>
     THEN \E n \in {IF capacity < Len(read_buffer[h]) THEN capacity ELSE Len(read_buffer[h])} :
            /\ Give(h, "bytes", SubSeq(read_buffer[h], 1, n), capacity)
            /\ read_buffer' = [read_buffer EXCEPT ![h] = SubSeq(@, n + 1, Len(@))]
            /\ UNCHANGED wire
     ELSE /\ \/ \E n \in 1 .. Len(wire[h]) :
                  /\ n <= capacity
                  /\ Give(h, "bytes", SubSeq(wire[h], 1, n), capacity)
                  /\ wire' = [wire EXCEPT ![h] = SubSeq(@, n + 1, Len(@))]
             \/ wire[h] = <<>> /\ ended[h] /\ Give(h, "bytes", <<>>, capacity) /\ UNCHANGED wire
             \/ wire[h] = <<>> /\ ~ended[h] /\ Failed("bytes", h) /\ UNCHANGED <<wire, seen>>
          /\ UNCHANGED read_buffer
  /\ UNCHANGED <<places, ended, op, sent>> /\ contacted' = {}

\* socket_receive and socket_read_exact_bytes read until they have enough.
Begin(h, call, capacity) ==
  /\ op = Idle /\ kind[h] = "stream"
  /\ LET n == IF call = "text" THEN 0
              ELSE IF capacity < Len(read_buffer[h]) THEN capacity ELSE Len(read_buffer[h])
     IN /\ op' = [call |-> call, handle |-> h, capacity |-> capacity,
                  taken |-> SubSeq(read_buffer[h], 1, n)]
        /\ read_buffer' = [read_buffer EXCEPT ![h] = SubSeq(@, n + 1, Len(@))]
  /\ UNCHANGED <<places, wire, ended, sent, seen>>
  /\ Quiet

Reading(call) == op.call = call
Held == read_buffer[op.handle]

MutTextFails ==   \* the buffer is cleared
  /\ Reading("text")
  /\ \/ Len(Held) > op.capacity
     \/ Held # <<>> /\ Utf8(Held) = "wrong"
  /\ Failed("text", op.handle) /\ op' = Idle
  /\ read_buffer' = [read_buffer EXCEPT ![op.handle] = <<>>]
  /\ UNCHANGED <<places, wire, ended, sent, seen, contacted>>

\* A receive that fails leaves what it has read in the buffer.
TextFails ==
  /\ Reading("text")
  /\ \/ Len(Held) > op.capacity
     \/ Held # <<>> /\ Utf8(Held) = "wrong"
     \/ Held = <<>> \/ Utf8(Held) = "unfinished"   \* the deadline, the end
  /\ Failed("text", op.handle) /\ op' = Idle
  /\ UNCHANGED <<places, stream>> /\ contacted' = {}

TextEnds ==
  /\ Reading("text") /\ Len(Held) <= op.capacity
  /\ \/ Held # <<>> /\ Utf8(Held) = "whole"
     \/ Held = <<>> /\ wire[op.handle] = <<>> /\ ended[op.handle]
  /\ Give(op.handle, "text", Held, op.capacity)
  /\ read_buffer' = [read_buffer EXCEPT ![op.handle] = <<>>]
  /\ op' = Idle
  /\ UNCHANGED <<places, wire, ended, sent>> /\ contacted' = {}

\* One byte more than is asked for, so that too much is noticed.
TextReads ==
  /\ Reading("text") /\ Len(Held) <= op.capacity
  /\ Held = <<>> \/ Utf8(Held) = "unfinished"
  /\ \E n \in 1 .. Len(wire[op.handle]) :
       /\ n <= op.capacity + 1 - Len(Held)
       /\ read_buffer' = [read_buffer EXCEPT ![op.handle] = @ \o SubSeq(wire[op.handle], 1, n)]
       /\ wire' = [wire EXCEPT ![op.handle] = SubSeq(@, n + 1, Len(@))]
  /\ UNCHANGED <<places, ended, op, sent, seen>>
  /\ Quiet

\* An exact read that does not get everything loses what it has read.
ExactStep ==
  /\ Reading("exact")
  /\ IF Len(op.taken) = op.capacity
     THEN /\ Give(op.handle, "exact", op.taken, op.capacity) /\ op' = Idle /\ UNCHANGED wire
     ELSE \/ \E n \in 1 .. Len(wire[op.handle]) :
               /\ n <= op.capacity - Len(op.taken)
               /\ op' = [op EXCEPT !.taken = @ \o SubSeq(wire[op.handle], 1, n)]
               /\ wire' = [wire EXCEPT ![op.handle] = SubSeq(@, n + 1, Len(@))]
               /\ answer' = Silence /\ UNCHANGED seen
          \/ /\ seen' = [seen EXCEPT ![op.handle] = @ \o Given(op.taken, TRUE)]
             /\ Failed("exact", op.handle) /\ op' = Idle /\ UNCHANGED wire
  /\ UNCHANGED <<places, ended, read_buffer, sent>> /\ contacted' = {}

\* socket_udp_receive_from: a datagram that does not fit, or that is not text
\* when a text is asked for, is gone.
UdpReceive(h, capacity, text) ==
  /\ op = Idle /\ kind[h] = "udp" /\ wire[h] # <<>>
  /\ LET datagram == Head(wire[h])
     IN IF Len(datagram) > capacity \/ (text /\ Utf8(datagram) # "whole")
        THEN Failed("datagram", h) /\ seen' = [seen EXCEPT ![h] = Append(@, [byte |-> datagram, lost |-> TRUE])]
        ELSE /\ answer' = Answer("datagram", h, TRUE, datagram, capacity)
             /\ seen' = [seen EXCEPT ![h] = Append(@, [byte |-> datagram, lost |-> FALSE])]
  /\ wire' = [wire EXCEPT ![h] = Tail(@)]
  /\ UNCHANGED <<places, ended, read_buffer, op, sent>> /\ contacted' = {}

\* The other side, at any moment.
PeerSends(h) ==
  /\ kind[h] \in Live /\ ~ended[h]
  /\ FoldFunction(LAMBDA s, n : Len(s) + n, 0, sent) < MaxSent
  /\ \E more \in CASE kind[h] = "stream" -> Bytes
                   [] kind[h] = "listener" -> {"connection"}
                   [] OTHER -> {<<>>, <<"a">>, <<"t">>, <<"h", "t">>} :
       /\ wire' = [wire EXCEPT ![h] = Append(@, more)]
       /\ sent' = [sent EXCEPT ![h] = Append(@, more)]
  /\ UNCHANGED <<places, ended, read_buffer, op, seen>>
  /\ Quiet

PeerEnds(h) ==
  /\ kind[h] = "stream" /\ ~ended[h]
  /\ ended' = [ended EXCEPT ![h] = TRUE]
  /\ UNCHANGED <<places, wire, read_buffer, op, sent, seen>>
  /\ Quiet

-----------------------------------------------------------------------------
MutSameOrigin(s, t) == s.host = t.host

\* http_request_bytes_with_options_and_limits_guarded.  The request carries
\* credentials (authorization, cookie) and a body or not.
SameOrigin(s, t) == s.host = t.host /\ s.port = t.port
HttpBegin(site, get, body, limit) ==
  /\ op = Idle
  /\ op' = [call |-> "http", site |-> site, get |-> get, body |-> body,
            credentials |-> TRUE, redirects |-> 0,
            limit |-> IF limit < MaxBody THEN limit ELSE MaxBody]
  /\ Quiet
  /\ UNCHANGED <<places, stream>>

HttpFails == Failed("http", 0) /\ op' = Idle /\ UNCHANGED contacted

Request ==
  [allowed |-> op.site.named /\ op.site.resolved, site |-> op.site, body |-> op.body,
   get |-> op.get, credentials |-> op.credentials, at |-> op.redirects]

\* A redirection: the next address is checked before anything of the request
\* is kept for it.
Redirected(next, see) ==
  IF op.redirects = MaxRedirects \/ ~next.named THEN [call |-> "idle"]
  ELSE [op EXCEPT !.site = next, !.redirects = @ + 1,
                  !.credentials = @ /\ SameOrigin(op.site, next),
                  !.get = @ \/ see, !.body = @ /\ ~(see /\ ~op.get)]

HttpHop ==
  /\ Reading("http")
  /\ \/ HttpFails   \* the deadline, the connection
     \/ ~(op.site.named /\ op.site.resolved) /\ HttpFails
     \/ /\ op.site.named /\ op.site.resolved
        /\ contacted' = contacted \cup {Request}
        /\ \/ \E next \in Sites, see \in BOOLEAN :
                /\ op' = Redirected(next, see)
                /\ IF op' = Idle THEN Failed("http", 0) ELSE UNCHANGED answer
           \/ \E length \in 0 .. MaxBody + 1 :
                /\ op' = Idle
                /\ IF length > op.limit THEN Failed("http", 0)
                   ELSE answer' = Answer("http", 0, TRUE, [i \in 1 .. length |-> "a"], op.limit)
  /\ UNCHANGED <<places, stream>>

-----------------------------------------------------------------------------
Init ==
  /\ kind = [h \in Handles |-> "free"] /\ resources = 0 /\ listeners = 0
  /\ wire = [h \in Handles |-> <<>>] /\ ended = [h \in Handles |-> FALSE]
  /\ read_buffer = [h \in Handles |-> <<>>] /\ op = Idle /\ answer = Silence
  /\ sent = [h \in Handles |-> <<>>] /\ seen = [h \in Handles |-> <<>>]
  /\ contacted = {}

Next ==
  \/ \E h \in Handles :
       \/ \E addresses \in Lookups, named \in BOOLEAN :
            \E tries \in 0 .. Len(Granted(addresses)) :
              \/ \E as \in Live : Open(h, as, named, addresses, tries)
              \/ UdpSend(h, named, addresses, tries)
       \/ \E g \in Handles : Accept(h, g)
       \/ Close(h) \/ Drop(h)
       \/ \E capacity \in Capacities :
            \/ ReceiveBytes(h, capacity)
            \/ \E call \in {"text", "exact"} : Begin(h, call, capacity)
            \/ \E text \in BOOLEAN : UdpReceive(h, capacity, text)
       \/ PeerSends(h) \/ PeerEnds(h)
  \/ TextFails \/ TextEnds \/ TextReads \/ ExactStep
  \/ \E site \in Sites, get, body \in BOOLEAN, limit \in Capacities :
       HttpBegin(site, get, body, limit)
  \/ HttpHop

Spec == Init /\ [][Next]_vars

TypeOK ==
  /\ kind \in [Handles -> Live \cup {"free", "closed"}]
  /\ resources \in 0 .. MaxResources /\ listeners \in 0 .. MaxListeners
  /\ ended \in [Handles -> BOOLEAN]
  /\ \A h \in Handles : Len(wire[h]) <= MaxSent /\ Len(sent[h]) <= MaxSent

\* The counters are the handles that are open: none is refused a place that
\* nobody holds, none holds one it did not count.
QuotaIsExact ==
  /\ resources = Cardinality({h \in Handles : kind[h] \in Live})
  /\ listeners = Cardinality({h \in Handles : kind[h] = "listener"})

\* What a peer sends arrives in order, once, and is only lost to an exact read
\* that failed; a datagram too large or not a text is lost alone.
StreamsInOrder ==
  \A h \in Handles : kind[h] \in {"stream", "udp"} =>
    LET taken == IF op.call = "exact" /\ op.handle = h THEN op.taken ELSE <<>>
        bytes == [i \in DOMAIN seen[h] |-> seen[h][i].byte]
    IN bytes \o taken \o read_buffer[h] \o wire[h] = sent[h]

\* An answer is what was asked for: a text of whole characters, as many bytes
\* as an exact read names, no more than the limit, and nothing only at the end.
AnswersFit ==
  answer.ok =>
    /\ answer.call = "text" => Utf8(answer.bytes) = "whole"
    /\ answer.call = "exact" => Len(answer.bytes) = answer.limit
    /\ Len(answer.bytes) <= answer.limit
    /\ (answer.call \in {"text", "bytes"} /\ answer.bytes = <<>>) =>
         ended[answer.handle] /\ wire[answer.handle] = <<>>

\* No address is contacted, no request sent, that the permissions refuse; no
\* credentials leave the origin they were given for, on whatever detour, and
\* no body goes on when a redirection has turned the method into a GET.
ContactsLawful ==
  /\ \A c \in contacted : c.allowed
  /\ \A c, d \in contacted :
       "at" \in DOMAIN c /\ "at" \in DOMAIN d /\ c.at <= d.at =>
         /\ d.credentials => c.site.host = d.site.host /\ c.site.port = d.site.port
         /\ d.body => c.body
         /\ d.body /\ d.get => c.get
=============================================================================
