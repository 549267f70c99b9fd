------------------------------ MODULE UdpRelay ------------------------------
(***************************************************************************)
(* The UDP-to-WebTransport relay of the media example server               *)
(* (src/examples/media_bidirectional_stream_js/server.cc): an RTP source   *)
(* sends datagrams to a non-blocking UDP socket on port 5000; every        *)
(* bidirectional stream a browser opens gets an interval whose callback    *)
(* does one recvfrom on that shared socket and, if a datagram came, wraps  *)
(* it in a Frame (type, big-endian millisecond timestamp, big-endian size, *)
(* data) and writes it with ServerStream::send, which forwards to          *)
(* StreamWrapper::Send and quiche's WebTransportStream::Write, whose       *)
(* result is dropped (src/web_transport.cc, src/web_transport_server.cc).  *)
(*                                                                         *)
(* The kernel keeps at most SocketCap datagrams and drops what arrives     *)
(* beyond.  Streams are opened by the browsers at any time; a browser may  *)
(* go away, either resetting its stream (the wrapper lives on, its        *)
(* interval keeps firing and Write refuses) or letting quiche destroy the  *)
(* stream, and with it the wrapper and its interval alarm.  Time is the    *)
(* event loop's millisecond clock, as in IntervalAlarm.                    *)
(*                                                                         *)
(* Datagram d carries DLen(d) bytes, each equal to d.  TLC's integers are  *)
(* 32-bit, so the 64-bit timestamp is kept as its high and low words.      *)
(***************************************************************************)
EXTENDS Naturals, Sequences, SequencesExt, FiniteSets

CONSTANTS
    Streams,        \* the streams browsers may open
    MaxDatagrams,   \* bound on the datagrams the source sends
    SocketCap,      \* datagrams the socket's receive buffer holds
    RelayPeriod,    \* the interval the stream callback sets, in ms
    SrcPeriod,      \* the source sends at most one datagram per SrcPeriod ms
    MaxTime         \* bound on the clock

ASSUME SocketCap \in Nat \ {0} /\ RelayPeriod \in Nat \ {0} /\ SrcPeriod \in Nat \ {0}

\* The wall clock at time 0 of the model, as (high word, low word).
EpochHi == 403
EpochLo == 192630272

DLen(d) == 1 + (d % 2)
Data(d) == [i \in 1..DLen(d) |-> d]

\* Frame::Type::RTP
kRTP == 0

VARIABLES
    now,        \* the event loop's clock
    srcSent,    \* datagrams the source has sent: 1..srcSent
    nextSrc,    \* earliest time of the source's next datagram
    sock,       \* the socket's receive buffer, oldest first
    lost,       \* datagrams the kernel dropped, the buffer being full
    opened,     \* streams the browsers have opened
    armed,      \* streams whose interval alarm is set
    deadline,   \* its deadline
    alive,      \* the browser still takes what the stream writes
    out,        \* the bytes each stream's Write accepted, in order
    refused     \* datagrams read from the socket whose Write was refused

vars == <<now, srcSent, nextSrc, sock, lost, opened, armed, deadline, alive, out,
          refused>>
-----------------------------------------------------------------------------
\* x as n big-endian bytes: the `(x >> (i * 8)) & 0xFF` loops of serialize.
BigEndian(x, n) == [i \in 1..n |-> (x \div (2 ^ (8 * (n - i)))) % 256]

(* Frame::serialize: type byte, 8-byte timestamp, 4-byte size, data.       *)
Serialize(ts, data) ==
    <<kRTP>> \o BigEndian(ts[1], 4) \o BigEndian(ts[2], 4)
        \o BigEndian(Len(data), 4) \o data

(* The callback's timestamp: system_clock milliseconds since the epoch,   *)
(* taken as running in step with the loop's clock.  The wall clock may be  *)
(* stepped; no property below depends on the timestamp's value.           *)
Timestamp == <<EpochHi, EpochLo + now>>

(* StreamWrapper::Send, through ServerStream::send: Write the bytes; a     *)
(* refused Write is not reported to the caller.                           *)
Send(s, bytes, d) ==
    IF alive[s]
       THEN out' = [out EXCEPT ![s] = @ \o bytes] /\ UNCHANGED refused
       ELSE refused' = refused \cup {d} /\ UNCHANGED out
-----------------------------------------------------------------------------
(* The source sends the next datagram; the kernel queues it if the buffer  *)
(* has room and drops it otherwise.                                       *)
SourceSends ==
    /\ srcSent < MaxDatagrams
    /\ now >= nextSrc
    /\ LET d == srcSent + 1 IN
         IF Len(sock) < SocketCap
            THEN sock' = Append(sock, d) /\ UNCHANGED lost
            ELSE lost' = lost \cup {d} /\ UNCHANGED sock
    /\ srcSent' = srcSent + 1
    /\ nextSrc' = now + SrcPeriod
    /\ UNCHANGED <<now, opened, armed, deadline, alive, out, refused>>

(* A browser opens stream s: the session accepts it, the facade wraps it   *)
(* and calls the onBidirectionalStream callback, which sets the stream's   *)
(* interval (StreamWrapper::setInterval: due one period from now).         *)
OpenStream(s) ==
    /\ s \notin opened
    /\ opened' = opened \cup {s}
    /\ armed' = armed \cup {s}
    /\ deadline' = [deadline EXCEPT ![s] = now + RelayPeriod]
    /\ UNCHANGED <<now, srcSent, nextSrc, sock, lost, alive, out, refused>>

(* The clock advances while no interval is overdue: a due alarm runs      *)
(* before the loop's clock moves on, the callback taking no time (a        *)
(* recvfrom and a Write against a period of milliseconds).                 *)
Tick ==
    /\ now < MaxTime
    /\ \A s \in armed : deadline[s] > now
    /\ now' = now + 1
    /\ UNCHANGED <<srcSent, nextSrc, sock, lost, opened, armed, deadline, alive, out,
                   refused>>

\* Fault variant (mutation check): recvfrom with MSG_PEEK, which leaves the
\* datagram in the buffer.
IntervalCallbackPeek(s) ==
    /\ s \in armed
    /\ deadline[s] <= now
    /\ IF sock # <<>>
          THEN Send(s, Serialize(Timestamp, Data(Head(sock))), Head(sock))
          ELSE UNCHANGED <<out, refused>>
    /\ deadline' = [deadline EXCEPT ![s] = now + RelayPeriod]
    /\ UNCHANGED <<now, srcSent, nextSrc, sock, lost, opened, armed, alive>>

\* Fault variant (mutation check): the delegate re-arms one millisecond
\* late, as an interval of RelayPeriod + 1 would.
IntervalCallbackSlow(s) ==
    /\ s \in armed
    /\ deadline[s] <= now
    /\ IF sock # <<>>
          THEN /\ sock' = Tail(sock)
               /\ Send(s, Serialize(Timestamp, Data(Head(sock))), Head(sock))
          ELSE UNCHANGED <<sock, out, refused>>
    /\ deadline' = [deadline EXCEPT ![s] = now + RelayPeriod + 1]
    /\ UNCHANGED <<now, srcSent, nextSrc, lost, opened, armed, alive>>

(* Stream s's interval fires (IntervalAlarmDelegate::OnAlarm): the        *)
(* callback's recvfrom takes the oldest datagram, if any (it would block   *)
(* otherwise and returns -1); a datagram of bytes_received > 0 bytes is    *)
(* framed with the current time and sent; the delegate then re-arms one    *)
(* period on.                                                              *)
IntervalCallback(s) ==
    /\ s \in armed
    /\ deadline[s] <= now
    /\ IF sock # <<>>
          THEN /\ sock' = Tail(sock)
               /\ Send(s, Serialize(Timestamp, Data(Head(sock))), Head(sock))
          ELSE UNCHANGED <<sock, out, refused>>
    /\ deadline' = [deadline EXCEPT ![s] = now + RelayPeriod]
    /\ UNCHANGED <<now, srcSent, nextSrc, lost, opened, armed, alive>>

(* The browser behind s goes away: it resets the stream, so Write refuses *)
(* from now on while the wrapper and its interval live on, or quiche      *)
(* destroys the stream, the wrapper it owns and the wrapper's alarm.       *)
BrowserLeaves(s) ==
    /\ s \in opened /\ alive[s]
    /\ alive' = [alive EXCEPT ![s] = FALSE]
    /\ armed' \in {armed, armed \ {s}}
    /\ UNCHANGED <<now, srcSent, nextSrc, sock, lost, opened, deadline, out, refused>>
-----------------------------------------------------------------------------
Init ==
    /\ now = 0
    /\ srcSent = 0
    /\ nextSrc = 0
    /\ sock = <<>>
    /\ lost = {}
    /\ opened = {}
    /\ armed = {}
    /\ deadline = [s \in Streams |-> 0]
    /\ alive = [s \in Streams |-> TRUE]
    /\ out = [s \in Streams |-> <<>>]
    /\ refused = {}

Next ==
    \/ SourceSends
    \/ Tick
    \/ \E s \in Streams : OpenStream(s) \/ IntervalCallback(s) \/ BrowserLeaves(s)

(* The event loop advances its clock and runs due alarms; the source, the  *)
(* browsers and their streams are not obliged to do anything.              *)
Spec == Init /\ [][Next]_vars /\ WF_vars(Tick) /\ WF_vars(\E s \in Streams : IntervalCallback(s))
-----------------------------------------------------------------------------
TypeOK ==
    /\ now \in 0..MaxTime
    /\ srcSent \in 0..MaxDatagrams
    /\ sock \in Seq(1..MaxDatagrams) /\ Len(sock) <= SocketCap
    /\ lost \subseteq 1..MaxDatagrams /\ refused \subseteq 1..MaxDatagrams
    /\ opened \subseteq Streams /\ armed \subseteq opened
    /\ deadline \in [Streams -> 0..(MaxTime + RelayPeriod)]
    /\ alive \in [Streams -> BOOLEAN]
    /\ out \in [Streams -> Seq(0..255)]

\* A number from its big-endian bytes.
FromBigEndian(b) == FoldLeft(LAMBDA acc, x : acc * 256 + x, 0, b)

(* The reference reader of the frame format (spec §9 wire protocol: 1-byte *)
(* type, 8-byte big-endian milliseconds, 4-byte big-endian length,         *)
(* payload), as a browser splits the bytes a stream delivers; ok is FALSE  *)
(* for a truncated frame.                                                  *)
NoFrame == [ok |-> FALSE, type |-> 0, ts |-> <<0, 0>>, data |-> <<>>]
RECURSIVE ParseFrames(_)
ParseFrames(b) ==
    IF b = <<>> THEN <<>>
    ELSE IF Len(b) < 13 THEN <<NoFrame>>
    ELSE LET size == FromBigEndian(SubSeq(b, 10, 13))
         IN  IF Len(b) < 13 + size THEN <<NoFrame>>
             ELSE << [ok |-> TRUE, type |-> b[1],
                      ts |-> <<FromBigEndian(SubSeq(b, 2, 5)), FromBigEndian(SubSeq(b, 6, 9))>>,
                      data |-> SubSeq(b, 14, 13 + size)] >>
                  \o ParseFrames(SubSeq(b, 14 + size, Len(b)))

\* The datagrams a stream's bytes carry, by the reference reader.
Carried(s) == {f.data[1] : f \in {g \in ToSet(ParseFrames(out[s])) : g.data # <<>>}}

(* What each browser reads is a sequence of whole RTP frames, each holding *)
(* one datagram exactly as the source sent it, in the source's order; and *)
(* every datagram sent is in exactly one place: the socket's buffer,       *)
(* dropped by the kernel, lost to a refused Write, or on one stream.  This *)
(* composes the callbacks of all streams draining one socket with          *)
(* Frame::serialize and Send.                                              *)
StreamsCarryFrames ==
    /\ \A s \in Streams :
          LET f == ParseFrames(out[s]) IN
          /\ \A i \in DOMAIN f :
                /\ f[i].ok /\ f[i].type = kRTP /\ f[i].data # <<>>
                /\ f[i].data = Data(f[i].data[1])
          /\ \A i, j \in DOMAIN f : i < j => f[i].data[1] < f[j].data[1]
    /\ \A s, t \in Streams : s # t => Carried(s) \cap Carried(t) = {}
    /\ \A s \in Streams : Carried(s) \cap (ToSet(sock) \cup lost \cup refused) = {}
    /\ ToSet(sock) \cap (lost \cup refused) = {} /\ lost \cap refused = {}
    /\ Len(sock) = Cardinality(ToSet(sock))
    /\ ToSet(sock) \cup lost \cup refused \cup UNION {Carried(s) : s \in Streams}
          = 1..srcSent

\* Intervals destroyed with their streams so far.
Dropped == Cardinality(opened \ armed)

(* The relay drains the socket: a datagram i-th in the kernel buffer while *)
(* some interval is armed is taken by some stream's interval within i      *)
(* periods, whichever stream that is, unless an armed interval is          *)
(* destroyed meanwhile.  Every armed interval is due within one period and *)
(* each firing takes the oldest datagram; the clock's bound leaves the     *)
(* last periods out.                                                       *)
DatagramsDrained ==
    \A d \in 1..MaxDatagrams, k \in 0..Cardinality(Streams) :
        (/\ \E i \in DOMAIN sock : sock[i] = d /\ now + i * RelayPeriod <= MaxTime
         /\ armed # {} /\ Dropped = k)
            ~> (d \notin ToSet(sock) \/ Dropped > k)
=============================================================================
