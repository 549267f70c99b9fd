---------------------------- MODULE ClientStream ----------------------------
(***************************************************************************)
(* The read side of the client stream adapter: ClientStreamVisitor::       *)
(* OnCanRead (src/web_transport_client_stream.cc), which turns the QUIC    *)
(* stream's "peek the next readable region, then skip n bytes" interface   *)
(* into byte vectors handed to the stream's read callback, an empty vector *)
(* meaning FIN.                                                            *)
(*                                                                         *)
(* The peer writes bytes and finally a FIN; the network hands them to the  *)
(* receiving stream in order (QUIC retransmits and reassembles) but in     *)
(* arbitrary pieces, which the stream's sequencer keeps as a list of       *)
(* contiguous readable regions.  The stack calls OnCanRead whenever new    *)
(* data or the FIN has arrived.  Byte number i of the stream carries the   *)
(* value i, so a lost, repeated or reordered byte shows in what the        *)
(* callback receives; 0 is the value of a buffer byte nothing was copied   *)
(* into.  The read callback is taken to be registered when the stream is   *)
(* created (inside the stream callback), before any OnCanRead can run.     *)
(***************************************************************************)
EXTENDS Naturals, Sequences, SequencesExt

CONSTANTS
    MaxBytes,       \* bound on the bytes the peer writes on the stream
    ReadHeadroom    \* the extra space OnCanRead adds to its buffer (4096)

ASSUME MaxBytes \in Nat /\ ReadHeadroom \in Nat

VARIABLES
    sentLen,        \* bytes the peer has written: 1..sentLen
    finSent,        \* the peer has finished the stream (its final size is sentLen)
    arrived,        \* bytes that have reached the receiving stream
    buf,            \* the sequencer's readable regions, each a non-empty sequence
    consumed,       \* bytes the adapter has consumed with SkipBytes
    finArrived,     \* the FIN has reached the receiving stream
    canRead,        \* an OnCanRead call is due
    reads           \* the vectors passed to the read callback, in order

vars == <<sentLen, finSent, arrived, buf, consumed, finArrived, canRead, reads>>
-----------------------------------------------------------------------------
\* The QUIC stream interface the adapter uses (quic::WebTransportStream).

\* ReadableBytes(): all bytes the sequencer holds.
Readable == Len(FlattenSeq(buf))

\* IsClosed(): every byte up to the FIN has been consumed.  SkipBytes(n)
\* returns this, evaluated after the skip, with c bytes consumed in all.
Closed(c) == finArrived /\ c = sentLen

\* SkipBytes(n) on the regions: drop the first n bytes.
RECURSIVE SkipFront(_, _)
SkipFront(regs, n) ==
    IF n = 0 THEN regs
    ELSE IF n >= Len(Head(regs)) THEN SkipFront(Tail(regs), n - Len(Head(regs)))
    ELSE <<SubSeq(Head(regs), n + 1, Len(Head(regs)))>> \o Tail(regs)

\* std::memcpy(buffer.data() + off, bytes, Len(bytes)).
CopyInto(buffer, off, bytes) ==
    [i \in DOMAIN buffer |->
        IF off < i /\ i <= off + Len(bytes) THEN bytes[i - off] ELSE buffer[i]]
-----------------------------------------------------------------------------
(* The copy loop of OnCanRead.  With `total` bytes already in `buffer`,    *)
(* peek the next region; stop if it is empty or the buffer is full; copy   *)
(* min(room, region) bytes at offset total, skip them, and stop if         *)
(* SkipBytes reports the FIN.  `base` is the count consumed before the     *)
(* call.  The result is the regions left, the buffer, the byte count and   *)
(* whether the FIN was seen.                                               *)

\* Fault variant (mutation check): the region is copied to the start of the
\* buffer rather than after the bytes already read.
RECURSIVE ReadLoopAtStart(_, _, _, _)
ReadLoopAtStart(regs, buffer, total, base) ==
    IF regs = <<>>
    THEN [regs |-> regs, buffer |-> buffer, total |-> total, fin |-> FALSE]
    ELSE LET len == Min({Len(buffer) - total, Len(Head(regs))})
         IN IF len = 0
            THEN [regs |-> regs, buffer |-> buffer, total |-> total, fin |-> FALSE]
            ELSE LET buffer2 == CopyInto(buffer, 0, SubSeq(Head(regs), 1, len))
                     regs2 == SkipFront(regs, len)
                 IN IF Closed(base + total + len)
                    THEN [regs |-> regs2, buffer |-> buffer2,
                          total |-> total + len, fin |-> TRUE]
                    ELSE ReadLoopAtStart(regs2, buffer2, total + len, base)

\* Fault variant (mutation check): one byte fewer is skipped than copied.
RECURSIVE ReadLoopShortSkip(_, _, _, _)
ReadLoopShortSkip(regs, buffer, total, base) ==
    IF regs = <<>>
    THEN [regs |-> regs, buffer |-> buffer, total |-> total, fin |-> FALSE]
    ELSE LET len == Min({Len(buffer) - total, Len(Head(regs))})
         IN IF len = 0
            THEN [regs |-> regs, buffer |-> buffer, total |-> total, fin |-> FALSE]
            ELSE LET buffer2 == CopyInto(buffer, total, SubSeq(Head(regs), 1, len))
                     regs2 == SkipFront(regs, len - 1)
                 IN IF Closed(base + total + len - 1)
                    THEN [regs |-> regs2, buffer |-> buffer2,
                          total |-> total + len, fin |-> TRUE]
                    ELSE ReadLoopShortSkip(regs2, buffer2, total + len, base)

RECURSIVE ReadLoop(_, _, _, _)
ReadLoop(regs, buffer, total, base) ==
    IF regs = <<>>
    THEN [regs |-> regs, buffer |-> buffer, total |-> total, fin |-> FALSE]
    ELSE LET len == Min({Len(buffer) - total, Len(Head(regs))})
         IN IF len = 0
            THEN [regs |-> regs, buffer |-> buffer, total |-> total, fin |-> FALSE]
            ELSE LET buffer2 == CopyInto(buffer, total, SubSeq(Head(regs), 1, len))
                     regs2 == SkipFront(regs, len)
                 IN IF Closed(base + total + len)
                    THEN [regs |-> regs2, buffer |-> buffer2,
                          total |-> total + len, fin |-> TRUE]
                    ELSE ReadLoop(regs2, buffer2, total + len, base)

\* Fault variant (mutation check): a fixed-size buffer.
FixedReadBufferSize == ReadHeadroom

\* buffer.resize(ReadableBytes() + 4096): zero-filled.
ReadBufferSize == Readable + ReadHeadroom

\* The callback deliveries after the loop: the bytes read, if any (FIN or
\* not), else an empty vector if the FIN was seen.
\* Fault variant (mutation check): an empty vector whenever nothing was read.
DeliverAlwaysEmpty(r) ==
    IF r.total > 0 THEN <<SubSeq(r.buffer, 1, r.total)>> ELSE <<<<>>>>

\* Fault variant (mutation check): the buffer is passed on without the
\* resize to the bytes read.
DeliverWholeBuffer(r) ==
    IF r.total > 0 THEN <<r.buffer>>
    ELSE IF r.fin THEN <<<<>>>>
    ELSE <<>>

Deliver(r) ==
    IF r.total > 0 THEN <<SubSeq(r.buffer, 1, r.total)>>
    ELSE IF r.fin THEN <<<<>>>>
    ELSE <<>>

(* OnCanRead: if the next region is empty and the FIN is next, SkipBytes(0) *)
(* and, if it reports the FIN, deliver an empty vector; otherwise run the   *)
(* copy loop over a zero-filled buffer and deliver its result.              *)
OnCanRead ==
    /\ canRead
    /\ canRead' = FALSE
    /\ LET peeked == IF buf = <<>> THEN <<>> ELSE Head(buf)
           finNext == finArrived /\ consumed + Len(peeked) = sentLen
       IN IF finNext /\ peeked = <<>>
          THEN /\ reads' = IF Closed(consumed) THEN Append(reads, <<>>) ELSE reads
               /\ UNCHANGED <<buf, consumed>>
          ELSE LET r == ReadLoop(buf, [i \in 1..ReadBufferSize |-> 0], 0, consumed)
               IN /\ buf' = r.regs
                  /\ consumed' = consumed + r.total
                  /\ reads' = reads \o Deliver(r)
    /\ UNCHANGED <<sentLen, finSent, arrived, finArrived>>
-----------------------------------------------------------------------------
\* The peer and the network.

PeerWrite(n) ==
    /\ ~finSent
    /\ sentLen + n <= MaxBytes
    /\ sentLen' = sentLen + n
    /\ UNCHANGED <<finSent, arrived, buf, consumed, finArrived, canRead, reads>>

PeerFinish ==
    /\ ~finSent
    /\ finSent' = TRUE
    /\ UNCHANGED <<sentLen, arrived, buf, consumed, finArrived, canRead, reads>>

(* The next n bytes reach the stream, either extending the last readable   *)
(* region or as a region of their own; the stack will call OnCanRead.      *)
Arrive(n, extend) ==
    /\ arrived + n <= sentLen
    /\ LET bytes == [i \in 1..n |-> arrived + i]
       IN buf' = IF extend /\ buf # <<>>
                    THEN [buf EXCEPT ![Len(buf)] = @ \o bytes]
                    ELSE Append(buf, bytes)
    /\ arrived' = arrived + n
    /\ canRead' = TRUE
    /\ UNCHANGED <<sentLen, finSent, consumed, finArrived, reads>>

\* The FIN (the final size) reaches the stream, possibly ahead of data.
FinArrives ==
    /\ finSent
    /\ ~finArrived
    /\ finArrived' = TRUE
    /\ canRead' = TRUE
    /\ UNCHANGED <<sentLen, finSent, arrived, buf, consumed, reads>>

Network ==
    \/ \E n \in 1..MaxBytes, extend \in BOOLEAN : Arrive(n, extend)
    \/ FinArrives

Init ==
    /\ sentLen = 0
    /\ finSent = FALSE
    /\ arrived = 0
    /\ buf = <<>>
    /\ consumed = 0
    /\ finArrived = FALSE
    /\ canRead = FALSE
    /\ reads = <<>>

Next ==
    \/ \E n \in 1..MaxBytes : PeerWrite(n)
    \/ PeerFinish
    \/ Network
    \/ OnCanRead

(* QUIC delivers what was sent (it retransmits), and the event loop runs    *)
(* every due OnCanRead; the peer need not write or finish.                  *)
Spec == Init /\ [][Next]_vars /\ WF_vars(Network) /\ WF_vars(OnCanRead)
-----------------------------------------------------------------------------
TypeOK ==
    /\ sentLen \in 0..MaxBytes
    /\ finSent \in BOOLEAN
    /\ arrived \in 0..sentLen
    /\ buf \in Seq(Seq(1..MaxBytes) \ {<<>>})
    /\ consumed \in 0..arrived
    /\ finArrived \in BOOLEAN
    /\ canRead \in BOOLEAN
    /\ reads \in Seq(Seq(1..MaxBytes))

Delivered == FlattenSeq(reads)

(* spec §5 and §8.3: the bytes the read callback has received, joined, are *)
(* exactly the bytes the adapter consumed from the stream, in stream order *)
(* with none lost or repeated, however the data was split into regions and *)
(* notifications.                                                          *)
ReadsMatchConsumed ==
    Delivered = [i \in 1..consumed |-> i]

(* An empty vector (the FIN signal) is delivered only once the whole       *)
(* stream up to its FIN has been consumed, and nothing is delivered after  *)
(* it; in particular a FIN that overtakes missing data is not signalled    *)
(* early.                                                                  *)
EmptyReadOnlyAtEnd ==
    \A i \in DOMAIN reads :
        reads[i] = <<>> => i = Len(reads) /\ Closed(consumed)

(* Every byte the peer writes is eventually handed to the read callback.   *)
SentDataDelivered ==
    \A n \in 1..MaxBytes : (sentLen >= n) ~> (Len(Delivered) >= n)

(* Refinement: the read path implements ByteStream, the in-order byte      *)
(* stream the application is promised.  The abstract stream's bytes are    *)
(* what the peer wrote; what it has received is what the read callback got, *)
(* joined; its FIN is an empty vector among the reads.  Every OnCanRead    *)
(* step is one abstract Receive, one ReceiveFin, or no step at all; the    *)
(* network's steps are invisible; and ByteStream's fairness (every written *)
(* byte is received) follows from the stack's.                             *)
Abstract == INSTANCE ByteStream
    WITH written <- sentLen, finished <- finSent, received <- Delivered,
         finSeen <- (\E i \in DOMAIN reads : reads[i] = <<>>)

ImplementsByteStream == Abstract!Spec

(* spec §4.4 and §8.3 / scenario C: after the peer finishes the stream the *)
(* receiver observes exactly one empty vector, after all the data.         *)
FinSignalled ==
    finSent ~> (reads # <<>> /\ Last(reads) = <<>>)
=============================================================================
