--------------------------- MODULE MediaPipeline ---------------------------
(***************************************************************************)
(* The H.264-over-datagrams pipeline of the media example.  A sender cuts  *)
(* each access unit into RTP payloads with H264Payloader::Payload and      *)
(* sends each, behind an RTP header, as one WebTransport datagram.  The    *)
(* client (src/examples/media_stream/client copy.cc) registers a datagram  *)
(* reader in its session-open callback; the reader parses the RTP header,  *)
(* depacketizes with one long-lived H264Depacketizer, and appends what it  *)
(* gets to output.h264.                                                    *)
(*                                                                         *)
(* Datagrams are delivered in the order sent or not at all (spec §8.2),    *)
(* and the network may lose up to MaxLoss of them.  A datagram that       *)
(* arrives before the reader is registered is dropped: the session passes  *)
(* it on only when datagram_callback_ is set                               *)
(* (ClientSession::OnDatagramReceived), and before the client wraps the    *)
(* session quiche's default visitor drops it.                              *)
(*                                                                         *)
(* The sender is not code of this repository; it is the program the       *)
(* payloader is written for, and its RTP header is the minimal one.        *)
(***************************************************************************)
EXTENDS Naturals, Sequences, SequencesExt

CONSTANTS
    Input,      \* the access units the encoder produces, as Annex B buffers
    Mtu,        \* the MTU given to Payload
    MaxLoss     \* bound on datagrams the network loses

ASSUME Mtu \in 3..65535 /\ MaxLoss \in Nat

LOCAL Pay == INSTANCE H264Payloader
LOCAL Dep == INSTANCE H264Depacketizer

VARIABLES
    au,         \* the next access unit the sender packetizes
    payloader,  \* the sender's H264Payloader: stored SPS and PPS
    seq,        \* the next RTP sequence number
    net,        \* datagrams sent and not yet delivered or lost, in order
    lost,       \* datagrams the network lost
    client,     \* "connecting", "open" (reader registered) or "noFile"
    fua,        \* the client depacketizer's fua_buffer_
    written     \* the bytes of output.h264

vars == <<au, payloader, seq, net, lost, client, fua, written>>

\* The sender's RTP datagram: version 2, payload type 96, marker on the
\* last packet of the access unit.
RtpDatagram(payload, sn, last) ==
    << 128, (IF last THEN 128 ELSE 0) + 96, sn \div 256, sn % 256,
       0, 0, 0, 0, 0, 0, 0, 1 >> \o payload

Init ==
    /\ au = 1
    /\ payloader = Pay!InitPayloader
    /\ seq = 0
    /\ net = <<>>
    /\ lost = 0
    /\ client = "connecting"
    /\ fua = <<>>
    /\ written = <<>>

(* The sender packetizes the next access unit with H264Payloader::Payload  *)
(* (its SPS and PPS carry over to the next call) and sends every packet.   *)
SendAccessUnit ==
    /\ au <= Len(Input)
    /\ LET st == Pay!Payload(Mtu, Input[au], payloader)
           n == Len(st.out)
       IN  /\ net' = net \o [i \in 1..n |->
                                RtpDatagram(st.out[i], (seq + i - 1) % 65536, i = n)]
           /\ seq' = (seq + n) % 65536
           /\ payloader' = [st EXCEPT !.out = <<>>]
    /\ au' = au + 1
    /\ UNCHANGED <<lost, client, fua, written>>

\* The network loses a datagram in flight.
Lose ==
    /\ lost < MaxLoss
    /\ \E i \in 1..Len(net) : net' = RemoveAt(net, i)
    /\ lost' = lost + 1
    /\ UNCHANGED <<au, payloader, seq, client, fua, written>>

(* The client's session-open callback: a new depacketizer, output.h264     *)
(* opened, and the datagram reader registered; if the file does not open   *)
(* the callback returns before registering.                                *)
OpenSession ==
    /\ client = "connecting"
    /\ \E opened \in BOOLEAN :
          client' = IF opened THEN "open" ELSE "noFile"
    /\ fua' = <<>>
    /\ written' = <<>>
    /\ UNCHANGED <<au, payloader, seq, net, lost>>

(* The reader (ClientSession::OnDatagramReceived, then the lambda of       *)
(* client copy.cc): RTP parse, depacketize, append the output to the file; *)
(* a failure of either returns without writing.  Without a registered     *)
(* reader the datagram is dropped.                                         *)
OnDatagram(d) ==
    IF client # "open" THEN UNCHANGED <<fua, written>>
    ELSE LET rtp == Dep!RtpUnmarshal(d)
             r == Dep!DepacketizerUnmarshal(FALSE, rtp.payload, fua)
         IN  /\ fua' = IF rtp.ok THEN r.fua ELSE fua
             /\ written' = IF rtp.ok /\ r.ok THEN written \o r.out ELSE written

\* The next datagram in flight arrives.
Deliver ==
    /\ net # <<>>
    /\ OnDatagram(Head(net))
    /\ net' = Tail(net)
    /\ UNCHANGED <<au, payloader, seq, lost, client>>

Next == SendAccessUnit \/ Lose \/ OpenSession \/ Deliver

(* The sender sends every access unit, the event loop runs the open        *)
(* callback once the session is ready, and datagrams in flight arrive.     *)
(* SendAccessUnit is enabled exactly when au <= Len(Input) and Deliver     *)
(* when net # <<>>, so their weak fairness is written with those           *)
(* conditions (TLC then need not run the payloader or the depacketizer to  *)
(* decide enabledness).                                                    *)
Spec == Init /\ [][Next]_vars
            /\ (<>[](au <= Len(Input)) => []<><<SendAccessUnit>>_vars)
            /\ (<>[](net # <<>>) => []<><<Deliver>>_vars)
            /\ WF_vars(OpenSession)
-----------------------------------------------------------------------------
(* Reference: the NAL units of an Annex B buffer are the bytes after each  *)
(* 00 00 01 up to the next one, trailing zero bytes (the first byte of a   *)
(* 4-byte start code) not included.                                        *)
StartCodes(p) ==
    SelectSeq([i \in 1..(Len(p) - 2) |-> i],
              LAMBDA i : p[i] = 0 /\ p[i + 1] = 0 /\ p[i + 2] = 1)

RECURSIVE StripZeros(_)
StripZeros(s) == IF s # <<>> /\ Last(s) = 0 THEN StripZeros(Front(s)) ELSE s

AnnexBUnits(p) ==
    LET c == StartCodes(p)
    IN  [k \in 1..Len(c) |->
            StripZeros(SubSeq(p, c[k] + 3, IF k < Len(c) THEN c[k + 1] - 1 ELSE Len(p)))]

\* The NAL units the encoder produced, in order.
InputNalus == FlattenSeq([a \in 1..Len(Input) |-> AnnexBUnits(Input[a])])
-----------------------------------------------------------------------------
(* Every datagram fits the MTU the payloader was given: STAP-A, single NAL *)
(* and FU-A payloads (EmitNALUs, CreateFUAPackets) are at most Mtu bytes.  *)
PayloadsFitMtu == \A i \in 1..Len(net) : Len(net[i]) <= 12 + Mtu

(* Whatever datagrams are lost, every NAL unit in output.h264 is one the   *)
(* encoder produced: the comment in client copy.cc:48 expects a lost RTP   *)
(* packet to make depacketizing fail, not to produce a different NAL unit. *)
OutputNalusWereSent == ToSet(AnnexBUnits(written)) \subseteq ToSet(InputNalus)
=============================================================================
