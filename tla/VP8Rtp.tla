------------------------------- MODULE VP8Rtp -------------------------------
(***************************************************************************)
(* The VP8 RTP payloader and depacketizer of the media example            *)
(* (src/examples/media_stream/vp8_rtp_packetizer.cc, vp8_packet.cc,        *)
(* vp8_rtp_depacketizer.cc).  VP8Payloader::Payload cuts a frame into      *)
(* fragments behind the RFC 7741 payload descriptor: the S bit on the      *)
(* first packet, and with picture IDs enabled an X byte and a 7- or 15-bit *)
(* PictureID; picture_id_ advances by one per frame, modulo 2^15.          *)
(* VP8Packet::Unmarshal parses the descriptor and returns the rest.        *)
(*                                                                         *)
(* A byte is a number in 0..255, a buffer a sequence of bytes; At(p, i) is *)
(* the code's p[i].  The payloader's members are a record.                 *)
(***************************************************************************)
EXTENDS Naturals, Sequences, SequencesExt, Bitwise

kVP8HeaderSize == 1

At(p, i) == p[i + 1]

MinOf(a, b) == IF a <= b THEN a ELSE b

\* VP8Payloader::VP8Payloader: picture IDs off, picture_id_ 0.
InitVP8Payloader == [enablePictureId |-> FALSE, pictureId |-> 0]

\* VP8Payloader::EnablePictureID.
EnablePictureID(st, enable) == [st EXCEPT !.enablePictureId = enable]

\* VP8Payloader::SetPictureID: only the low 15 bits are kept.
SetPictureID(st, id) == [st EXCEPT !.pictureId = id & 32767]

\* Fault variant (mutation check): a 7-bit PictureID counted as one byte
\* of descriptor instead of two (the X byte forgotten).
PayloadHeaderSizeShort(st) ==
    IF ~st.enablePictureId \/ st.pictureId = 0 THEN kVP8HeaderSize
    ELSE IF st.pictureId < 128 THEN kVP8HeaderSize + 1
    ELSE kVP8HeaderSize + 3

(* using_header_size of Payload: the required byte, plus the X byte and   *)
(* one or two PictureID bytes when picture IDs are on and the ID is not 0. *)
PayloadHeaderSize(st) ==
    IF ~st.enablePictureId \/ st.pictureId = 0 THEN kVP8HeaderSize
    ELSE IF st.pictureId < 128 THEN kVP8HeaderSize + 2
    ELSE kVP8HeaderSize + 3

(* The descriptor of one packet: S bit on the first, then the switch on    *)
(* using_header_size; the bytes the switch does not set stay 0.            *)
Descriptor(st, first) ==
    LET h == PayloadHeaderSize(st)
        s == IF first THEN 16 ELSE 0
        pid == st.pictureId
    IN  IF h = kVP8HeaderSize + 2 THEN <<s | 128, 128, pid & 127>>
        ELSE IF h = kVP8HeaderSize + 3
             THEN <<s | 128, 128, 128 | ((pid \div 256) & 127), pid & 255>>
        ELSE <<s>>

(* The fragment loop of Payload: max_fragment_size bytes at a time.        *)
RECURSIVE Fragments(_, _, _, _, _)
Fragments(st, max, frame, index, first) ==
    IF index >= Len(frame) THEN <<>>
    ELSE LET size == MinOf(max, Len(frame) - index)
         IN  << Descriptor(st, first) \o SubSeq(frame, index + 1, index + size) >>
             \o Fragments(st, max, frame, index + size, FALSE)

(* VP8Payloader::Payload: no packets (and picture_id_ unchanged) for an    *)
(* empty frame or an MTU that leaves no room after the descriptor;        *)
(* otherwise the packets, and picture_id_ advanced modulo 2^15.            *)
VP8Payload(st, mtu, frame) ==
    LET max == mtu - PayloadHeaderSize(st)
    IN  IF frame = <<>> \/ max <= 0 THEN [st |-> st, packets |-> <<>>]
        ELSE [st |-> [st EXCEPT !.pictureId = (@ + 1) & 32767],
              packets |-> Fragments(st, max, frame, 0, TRUE)]

(* VP8Packet::Unmarshal (through VP8Depacketizer::Unmarshal): the          *)
(* required byte, the X byte, a 7- or 15-bit PictureID, TL0PICIDX and      *)
(* TID/KEYIDX as their flags say, each checked against the packet's end;   *)
(* the rest is the output payload.  ok is VP8_PACKET_OK.                   *)
VP8Unmarshal(p) ==
    LET fail == [ok |-> FALSE, s |-> 0, pictureId |-> 0, payload |-> <<>>]
        x == At(p, 0) & 128
        iB == IF x # 0 THEN 1 ELSE 0                          \* X byte index
        i == x # 0 /\ At(p, 1) & 128 # 0
        l == x # 0 /\ At(p, 1) & 64 # 0
        tk == x # 0 /\ At(p, 1) & 48 # 0
        pB == 1 + iB                                          \* PictureID index
        m == i /\ At(p, pB) & 128 # 0
        lB == pB + (IF ~i THEN 0 ELSE IF m THEN 2 ELSE 1)     \* TL0PICIDX index
        tB == lB + (IF l THEN 1 ELSE 0)                       \* TID/KEYIDX index
        rest == tB + (IF tk THEN 1 ELSE 0)
        pictureId == IF ~i THEN 0
                     ELSE IF m THEN (At(p, pB) & 127) * 256 + At(p, pB + 1)
                     ELSE At(p, pB)
    IN  IF Len(p) = 0 THEN fail
        ELSE IF x # 0 /\ iB >= Len(p) THEN fail
        ELSE IF i /\ pB >= Len(p) THEN fail
        ELSE IF m /\ pB + 1 >= Len(p) THEN fail
        ELSE IF l /\ lB >= Len(p) THEN fail
        ELSE IF tk /\ tB >= Len(p) THEN fail
        ELSE [ok |-> TRUE, s |-> (At(p, 0) & 16) \div 16, pictureId |-> pictureId,
              payload |-> SubSeq(p, rest + 1, Len(p))]

\* VP8Depacketizer::IsPartitionHead: the S bit of a non-empty payload.
IsPartitionHead(p) == Len(p) >= 1 /\ At(p, 0) & 16 # 0
-----------------------------------------------------------------------------
(* The payloader as an object the application drives: it configures        *)
(* picture IDs and payloads frames, and picture_id_ carries over from one   *)
(* frame to the next.  Frames have up to 5 bytes (byte i carries i), MTUs   *)
(* go up to 6, and picture IDs are set around the 7-bit, 15-bit and zero    *)
(* edges (32768 to see the mask).                                           *)
CONSTANT MaxVP8Frames   \* bound on the frames payloaded

VARIABLES
    vp8,        \* the VP8Payloader's members
    vp8Frames   \* frames payloaded so far

vp8Vars == <<vp8, vp8Frames>>

VP8Frames == {[i \in 1..n |-> i] : n \in 0..5}
VP8Mtus == 1..6
VP8PictureIds == {0, 1, 127, 128, 32767, 32768}

VP8Init == vp8 = InitVP8Payloader /\ vp8Frames = 0

VP8EnablePictureID ==
    /\ \E enable \in BOOLEAN : vp8' = EnablePictureID(vp8, enable)
    /\ UNCHANGED vp8Frames

VP8SetPictureID ==
    /\ \E id \in VP8PictureIds : vp8' = SetPictureID(vp8, id)
    /\ UNCHANGED vp8Frames

\* One call of Payload; only its effect on the payloader is kept.
VP8PayloadFrame ==
    /\ vp8Frames < MaxVP8Frames
    /\ \E mtu \in VP8Mtus, f \in VP8Frames : vp8' = VP8Payload(vp8, mtu, f).st
    /\ vp8Frames' = vp8Frames + 1

VP8Next == VP8EnablePictureID \/ VP8SetPictureID \/ VP8PayloadFrame

(* From whatever state the payloader has reached, a frame payloaded by     *)
(* VP8Payloader::Payload and each packet unmarshalled by                   *)
(* VP8Depacketizer::Unmarshal comes back whole: every packet fits the MTU  *)
(* and parses, only the first is a partition head, the PictureID read is   *)
(* the one the payloader held (0 with picture IDs off), and the payloads   *)
(* joined are the frame; picture_id_ then advances by one modulo 2^15.     *)
(* When nothing is sent the picture ID is not consumed, and an MTU of 5    *)
(* (the largest descriptor plus a byte) always carries a non-empty frame.  *)
VP8RoundTrip ==
    \A mtu \in VP8Mtus, f \in VP8Frames :
        LET r == VP8Payload(vp8, mtu, f)
            n == Len(r.packets)
            u == [k \in 1..n |-> VP8Unmarshal(r.packets[k])]
        IN  /\ \A k \in 1..n :
                  /\ Len(r.packets[k]) <= mtu
                  /\ u[k].ok
                  /\ IsPartitionHead(r.packets[k]) <=> k = 1
                  /\ u[k].pictureId = (IF vp8.enablePictureId THEN vp8.pictureId ELSE 0)
            /\ n > 0 => /\ FlattenSeq([k \in 1..n |-> u[k].payload]) = f
                        /\ r.st.pictureId = (vp8.pictureId + 1) % 32768
            /\ n = 0 => r.st = vp8
            /\ (f # <<>> /\ mtu >= 5) => n > 0
=============================================================================
