------------------------- MODULE H264Depacketizer -------------------------
(***************************************************************************)
(* The receive side of the media example: RTPPacket::Unmarshal            *)
(* (src/examples/media_stream/rtp_packet.cc) takes the RTP header off a    *)
(* datagram, and H264Depacketizer::Unmarshal with H264Packet::ParseBody    *)
(* (h264_rtp_depacketizer.cc, h264_packet.cc) turns the payload back into  *)
(* Annex B: a single NAL unit is passed on, a STAP-A is split, and FU-A    *)
(* fragments are gathered in fua_buffer_ until one carries the end bit.    *)
(*                                                                         *)
(* A result is a record: ok, the bytes written to output_payload, and the  *)
(* depacketizer's fua_buffer_ after the call.                              *)
(***************************************************************************)
EXTENDS Naturals, Sequences, Bitwise

LOCAL P == INSTANCE H264Payloader

At(p, i) == P!At(p, i)
Slice(p, from, to) == P!Slice(p, from, to)

\* A big-endian 16-bit number at payload[i].
ReadU16(p, i) == At(p, i) * 256 + At(p, i + 1)

(* H264Packet::DoPackaging: a 4-byte length (AVC) or the 4-byte Annex B   *)
(* start code before the NAL unit.                                         *)
DoPackaging(isAvc, nalu) ==
    IF isAvc
    THEN << (Len(nalu) \div 16777216) % 256, (Len(nalu) \div 65536) % 256,
            (Len(nalu) \div 256) % 256, Len(nalu) % 256 >> \o nalu
    ELSE <<0, 0, 0, 1>> \o nalu

SingleNaluTypes == (1..12) \cup (19..23)

(* The STAP-A loop of ParseBody: 2-byte length, NAL unit, until the end;   *)
(* a length past the end is SHORT_PACKET (what was packaged so far stays   *)
(* in output_payload).                                                     *)
RECURSIVE StapAFrom(_, _, _, _)
StapAFrom(isAvc, p, off, out) ==
    IF off >= Len(p) \/ off + 2 > Len(p) THEN [ok |-> TRUE, out |-> out]
    ELSE LET n == ReadU16(p, off)
         IN  IF off + 2 + n > Len(p) THEN [ok |-> FALSE, out |-> out]
             ELSE StapAFrom(isAvc, p, off + 2 + n,
                            out \o DoPackaging(isAvc, Slice(p, off + 2, off + 2 + n)))

(* The FU-A case of ParseBody: the fragment is appended to fua_buffer_,    *)
(* whatever its start bit; on the end bit the NAL header is rebuilt from   *)
(* the FU indicator's NRI and the FU header's type, the NAL unit packaged  *)
(* and the buffer cleared.                                                 *)
FuA(isAvc, p, fua) ==
    LET buf == fua \o Slice(p, 2, Len(p))
        header == (At(p, 0) & P!NALU_REF_IDC_BITMASK) | (At(p, 1) & P!NALU_TYPE_BITMASK)
    IN  IF (At(p, 1) & P!FU_END_BITMASK) # 0
        THEN [ok |-> TRUE, out |-> DoPackaging(isAvc, <<header>> \o buf), fua |-> <<>>]
        ELSE [ok |-> TRUE, out |-> <<>>, fua |-> buf]

(* H264Packet::ParseBody, by the NAL unit type of the first byte.          *)
ParseBody(isAvc, p, fua) ==
    LET type == At(p, 0) & P!NALU_TYPE_BITMASK
    IN  IF type \in SingleNaluTypes
        THEN [ok |-> TRUE, out |-> DoPackaging(isAvc, p), fua |-> fua]
        ELSE IF type = P!STAPA_NALU_TYPE
        THEN LET s == StapAFrom(isAvc, p, 1, <<>>)
             IN  [ok |-> s.ok, out |-> s.out, fua |-> fua]
        ELSE IF type = P!FUA_NALU_TYPE
        THEN IF Len(p) < 2 THEN [ok |-> FALSE, out |-> <<>>, fua |-> fua]
             ELSE FuA(isAvc, p, fua)
        ELSE [ok |-> FALSE, out |-> <<>>, fua |-> fua]

(* H264Depacketizer::Unmarshal and H264Packet::Unmarshal: an empty or     *)
(* missing payload fails before ParseBody.                                 *)
DepacketizerUnmarshal(isAvc, p, fua) ==
    IF Len(p) = 0 THEN [ok |-> FALSE, out |-> <<>>, fua |-> fua]
    ELSE ParseBody(isAvc, p, fua)

(* RTPPacket::Unmarshal: a 12-byte header, the CSRC list, an optional      *)
(* extension and optional padding; the rest is the payload (none, as a     *)
(* null payload_, when it is empty).  The version is not checked.          *)
RtpUnmarshal(b) ==
    LET fail == [ok |-> FALSE, payload |-> <<>>]
        padding == (At(b, 0) \div 32) % 2 = 1
        extension == (At(b, 0) \div 16) % 2 = 1
        csrcHeader == 12 + (At(b, 0) & 15) * 4
        extSize == ReadU16(b, csrcHeader + 2) * 4
        header == IF extension THEN csrcHeader + 4 + extSize ELSE csrcHeader
        size == Len(b) - header
        pad == IF padding /\ size > 0 THEN At(b, Len(b) - 1) ELSE 0
    IN  IF Len(b) < 12 \/ Len(b) < csrcHeader THEN fail
        ELSE IF extension /\ (Len(b) < csrcHeader + 4 \/ Len(b) < header) THEN fail
        ELSE IF padding /\ size > 0 /\ (pad = 0 \/ pad > size) THEN fail
        ELSE [ok |-> TRUE, payload |-> Slice(b, header, header + size - pad)]
=============================================================================
