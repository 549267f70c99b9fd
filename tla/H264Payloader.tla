--------------------------- MODULE H264Payloader ---------------------------
(***************************************************************************)
(* The H.264 RTP payloader of the media example                           *)
(* (src/examples/media_stream/h264_rtp_packetizer.cc): H264Payloader      *)
(* ::Payload cuts an Annex B access unit at its start codes, drops access *)
(* unit delimiters and filler, holds SPS and PPS back to bundle them with  *)
(* the next NAL unit in a STAP-A packet, and sends every other NAL unit    *)
(* whole when it fits the MTU and as FU-A fragments when it does not.      *)
(*                                                                         *)
(* A byte is a number in 0..255 and a buffer a sequence of bytes.  The     *)
(* C++ indexes buffers from 0; At(p, i) is the code's payload[i].  The     *)
(* payloader's member state (sps_nalu_, pps_nalu_, disable_stapa_) is a    *)
(* record threaded through the calls.                                      *)
(***************************************************************************)
EXTENDS Naturals, Sequences, Bitwise

NALU_TYPE_BITMASK == 31      \* 0x1F
NALU_REF_IDC_BITMASK == 96   \* 0x60
FU_START_BITMASK == 128      \* 0x80
FU_END_BITMASK == 64         \* 0x40
STAPA_NALU_TYPE == 24
FUA_NALU_TYPE == 28
SPS_NALU_TYPE == 7
PPS_NALU_TYPE == 8
AUD_NALU_TYPE == 9
FILLER_NALU_TYPE == 12

\* payload[i] of the C++ code.
At(p, i) == p[i + 1]

\* The bytes payload[from .. to-1].
Slice(p, from, to) == SubSeq(p, from + 1, to)

\* A 16-bit length, big endian.
U16(n) == <<(n \div 256) % 256, n % 256>>

Min2(a, b) == IF a <= b THEN a ELSE b

(* H264Payloader::CreateFUAPackets: the NAL header byte is replaced by an  *)
(* FU indicator (NRI | 28) and an FU header (type, start and end bits);    *)
(* the rest is cut into fragments of mtu - 2 bytes.                        *)
RECURSIVE FuaFrom(_, _, _, _, _)
FuaFrom(mtu, nalu, index, remaining, first) ==
    IF remaining = 0 THEN <<>>
    ELSE LET size == Min2(mtu - 2, remaining)
             hdr0 == At(nalu, 0)
             startBit == IF first THEN FU_START_BITMASK ELSE 0
             endBit == IF remaining = size THEN FU_END_BITMASK ELSE 0
             packet == << (hdr0 & NALU_REF_IDC_BITMASK) | FUA_NALU_TYPE,
                          ((hdr0 & NALU_TYPE_BITMASK) | startBit) | endBit >>
                       \o Slice(nalu, index, index + size)
         IN <<packet>> \o FuaFrom(mtu, nalu, index + size, remaining - size, FALSE)

\* Fault variant (mutation check): fragments of mtu - 1 bytes, the FU
\* header forgotten in the size.
CreateFUAPacketsWideFragments(mtu, nalu) ==
    IF Len(nalu) <= 1 THEN <<>> ELSE FuaFrom(mtu + 1, nalu, 1, Len(nalu) - 1, TRUE)

CreateFUAPackets(mtu, nalu) ==
    IF Len(nalu) <= 1 THEN <<>> ELSE FuaFrom(mtu, nalu, 1, Len(nalu) - 1, TRUE)

(* The start-code search of EmitNALUs: from start + 3, the first i with a  *)
(* 3-byte code 00 00 01 at i, or a 4-byte code 00 00 00 01 at i - 1; the   *)
(* 3-byte test comes first.  The end of the buffer when there is none.     *)
RECURSIVE FindNextStart(_, _)
FindNextStart(p, i) ==
    IF i >= Len(p) THEN Len(p)
    ELSE IF i + 2 < Len(p) /\ At(p, i) = 0 /\ At(p, i + 1) = 0 /\ At(p, i + 2) = 1
         THEN i
    ELSE IF i + 3 < Len(p) /\ At(p, i - 1) = 0 /\ At(p, i) = 0
            /\ At(p, i + 1) = 0 /\ At(p, i + 2) = 1
         THEN i - 1
    ELSE FindNextStart(p, i + 1)

\* The length of the start code at start (0 for a buffer without one).
StartCodeOffset(p, start) ==
    IF start + 3 < Len(p) /\ At(p, start) = 0 /\ At(p, start + 1) = 0
       /\ At(p, start + 2) = 0 /\ At(p, start + 3) = 1 THEN 4
    ELSE IF start + 2 < Len(p) /\ At(p, start) = 0 /\ At(p, start + 1) = 0
       /\ At(p, start + 2) = 1 THEN 3
    ELSE IF start = 0 THEN 0
    ELSE 3

\* The STAP-A packet carrying SPS, PPS and one NAL unit.
StapA(sps, pps, nalu) ==
    <<120>> \o U16(Len(sps)) \o sps \o U16(Len(pps)) \o pps \o U16(Len(nalu)) \o nalu

\* The size of that packet.
StapASize(sps, pps, nalu) == 1 + 2 + Len(sps) + 2 + Len(pps) + 2 + Len(nalu)

(* One NAL unit of EmitNALUs: skip AUD and filler, store SPS and PPS,      *)
(* bundle another NAL unit with stored SPS and PPS when the STAP-A fits    *)
(* the MTU (and clear them), otherwise send it alone or as FU-A.           *)
EmitNALU(mtu, nalu, st) ==
    LET type == At(nalu, 0) & NALU_TYPE_BITMASK
        alone == IF Len(nalu) <= mtu THEN <<nalu>> ELSE CreateFUAPackets(mtu, nalu)
    IN  IF type = AUD_NALU_TYPE \/ type = FILLER_NALU_TYPE THEN st
        ELSE IF ~st.disableStapA /\ type = SPS_NALU_TYPE THEN [st EXCEPT !.sps = nalu]
        ELSE IF ~st.disableStapA /\ type = PPS_NALU_TYPE THEN [st EXCEPT !.pps = nalu]
        ELSE IF ~st.disableStapA /\ st.sps # <<>> /\ st.pps # <<>>
                /\ StapASize(st.sps, st.pps, nalu) <= mtu
             THEN [st EXCEPT !.out = @ \o <<StapA(st.sps, st.pps, nalu)>>,
                             !.sps = <<>>, !.pps = <<>>]
        ELSE [st EXCEPT !.out = @ \o alone]

(* H264Payloader::EmitNALUs: walk the buffer from start code to start      *)
(* code; the NAL unit runs from after the start code to the next one.      *)
RECURSIVE EmitFrom(_, _, _, _)
EmitFrom(mtu, p, start, st) ==
    IF start >= Len(p) THEN st
    ELSE LET next == FindNextStart(p, start + 3)
             from == start + StartCodeOffset(p, start)
             st2 == IF next > from THEN EmitNALU(mtu, Slice(p, from, next), st) ELSE st
         IN  EmitFrom(mtu, p, next, st2)

(* H264Payloader::Payload: the packets for one access unit, and the        *)
(* payloader state after it.                                               *)
Payload(mtu, p, st) ==
    IF Len(p) = 0 THEN [st EXCEPT !.out = <<>>]
    ELSE EmitFrom(mtu, p, 0, [st EXCEPT !.out = <<>>])

\* A fresh payloader: no SPS or PPS stored, STAP-A enabled.
InitPayloader == [sps |-> <<>>, pps |-> <<>>, disableStapA |-> FALSE, out |-> <<>>]
=============================================================================
