---------------------------- MODULE MCUdpRelay ----------------------------
(* Model-checking instance of UdpRelay: two browsers' streams, four        *)
(* datagrams from a source as fast as the relay's interval, a buffer of    *)
(* two, and a clock long enough for every stream to fire several times.   *)
EXTENDS UdpRelay

CONSTANTS s1, s2

MCStreams == {s1, s2}
MCMaxDatagrams == 4
MCSocketCap == 2
MCRelayPeriod == 2
MCSrcPeriod == 2
MCMaxTime == 8
=============================================================================
