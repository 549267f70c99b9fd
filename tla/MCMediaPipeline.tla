-------------------------- MODULE MCMediaPipeline --------------------------
(***************************************************************************)
(* A stream of three access units in the shape an encoder produces them:   *)
(* AUD, SPS, PPS, SEI and an IDR slice larger than the MTU; AUD, a large   *)
(* P slice and filler; a small P slice.  Mid-stream start codes are 3-byte *)
(* ones.  With Mtu 13 the SPS, PPS and SEI fill one STAP-A exactly, and    *)
(* both large slices are cut into two FU-A fragments.                      *)
(*                                                                         *)
(* The example's other codec, VP8 (VP8Rtp), is used by no example program; *)
(* its payloader runs beside the H.264 pipeline, sharing nothing with it,  *)
(* so that one run checks both codecs of the example.                      *)
(***************************************************************************)
EXTENDS MediaPipeline, VP8Rtp

SC4 == <<0, 0, 0, 1>>
SC3 == <<0, 0, 1>>
AUD == <<9, 240>>
SPS == <<103, 66>>
PPS == <<104, 206>>
SEI == <<6, 5>>
IDR == <<101>> \o [i \in 1..15 |-> 100 + i]
BigP == <<65>> \o [i \in 1..14 |-> 150 + i]
SmallP == <<65, 154>>
Filler == <<12, 255>>

MCInput ==
    << SC4 \o AUD \o SC3 \o SPS \o SC3 \o PPS \o SC3 \o SEI \o SC3 \o IDR,
       SC4 \o AUD \o SC3 \o BigP \o SC3 \o Filler,
       SC4 \o SmallP >>

\* One Payload call: VP8RoundTrip is checked in the states before and
\* after it, including a picture ID wrapped from 32767 to 0.
MCMaxVP8Frames == 1

MCInit == Init /\ VP8Init

MCNext == (Next /\ UNCHANGED vp8Vars) \/ (VP8Next /\ UNCHANGED vars)

\* MediaPipeline's fairness; the application need not drive the VP8 payloader.
MCSpec == MCInit /\ [][MCNext]_<<vars, vp8Vars>>
            /\ (<>[](au <= Len(Input)) => []<><<SendAccessUnit>>_vars)
            /\ (<>[](net # <<>>) => []<><<Deliver>>_vars)
            /\ WF_vars(OpenSession /\ UNCHANGED vp8Vars)
=============================================================================
