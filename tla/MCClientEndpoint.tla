------------------------- MODULE MCClientEndpoint -------------------------
(* Model-checking instance of ClientEndpoint: two server-opened streams,   *)
(* enough for one to arrive before the ClientSession exists and one after. *)
EXTENDS ClientEndpoint

MCMaxStreams == 2
=============================================================================
