------------------------- MODULE MCServerSession -------------------------
(* Model-checking instance of ServerSession: two reject codes (0, the      *)
(* RejectSession default, and 401 as in spec scenario B), one reason, and  *)
(* up to three incoming streams so that a notification can find two        *)
(* streams queued at once.                                                 *)
EXTENDS ServerSession

MCRejectCodes == {0, 401}
MCReasons == {"nope"}
MCMaxStreams == 3
=============================================================================
