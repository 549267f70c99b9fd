-------------------------- MODULE MCServerStream --------------------------
(* Model-checking instance of ServerStream: the interval of MCIntervalAlarm *)
(* (2 ms period, 6 ms, two setInterval calls) and a peer writing up to two  *)
(* bytes, so that bytes can arrive in one piece or two and before or after *)
(* data_cb_ is registered.                                                 *)
EXTENDS ServerStream

MCPeriod == 2
MCMaxTime == 6
MCMaxSets == 2
MCMaxBytes == 2
=============================================================================
