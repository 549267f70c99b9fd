-------------------------- MODULE MCIntervalAlarm --------------------------
(* Model-checking instance of IntervalAlarm: a 2 ms period over 6 ms (three *)
(* firings of one alarm) and two setInterval calls, enough for an interval *)
(* to be replaced both from outside and from its own callback.             *)
EXTENDS IntervalAlarm

MCPeriod == 2
MCMaxTime == 6
MCMaxSets == 2
=============================================================================
