--------------------------- MODULE IntervalAlarm ---------------------------
(***************************************************************************)
(* The periodic callbacks behind setInterval: an owner (a server session   *)
(* or stream wrapper, a client session or stream) keeps its current alarm  *)
(* in interval_alarm_; setInterval creates a new IntervalAlarmDelegate and *)
(* alarm and resets interval_alarm_, which destroys the previous alarm and *)
(* the delegate it owns.  IntervalAlarmDelegate::OnAlarm runs the callback *)
(* and then re-arms through its alarm_ pointer at now + interval.          *)
(* (src/web_transport_server_interval.cc; ClientIntervalAlarmDelegate in  *)
(* src/web_transport_client_interval.cc is the same code.)                 *)
(*                                                                         *)
(* Time is a millisecond counter that the event loop's clock advances.  A  *)
(* callback may return, throw (no handler exists anywhere on the path to   *)
(* the event loop, so the exception leaves the loop), or call setInterval  *)
(* on its own owner.  In the last case the delegate running OnAlarm is     *)
(* destroyed under it, and its `alarm_->Set` after the callback reads      *)
(* freed memory: undefined behaviour, modelled as either a crash or a Set  *)
(* on the freed alarm that arms nothing.                                   *)
(***************************************************************************)
EXTENDS Naturals

CONSTANTS
    Period,     \* interval_ms
    MaxTime,    \* bound on the clock
    MaxSets     \* bound on setInterval calls

ASSUME Period \in Nat \ {0} /\ MaxTime \in Nat /\ MaxSets \in Nat \ {0}

\* The most firings one alarm can have before MaxTime.
MaxFires == MaxTime \div Period

VARIABLES
    now,        \* the clock, in milliseconds
    sets,       \* setInterval calls so far (0: no interval yet)
    setAt,      \* when the current alarm was created
    armed,      \* the current alarm is set
    deadline,   \* its deadline, when armed
    fires,      \* callback runs of the current alarm
    stopped,    \* why the event loop was left: "no", "exception", "crash"
    freedUse    \* a delegate used its alarm_ after it was destroyed

vars == <<now, sets, setAt, armed, deadline, fires, stopped, freedUse>>

CallbackOutcomes == {"returns", "throws", "setInterval"}
-----------------------------------------------------------------------------
\* Fault variant (mutation check): the new alarm fires at once.
SetIntervalNow ==
    /\ sets' = sets + 1
    /\ setAt' = now
    /\ armed' = TRUE
    /\ deadline' = now
    /\ fires' = 0

(* setInterval: a new delegate and alarm replace interval_alarm_ (the old  *)
(* alarm is destroyed, so it will not fire) and the new one is set to      *)
(* now + interval.                                                         *)
SetInterval ==
    /\ sets' = sets + 1
    /\ setAt' = now
    /\ armed' = TRUE
    /\ deadline' = now + Period
    /\ fires' = 0

\* The application calls setInterval outside an interval callback.
AppSetInterval ==
    /\ stopped = "no"
    /\ sets < MaxSets
    /\ SetInterval
    /\ UNCHANGED <<now, stopped, freedUse>>

\* The event loop's clock advances while no alarm is overdue.
Tick ==
    /\ stopped = "no"
    /\ now < MaxTime
    /\ armed => deadline > now
    /\ now' = now + 1
    /\ UNCHANGED <<sets, setAt, armed, deadline, fires, stopped, freedUse>>

\* Fault variant (mutation check): the delegate re-arms at now, not one
\* period later.
OnAlarmRearmNow(outcome) ==
    /\ stopped = "no"
    /\ armed /\ deadline <= now
    /\ fires' = fires + 1
    /\ deadline' = now
    /\ UNCHANGED <<now, sets, setAt, armed, stopped, freedUse>>

\* Fault variant (mutation check): the delegate does not re-arm.
OnAlarmOnce(outcome) ==
    /\ stopped = "no"
    /\ armed /\ deadline <= now
    /\ fires' = fires + 1
    /\ armed' = FALSE
    /\ UNCHANGED <<now, sets, setAt, deadline, stopped, freedUse>>

(* IntervalAlarmDelegate::OnAlarm: the due alarm fires, runs the callback  *)
(* and re-arms at now + interval; a throwing callback skips the re-arm and *)
(* leaves the loop; a callback that replaced the alarm leaves the delegate *)
(* re-arming through a freed alarm_.                                       *)
OnAlarm(outcome) ==
    /\ stopped = "no"
    /\ armed /\ deadline <= now
    /\ CASE outcome = "returns" ->
              /\ fires' = fires + 1
              /\ deadline' = now + Period
              /\ UNCHANGED <<sets, setAt, armed, stopped, freedUse>>
         [] outcome = "throws" ->
              /\ fires' = fires + 1
              /\ armed' = FALSE
              /\ stopped' = "exception"
              /\ UNCHANGED <<sets, setAt, deadline, freedUse>>
         [] outcome = "setInterval" ->
              /\ sets < MaxSets
              /\ SetInterval
              /\ freedUse' = TRUE
              /\ stopped' \in {"no", "crash"}
    /\ UNCHANGED now

Init ==
    /\ now = 0
    /\ sets = 0
    /\ setAt = 0
    /\ armed = FALSE
    /\ deadline = 0
    /\ fires = 0
    /\ stopped = "no"
    /\ freedUse = FALSE

Next ==
    \/ AppSetInterval
    \/ Tick
    \/ \E outcome \in CallbackOutcomes : OnAlarm(outcome)

(* The clock advances and the event loop runs due alarms; the application  *)
(* need not call setInterval.                                              *)
Spec == Init /\ [][Next]_vars /\ WF_vars(Tick)
            /\ WF_vars(\E outcome \in CallbackOutcomes : OnAlarm(outcome))
-----------------------------------------------------------------------------
TypeOK ==
    /\ now \in 0..MaxTime
    /\ sets \in 0..MaxSets
    /\ setAt \in 0..now
    /\ armed \in BOOLEAN
    /\ deadline \in 0..(MaxTime + Period)
    /\ fires \in 0..MaxFires
    /\ stopped \in {"no", "exception", "crash"}
    /\ freedUse \in BOOLEAN

(* spec §4 interval timer: the first firing is one period after set and    *)
(* each re-arm is one period after the firing, so an alarm never fires     *)
(* more often than its period allows.                                      *)
FiringRateBound == fires <= (now - setAt) \div Period

(* A running interval keeps firing: unless the loop was left or the       *)
(* interval replaced, the current alarm, once it has time for one more     *)
(* period, fires again (the delegate re-arms after every callback).       *)
IntervalKeepsFiring ==
    \A s \in 1..MaxSets, n \in 0..MaxFires :
        (sets = s /\ fires = n /\ now + Period <= MaxTime /\ stopped = "no")
            ~> (fires # n \/ sets # s \/ stopped # "no")

(* Whatever an interval callback does, control comes back to a live       *)
(* delegate and the event loop carries on: spec §4 says errors in the      *)
(* callback are logged and swallowed and the alarm keeps re-arming, and a  *)
(* callback that calls setInterval on its own owner must not leave the      *)
(* running delegate to re-arm through an alarm that was destroyed.          *)
CallbackReturnsToLoop == stopped = "no" /\ ~freedUse
=============================================================================
