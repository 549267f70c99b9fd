---------------------------- MODULE ServerStream ----------------------------
(***************************************************************************)
(* The server stream adapter Server::StreamWrapper                         *)
(* (src/web_transport_server.cc) with the interval it owns.  The read side *)
(* is OnCanRead: when the stack reports the stream readable, the wrapper   *)
(* reads everything readable into a std::string and passes it to         *)
(* data_cb_ as one vector, but only if the application has registered     *)
(* data_cb_ (ServerStream::onStreamRead); the ReadResult, and with it the  *)
(* FIN flag, is ignored.  StreamWrapper::setInterval is the same code as  *)
(* SessionWrapper::setInterval, so the stream's interval is an instance of *)
(* IntervalAlarm; an interval callback that throws leaves the event loop,  *)
(* after which no OnCanRead runs either.                                   *)
(*                                                                         *)
(* The stream is modelled from the moment the session accepted it and the  *)
(* stream callback ran: that callback either registered data_cb_ or not,   *)
(* and the application may register it later (from an interval or another *)
(* callback).  Bytes are numbered as in ByteStream; the network delivers  *)
(* them in order, in pieces, and the stack calls OnCanRead after each      *)
(* arrival.                                                                *)
(***************************************************************************)
EXTENDS Naturals, Sequences, SequencesExt

CONSTANTS
    MaxBytes,   \* bound on the bytes the peer writes
    Period, MaxTime, MaxSets    \* the stream's interval, as in IntervalAlarm

VARIABLES
    now, sets, setAt, armed, deadline, fires, stopped, freedUse,
    sentLen,    \* bytes the peer has written: 1..sentLen
    finSent,    \* the peer has finished the stream
    arrived,    \* bytes that have reached the stream's sequencer
    finArrived, \* the FIN has reached it
    consumed,   \* bytes the wrapper has read
    canRead,    \* an OnCanRead call is due
    cbSet,      \* data_cb_ is registered
    missed,     \* history: an OnCanRead ran while data_cb_ was unset
    reads       \* the vectors passed to data_cb_, in order

Alarm == INSTANCE IntervalAlarm

alarmVars == <<now, sets, setAt, armed, deadline, fires, stopped, freedUse>>
streamVars == <<sentLen, finSent, arrived, finArrived, consumed, canRead, cbSet,
                missed, reads>>
vars == <<alarmVars, streamVars>>

\* Bytes lo+1 .. hi, each carrying its number.
Bytes(lo, hi) == [i \in 1..(hi - lo) |-> lo + i]
-----------------------------------------------------------------------------
\* The peer writes n more bytes.
PeerWrite(n) ==
    /\ ~finSent
    /\ sentLen + n <= MaxBytes
    /\ sentLen' = sentLen + n
    /\ UNCHANGED <<finSent, arrived, finArrived, consumed, canRead, cbSet, missed, reads>>

\* The peer finishes the stream.
PeerFinish ==
    /\ ~finSent
    /\ finSent' = TRUE
    /\ UNCHANGED <<sentLen, arrived, finArrived, consumed, canRead, cbSet, missed, reads>>

(* The next k bytes reach the stream, with the FIN when fin (in the same  *)
(* STREAM frame as the last bytes, or alone when k = 0); the stack will    *)
(* call OnCanRead.                                                         *)
Arrive(k, fin) ==
    /\ k > 0 \/ fin
    /\ arrived + k <= sentLen
    /\ fin => finSent /\ ~finArrived /\ arrived + k = sentLen
    /\ arrived' = arrived + k
    /\ finArrived' = (finArrived \/ fin)
    /\ canRead' = TRUE
    /\ UNCHANGED <<sentLen, finSent, consumed, cbSet, missed, reads>>

\* Fault variant (mutation check): the wrapper reads at most one byte per
\* OnCanRead, as a read into a fixed-size buffer would.
OnCanReadOneByte ==
    /\ canRead /\ stopped = "no"
    /\ canRead' = FALSE
    /\ IF cbSet
          THEN LET n == IF arrived > consumed THEN 1 ELSE 0
               IN  /\ consumed' = consumed + n
                   /\ reads' = Append(reads, Bytes(consumed, consumed + n))
                   /\ UNCHANGED missed
          ELSE /\ missed' = TRUE
               /\ UNCHANGED <<consumed, reads>>
    /\ UNCHANGED <<sentLen, finSent, arrived, finArrived, cbSet>>

\* Fault variant (mutation check): the read does not advance past what
\* data_cb_ already got, as a peek instead of a read would.
OnCanReadPeek ==
    /\ canRead /\ stopped = "no"
    /\ canRead' = FALSE
    /\ IF cbSet
          THEN /\ reads' = Append(reads, Bytes(0, arrived))
               /\ UNCHANGED <<consumed, missed>>
          ELSE /\ missed' = TRUE
               /\ UNCHANGED <<consumed, reads>>
    /\ UNCHANGED <<sentLen, finSent, arrived, finArrived, cbSet>>

(* StreamWrapper::OnCanRead: with data_cb_ set, Read takes every readable  *)
(* byte (none when only the FIN is new) and data_cb_ gets them as one      *)
(* vector; without it the notification passes and the bytes stay.         *)
OnCanRead ==
    /\ canRead /\ stopped = "no"
    /\ canRead' = FALSE
    /\ IF cbSet
          THEN /\ consumed' = arrived
               /\ reads' = Append(reads, Bytes(consumed, arrived))
               /\ UNCHANGED missed
          ELSE /\ missed' = TRUE
               /\ UNCHANGED <<consumed, reads>>
    /\ UNCHANGED <<sentLen, finSent, arrived, finArrived, cbSet>>

\* ServerStream::onStreamRead, called after the stream callback returned.
OnStreamRead ==
    /\ stopped = "no"
    /\ ~cbSet
    /\ cbSet' = TRUE
    /\ UNCHANGED <<sentLen, finSent, arrived, finArrived, consumed, canRead, missed, reads>>

\* A step of the stream's interval (setInterval, the clock, a firing).
IntervalStep ==
    /\ Alarm!Next
    /\ UNCHANGED streamVars
-----------------------------------------------------------------------------
(* The stream callback ran when the session accepted the stream, and      *)
(* registered data_cb_ or not.                                            *)
Init ==
    /\ Alarm!Init
    /\ sentLen = 0 /\ finSent = FALSE
    /\ arrived = 0 /\ finArrived = FALSE
    /\ consumed = 0 /\ canRead = FALSE
    /\ cbSet \in BOOLEAN
    /\ missed = FALSE
    /\ reads = <<>>

StreamStep ==
    \/ \E n \in 1..MaxBytes : PeerWrite(n)
    \/ PeerFinish
    \/ \E k \in 0..MaxBytes, fin \in BOOLEAN : Arrive(k, fin)
    \/ OnCanRead
    \/ OnStreamRead

Next ==
    \/ IntervalStep
    \/ StreamStep /\ UNCHANGED alarmVars

(* The network delivers what the peer wrote, and the stack calls OnCanRead *)
(* while the event loop runs; the interval's own fairness is IntervalAlarm's. *)
Spec ==
    /\ Init /\ [][Next]_vars
    /\ WF_vars(\E k \in 0..MaxBytes, fin \in BOOLEAN : Arrive(k, fin) /\ UNCHANGED alarmVars)
    /\ WF_vars(OnCanRead /\ UNCHANGED alarmVars)
    /\ WF_vars(Alarm!Tick /\ UNCHANGED streamVars)
    /\ WF_vars(\E o \in Alarm!CallbackOutcomes : Alarm!OnAlarm(o) /\ UNCHANGED streamVars)
-----------------------------------------------------------------------------
TypeOK ==
    /\ Alarm!TypeOK
    /\ sentLen \in 0..MaxBytes /\ arrived \in 0..sentLen /\ consumed \in 0..arrived
    /\ finSent \in BOOLEAN /\ finArrived \in BOOLEAN /\ canRead \in BOOLEAN
    /\ cbSet \in BOOLEAN /\ missed \in BOOLEAN
    /\ reads \in Seq(Seq(1..MaxBytes))

\* The interval's properties hold for the stream's interval (IntervalAlarm).
FiringRateBound == Alarm!FiringRateBound
IntervalKeepsFiring == Alarm!IntervalKeepsFiring

(* What data_cb_ receives is what ByteStream allows (spec §4.4, §8.3):     *)
(* the peer's bytes in order, none repeated or invented, and an empty      *)
(* vector only once everything has been received and the peer has          *)
(* finished, with nothing after it.  StreamWrapper::OnCanRead never looks  *)
(* at the FIN flag of Read, so this rests on how it reads: everything      *)
(* readable, every time.                                                   *)
Abstract == INSTANCE ByteStream
    WITH written <- sentLen, finished <- finSent, received <- FlattenSeq(reads),
         finSeen <- (\E i \in DOMAIN reads : reads[i] = <<>>)

ReadsFollowByteStream == Abstract!Init /\ [][Abstract!Next]_(Abstract!vars)

(* Every byte the peer writes reaches data_cb_, unless the stack reported  *)
(* the stream readable while no data_cb_ was registered (the bytes then    *)
(* wait for a later arrival) or the event loop was left.                   *)
ReadsDelivered ==
    \A n \in 1..MaxBytes :
        (sentLen >= n) ~> (Len(FlattenSeq(reads)) >= n \/ missed \/ stopped # "no")
=============================================================================
