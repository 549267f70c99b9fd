--------------------------- MODULE ServerSession ---------------------------
(***************************************************************************)
(* The server-side session adapter Server::SessionWrapper                  *)
(* (src/web_transport_server.cc) and the accept / reject protocol it runs  *)
(* between the QUIC stack (which calls the visitor methods OnSessionReady, *)
(* OnDatagramReceived, OnIncoming*StreamAvailable, OnSessionClosed) and    *)
(* the application (whose callbacks run inside those visitor methods, and  *)
(* which may later call RejectSession, SendDatagram and onDatagramRead     *)
(* from interval callbacks or from other callbacks).                       *)
(*                                                                         *)
(* One step is one visitor method or one application call, run to         *)
(* completion on the single event-loop thread; whatever the application   *)
(* does inside a callback is part of that step.  `log` records, in order,  *)
(* the observable events of the last step: the user callbacks invoked     *)
(* ("session_cb", "datagram_cb", "stream_cb"), datagrams handed to the     *)
(* stack ("sent") and RejectSession calls ("reject").                      *)
(***************************************************************************)
EXTENDS Naturals, Sequences

CONSTANTS
    RejectCodes,    \* error codes the application passes to RejectSession
    Reasons,        \* reason strings the application passes to RejectSession
    MaxStreams      \* bound on the incoming streams the peer opens

ASSUME /\ 0 \in RejectCodes
       /\ MaxStreams \in Nat

\* The reason CloseSession carries when the session callback returns false.
DefaultRejectReason == "Session rejected by application"

StreamKinds == {"uni", "bidi"}

\* An application callback either leaves the session alone or calls
\* RejectSession(code, reason) once.
NoCall == [call |-> "none"]
RejectChoice == {NoCall} \cup [code : RejectCodes, reason : Reasons]

\* Events through which the application or the peer observes the session.
AppEvents == {"session_cb", "datagram_cb", "stream_cb", "sent"}

VARIABLES
    onready_called,     \* SessionWrapper::onready_called_
    session_closed,     \* SessionWrapper::session_closed_
    should_reject,      \* SessionWrapper::should_reject_
    reject_error_code,  \* SessionWrapper::reject_error_code_
    reject_reason,      \* SessionWrapper::reject_reason_
    wtState,            \* the QUIC WebTransport session: "open", "closing"
                        \* (CloseSession sent) or "gone" (OnSessionClosed seen)
    closeInfo,          \* the (code, reason) CloseSession sent to the peer
    pending,            \* per kind, incoming streams queued in the stack
    notify,             \* per kind, an Incoming*StreamAvailable call is due
    arrived,            \* incoming streams opened by the peer so far
    sessionCbSet,       \* Server::session_cb_ registered
    streamCbSet,        \* per kind, Server::unidirectional_cb_ / bidirectional_cb_
    datagramCbSet,      \* ServerSession::datagram_cb_ registered
    appHasSession,      \* the application holds a pointer to this session
    sessionCbAnswer,    \* history: "none", or what the session callback returned
    rejectedBeforeReady,\* history: RejectSession ran before OnSessionReady
    log                 \* events of the last step, in order

vars == <<onready_called, session_closed, should_reject, reject_error_code,
          reject_reason, wtState, closeInfo, pending, notify, arrived,
          sessionCbSet, streamCbSet, datagramCbSet, appHasSession,
          sessionCbAnswer, rejectedBeforeReady, log>>

rejectVars == <<should_reject, reject_error_code, reject_reason,
                rejectedBeforeReady>>
closeVars == <<session_closed, wtState, closeInfo>>
-----------------------------------------------------------------------------
\* quic::WebTransportSession::CloseSession: the peer is told (code, reason).
CloseSession(code, reason) ==
    /\ wtState' = "closing"
    /\ closeInfo' = [code |-> code, reason |-> reason]

\* Fault variant (mutation check): RejectSession only records the rejection
\* and leaves closing to OnSessionReady, even when that has already run.
RejectSessionDeferred(code, reason, ready) ==
    /\ reject_error_code' = code
    /\ reject_reason' = reason
    /\ should_reject' = TRUE
    /\ rejectedBeforeReady' = (rejectedBeforeReady \/ ~ready)
    /\ UNCHANGED closeVars

\* SessionWrapper::RejectSession, called when onready_called_ has the value
\* `ready`: record the rejection, and close at once if OnSessionReady has run.
RejectSession(code, reason, ready) ==
    /\ reject_error_code' = code
    /\ reject_reason' = reason
    /\ should_reject' = TRUE
    /\ rejectedBeforeReady' = (rejectedBeforeReady \/ ~ready)
    /\ IF ready /\ ~session_closed
          THEN /\ session_closed' = TRUE
               /\ CloseSession(code, reason)
          ELSE UNCHANGED closeVars

\* What an application callback does with the session: nothing, or reject.
AppReacts(r, ready) ==
    IF r = NoCall THEN UNCHANGED <<rejectVars, closeVars>>
                  ELSE RejectSession(r.code, r.reason, ready)

RejectEvent(r) == IF r = NoCall THEN <<>> ELSE <<"reject">>
-----------------------------------------------------------------------------
(* OnSessionReady, first branch: RejectSession ran earlier, so the session *)
(* is closed with the recorded code and reason and no callback runs.       *)
HonourPendingReject ==
    /\ IF ~session_closed
          THEN /\ session_closed' = TRUE
               /\ CloseSession(reject_error_code, reject_reason)
          ELSE UNCHANGED closeVars
    /\ log' = <<>>
    /\ UNCHANGED <<rejectVars, appHasSession, sessionCbAnswer>>

\* Fault variant (mutation check): a false return is implemented as a call
\* RejectSession(0, "Session rejected by application").
AskSessionCallbackViaReject ==
    IF ~sessionCbSet
    THEN /\ log' = <<>>
         /\ UNCHANGED <<rejectVars, closeVars, appHasSession, sessionCbAnswer>>
    ELSE \E accept \in BOOLEAN, r \in RejectChoice :
           /\ sessionCbAnswer' = IF accept THEN "accept" ELSE "decline"
           /\ appHasSession' = TRUE
           /\ log' = <<"session_cb">> \o RejectEvent(r)
           /\ IF r # NoCall
                 THEN RejectSession(r.code, r.reason, TRUE)
              ELSE IF ~accept
                 THEN RejectSession(0, DefaultRejectReason, TRUE)
              ELSE UNCHANGED <<rejectVars, closeVars>>

\* Fault variant (mutation check): the test of the callback's return value
\* is inverted, so an accepted session is closed.
AskSessionCallbackInverted ==
    IF ~sessionCbSet
    THEN /\ log' = <<>>
         /\ UNCHANGED <<rejectVars, closeVars, appHasSession, sessionCbAnswer>>
    ELSE \E accept \in BOOLEAN, r \in RejectChoice :
           /\ sessionCbAnswer' = IF accept THEN "accept" ELSE "decline"
           /\ appHasSession' = TRUE
           /\ log' = <<"session_cb">> \o RejectEvent(r)
           /\ IF r # NoCall
                 THEN RejectSession(r.code, r.reason, TRUE)
              ELSE IF accept /\ ~session_closed
                 THEN /\ session_closed' = TRUE
                      /\ CloseSession(0, DefaultRejectReason)
                      /\ UNCHANGED rejectVars
              ELSE UNCHANGED <<rejectVars, closeVars>>

(* OnSessionReady, second branch: ask the session callback.  It may call   *)
(* RejectSession (which now closes at once) and returns accept; a false    *)
(* return closes with code 0 unless RejectSession already ran.  With no    *)
(* callback registered the session is accepted.                            *)
AskSessionCallback ==
    IF ~sessionCbSet
    THEN /\ log' = <<>>
         /\ UNCHANGED <<rejectVars, closeVars, appHasSession, sessionCbAnswer>>
    ELSE \E accept \in BOOLEAN, r \in RejectChoice :
           /\ sessionCbAnswer' = IF accept THEN "accept" ELSE "decline"
           /\ appHasSession' = TRUE
           /\ log' = <<"session_cb">> \o RejectEvent(r)
           /\ IF r # NoCall
                 THEN RejectSession(r.code, r.reason, TRUE)
              ELSE IF ~accept /\ ~session_closed
                 THEN /\ session_closed' = TRUE
                      /\ CloseSession(0, DefaultRejectReason)
                      /\ UNCHANGED rejectVars
              ELSE UNCHANGED <<rejectVars, closeVars>>

\* Fault variant (mutation check): OnSessionReady forgets a rejection
\* recorded before it ran and asks the session callback anyway.
OnSessionReadyIgnoresPending ==
    /\ ~onready_called
    /\ wtState = "open"
    /\ onready_called' = TRUE
    /\ AskSessionCallback
    /\ UNCHANGED <<pending, notify, arrived, sessionCbSet, streamCbSet,
                   datagramCbSet>>

OnSessionReady ==
    /\ ~onready_called
    /\ wtState = "open"
    /\ onready_called' = TRUE
    /\ IF should_reject THEN HonourPendingReject ELSE AskSessionCallback
    /\ UNCHANGED <<pending, notify, arrived, sessionCbSet, streamCbSet,
                   datagramCbSet>>

\* Fault variant (mutation check): the datagram callback runs without the
\* session_closed_ check.
OnDatagramReceivedIgnoresClosed ==
    /\ wtState # "gone"
    /\ IF datagramCbSet
          THEN \E r \in RejectChoice :
                 /\ log' = <<"datagram_cb">> \o RejectEvent(r)
                 /\ AppReacts(r, onready_called)
          ELSE /\ log' = <<>>
               /\ UNCHANGED <<rejectVars, closeVars>>
    /\ UNCHANGED <<onready_called, pending, notify, arrived, sessionCbSet,
                   streamCbSet, datagramCbSet, appHasSession, sessionCbAnswer>>

(* A datagram arrives; the callback runs if registered and the session is  *)
(* not closed, and may reject the session.                                 *)
OnDatagramReceived ==
    /\ wtState # "gone"
    /\ IF datagramCbSet /\ ~session_closed
          THEN \E r \in RejectChoice :
                 /\ log' = <<"datagram_cb">> \o RejectEvent(r)
                 /\ AppReacts(r, onready_called)
          ELSE /\ log' = <<>>
               /\ UNCHANGED <<rejectVars, closeVars>>
    /\ UNCHANGED <<onready_called, pending, notify, arrived, sessionCbSet,
                   streamCbSet, datagramCbSet, appHasSession, sessionCbAnswer>>

(* The peer opens a stream of kind k: the stack queues it and will notify. *)
StreamArrives(k) ==
    /\ wtState # "gone"
    /\ arrived < MaxStreams
    /\ arrived' = arrived + 1
    /\ pending' = [pending EXCEPT ![k] = @ + 1]
    /\ notify' = [notify EXCEPT ![k] = TRUE]
    /\ log' = <<>>
    /\ UNCHANGED <<onready_called, rejectVars, closeVars, sessionCbSet,
                   streamCbSet, datagramCbSet, appHasSession, sessionCbAnswer>>

StreamCbs(n) == [i \in 1..n |-> "stream_cb"]

(* OnIncoming{Unidirectional,Bidirectional}StreamAvailable: unless the     *)
(* session is closed, accept every queued stream, wrap it and call the     *)
(* stream callback for each.  A callback may reject the session; the loop  *)
(* goes on with the streams still queued.                                  *)
OnIncomingStreamAvailable(k) ==
    /\ notify[k]
    /\ notify' = [notify EXCEPT ![k] = FALSE]
    /\ IF session_closed
       THEN /\ log' = <<>>
            /\ UNCHANGED <<pending, rejectVars, closeVars, appHasSession>>
       ELSE /\ pending' = [pending EXCEPT ![k] = 0]
            /\ IF streamCbSet[k]
               THEN \E r \in RejectChoice, j \in 1..pending[k] :
                      /\ appHasSession' = TRUE
                      /\ log' = StreamCbs(j) \o RejectEvent(r)
                                  \o StreamCbs(pending[k] - j)
                      /\ AppReacts(r, onready_called)
               ELSE /\ log' = <<>>
                    /\ UNCHANGED <<rejectVars, closeVars, appHasSession>>
    /\ UNCHANGED <<onready_called, arrived, sessionCbSet, streamCbSet,
                   datagramCbSet, sessionCbAnswer>>

(* OnSessionClosed: the peer closed the session, or acknowledged ours.     *)
OnSessionClosed ==
    /\ wtState # "gone"
    /\ wtState' = "gone"
    /\ session_closed' = TRUE
    /\ log' = <<>>
    /\ UNCHANGED <<onready_called, rejectVars, closeInfo, pending, notify,
                   arrived, sessionCbSet, streamCbSet, datagramCbSet,
                   appHasSession, sessionCbAnswer>>
-----------------------------------------------------------------------------
(* Calls the application makes outside visitor callbacks (from an interval *)
(* callback, or later in a callback that handed it the session).           *)
AppRejectSession(code, reason) ==
    /\ appHasSession
    /\ RejectSession(code, reason, onready_called)
    /\ log' = <<"reject">>
    /\ UNCHANGED <<onready_called, pending, notify, arrived, sessionCbSet,
                   streamCbSet, datagramCbSet, appHasSession, sessionCbAnswer>>

\* SessionWrapper::SendDatagram: handed to the stack unless closed.
SendDatagram ==
    /\ appHasSession
    /\ log' = IF ~session_closed THEN <<"sent">> ELSE <<>>
    /\ UNCHANGED <<onready_called, rejectVars, closeVars, pending, notify,
                   arrived, sessionCbSet, streamCbSet, datagramCbSet,
                   appHasSession, sessionCbAnswer>>

\* ServerSession::onDatagramRead registers the datagram callback.
OnDatagramRead ==
    /\ appHasSession
    /\ ~datagramCbSet
    /\ datagramCbSet' = TRUE
    /\ log' = <<>>
    /\ UNCHANGED <<onready_called, rejectVars, closeVars, pending, notify,
                   arrived, sessionCbSet, streamCbSet, appHasSession,
                   sessionCbAnswer>>
-----------------------------------------------------------------------------
(* The backend factory creates the wrapper with all flags false; the       *)
(* server's callbacks were registered (or not) before Listen.              *)
Init ==
    /\ onready_called = FALSE
    /\ session_closed = FALSE
    /\ should_reject = FALSE
    /\ reject_error_code = 0
    /\ reject_reason = ""
    /\ wtState = "open"
    /\ closeInfo = [code |-> 0, reason |-> ""]
    /\ pending = [k \in StreamKinds |-> 0]
    /\ notify = [k \in StreamKinds |-> FALSE]
    /\ arrived = 0
    /\ sessionCbSet \in BOOLEAN
    /\ streamCbSet \in [StreamKinds -> BOOLEAN]
    /\ datagramCbSet = FALSE
    /\ appHasSession = FALSE
    /\ sessionCbAnswer = "none"
    /\ rejectedBeforeReady = FALSE
    /\ log = <<>>

Next ==
    \/ OnSessionReady
    \/ OnDatagramReceived
    \/ \E k \in StreamKinds : StreamArrives(k) \/ OnIncomingStreamAvailable(k)
    \/ OnSessionClosed
    \/ \E c \in RejectCodes, r \in Reasons : AppRejectSession(c, r)
    \/ SendDatagram
    \/ OnDatagramRead

(* The stack calls OnSessionReady once it has processed the CONNECT        *)
(* request, and delivers every stream notification it queued; the peer     *)
(* and the application are under no obligation to act.                     *)
Spec ==
    /\ Init
    /\ [][Next]_vars
    /\ WF_vars(OnSessionReady)
    /\ \A k \in StreamKinds : WF_vars(OnIncomingStreamAvailable(k))
-----------------------------------------------------------------------------
TypeOK ==
    /\ onready_called \in BOOLEAN
    /\ session_closed \in BOOLEAN
    /\ should_reject \in BOOLEAN
    /\ reject_error_code \in RejectCodes
    /\ reject_reason \in Reasons \cup {""}
    /\ wtState \in {"open", "closing", "gone"}
    /\ closeInfo \in [code : RejectCodes,
                      reason : Reasons \cup {"", DefaultRejectReason}]
    /\ pending \in [StreamKinds -> 0..MaxStreams]
    /\ notify \in [StreamKinds -> BOOLEAN]
    /\ arrived \in 0..MaxStreams
    /\ sessionCbSet \in BOOLEAN
    /\ streamCbSet \in [StreamKinds -> BOOLEAN]
    /\ datagramCbSet \in BOOLEAN
    /\ appHasSession \in BOOLEAN
    /\ sessionCbAnswer \in {"none", "accept", "decline"}
    /\ rejectedBeforeReady \in BOOLEAN
    /\ log \in Seq({"reject"} \cup AppEvents)

Emits(l) == \E i \in DOMAIN l : l[i] \in AppEvents

(* Once the adapter has marked the session closed (by RejectSession, a     *)
(* declined session callback, or OnSessionClosed), no later step invokes a *)
(* datagram, stream or session callback or hands a datagram to the stack:  *)
(* the session_closed_ checks in SendDatagram, OnDatagramReceived and the  *)
(* Incoming*StreamAvailable handlers.                                      *)
ClosedSessionSilent ==
    [][session_closed => ~Emits(log')]_vars

(* spec §8.5: RejectSession called before OnSessionReady (possible from a  *)
(* stream callback, which the stack may run first) means the session       *)
(* callback never runs.                                                    *)
RejectBeforeReadySuppressesSessionCb ==
    rejectedBeforeReady => sessionCbAnswer = "none"

(* When the adapter closes the session, the peer is told the code and      *)
(* reason of the application's latest RejectSession call, or (0, "Session  *)
(* rejected by application") when the session callback returned false      *)
(* without rejecting; the adapter never closes a session it was not asked  *)
(* to close.                                                               *)
LibraryCloseCarriesDecision ==
    [][wtState = "open" /\ wtState' = "closing" =>
         \/ /\ should_reject'
            /\ closeInfo' = [code |-> reject_error_code',
                             reason |-> reject_reason']
         \/ /\ ~should_reject'
            /\ sessionCbAnswer' = "decline"
            /\ closeInfo' = [code |-> 0, reason |-> DefaultRejectReason]]_vars

(* A rejection is eventually carried out: whenever the application has     *)
(* called RejectSession, the QUIC session is eventually closed, whether    *)
(* the call came before OnSessionReady (recorded, honoured there) or after *)
(* (closed at once).                                                       *)
RejectEventuallyCloses ==
    should_reject ~> (wtState # "open")

(* spec §3 (ii) and §4.5: a rejected session produces no further stream  *)
(* or datagram callbacks.  Checked for the step in which a RejectSession   *)
(* call from a callback closes the session (after OnSessionReady): once    *)
(* the reject is in that step's log, no application callback follows it   *)
(* (later steps are ClosedSessionSilent's).                                *)
RejectStopsCallbacks ==
    [][session_closed' =>
         \A i, j \in DOMAIN log' :
            (i < j /\ log'[i] = "reject") => log'[j] \notin AppEvents]_vars
=============================================================================
