--------------------------- MODULE ClientEndpoint ---------------------------
(***************************************************************************)
(* The client endpoint from connect() on: the QUIC handshake with its      *)
(* certificate check (CertPolicy), then the session-readiness polling of  *)
(* webtransport::Client (src/web_transport_client.cc) and the ClientSession *)
(* it wraps the WebTransport session in (src/web_transport_client_session. *)
(* cc).  QuicClientBase::Connect runs the QUIC handshake to completion     *)
(* inside connect(), so the handshake alarm finds the client session and   *)
(* sends the CONNECT request on its first firing.                          *)
(*                                                                         *)
(* The environment is the QUIC stack and the server: it answers the        *)
(* CONNECT request (accept or reject), resets the CONNECT stream, loses    *)
(* the client session, opens streams and closes the session.  quiche       *)
(* buffers incoming streams and notifies the session's visitor once per    *)
(* arrival; until the driver installs the ClientSessionVisitor the visitor *)
(* is quiche's no-op one.  Everything happens inside RunEventLoopOnce, so  *)
(* only while runEventLoop() loops, i.e. while connected_ holds.           *)
(***************************************************************************)
EXTENDS Naturals, CertPolicy

CONSTANT MaxStreams     \* bound on the streams the server opens

ASSUME MaxStreams \in Nat \ {0}

\* Who receives the streams the ClientSession accepts: the callback the
\* application set on the session, the client-level one, or none (empty).
StreamCbKinds == {"app", "client", "none"}

VARIABLES
    verifier,       \* the BoringSSLProofVerifier's configuration
    chain,          \* the certificate chain the server presents
    handshake,      \* connect(): "pending", "done" or "failed" (it threw)
    connected,      \* Client::connected_: runEventLoop() keeps looping
    alarm,          \* the armed polling alarm: "handshake", "ready" or "none"
    requested,      \* CreateWebTransportSession has sent the CONNECT request
    sessionCbSet,   \* Client::session_callback_ is set (onSessionOpen)
    bidiCbSet,      \* Client::bidi_stream_callback_ is set (onBidirectionalStream)
    errCbSet,       \* Client::session_error_callback_ is set (onSessionError)
    wrapped,        \* a ClientSession exists and its visitor is installed
    sessErrCb,      \* ClientSession::session_error_callback_ is set
    sessCb,         \* ClientSession::bidi_stream_callback_
    appSetSessCb,   \* the application set a per-session stream callback
    quic,           \* client_session(): "up" or "gone"
    streamErr,      \* the CONNECT stream reports a stream or connection error
    wt,             \* the WebTransport session: "pending", "ready", "rejected", "closed"
    queued,         \* incoming streams quiche holds, not yet accepted
    opened,         \* streams the server has opened
    delivered,      \* accepted streams, by the callback that received them
    openCalls,      \* calls of the application's session-open callback
    errCalls,       \* calls of the application's error callback
    interval,       \* ClientSession::interval_alarm_: "none" or "armed"
    client,         \* the Client object: "live", "reset" (disconnect ran
                    \* client_.reset()) or "destroyed" (~Client ran)
    firedOn         \* history: the session's state at each interval callback

vars == <<verifier, chain, handshake, connected, alarm, requested, sessionCbSet, bidiCbSet, errCbSet,
          wrapped, sessErrCb, sessCb, appSetSessCb, quic, streamErr, wt, queued, opened,
          delivered, openCalls, errCalls, interval, client, firedOn>>

lifeVars == <<interval, client, firedOn>>

appVars == <<verifier, chain, sessionCbSet, bidiCbSet, errCbSet>>
netVars == <<quic, streamErr, wt, opened>>
-----------------------------------------------------------------------------
\* The session_error_callback_ call of an error branch (or of
\* ClientSession::OnSessionClosed); without a callback the message is printed.
ReportError == errCalls' = errCalls + (IF errCbSet THEN 1 ELSE 0)

\* ClientSession::OnSessionClosed: its own copy of the error callback, taken
\* when the session was wrapped; without one the message is printed.
ReportSessionError == errCalls' = errCalls + (IF sessErrCb THEN 1 ELSE 0)

\* Fault variant (mutation check): the accepted streams are handed out but
\* the queue is not emptied.
DrainKeepsQueue(cb, n) ==
    /\ delivered' = [delivered EXCEPT ![cb] = @ + n]
    /\ queued' = n

\* ClientSession::OnIncomingBidirectionalStreamAvailable, with n streams
\* waiting: accept them all and hand each to bidi_stream_callback_.
DrainStreams(cb, n) ==
    /\ delivered' = [delivered EXCEPT ![cb] = @ + n]
    /\ queued' = 0

(* The application's open callback, behind web_transport::Client::         *)
(* onSessionOpen's wrapper (a new facade ClientSession per call): it may   *)
(* set the session's own stream callback with ClientSession::              *)
(* onBidirectionalStream.                                                  *)
OpenCallback(setOwn) ==
    /\ openCalls' = openCalls + 1
    /\ appSetSessCb' = setOwn

(* The ready branch: new ClientSession (installs its visitor), propagate   *)
(* the error callback, call the open callback (in which the application    *)
(* may set the session's own stream callback), then install the client's   *)
(* bidi_stream_callback_ on the session, set or not.                       *)
WrapSession ==
    /\ wrapped' = TRUE
    /\ sessErrCb' = errCbSet
    /\ IF sessionCbSet
          THEN \E setOwn \in BOOLEAN : OpenCallback(setOwn)
          ELSE UNCHANGED <<openCalls, appSetSessCb>>
    /\ sessCb' = IF bidiCbSet THEN "client" ELSE "none"

\* The re-arm branch of a polling alarm: nothing changes until it fires again.
Rearm == UNCHANGED <<connected, alarm, wrapped, sessErrCb, sessCb, appSetSessCb,
                     openCalls, errCalls>>

\* Client::CreateWebTransportSession: open the CONNECT stream, send the
\* request headers and arm the readiness alarm to fire at once.
CreateWebTransportSession ==
    /\ requested' = TRUE
    /\ alarm' = "ready"

(* Client::connect -> SetupNetworkComponents: QuicClientBase::Connect runs *)
(* the handshake, in which quiche asks VerifyCertChain about the server's   *)
(* chain; a rejected chain closes the connection, Connect() returns false  *)
(* and connect() throws runtime_error.  Otherwise StartHandshakeCheck arms *)
(* the handshake alarm to fire at once.                                    *)
Connect ==
    /\ handshake = "pending"
    /\ IF VerifyCertChain(verifier, chain)
          THEN handshake' = "done" /\ alarm' = "handshake"
          ELSE handshake' = "failed" /\ UNCHANGED alarm
    /\ UNCHANGED <<connected, requested, appVars, wrapped, sessErrCb, sessCb, appSetSessCb,
                   netVars, queued, delivered, openCalls, errCalls>>

\* HandshakeAlarmDelegate::OnAlarm: the client session exists (see above),
\* so the CONNECT request goes out.
HandshakeAlarm ==
    /\ connected
    /\ alarm = "handshake"
    /\ quic = "up"
    /\ CreateWebTransportSession
    /\ UNCHANGED <<handshake, connected, appVars, wrapped, sessErrCb, sessCb, appSetSessCb, netVars,
                   queued, delivered, openCalls, errCalls>>

\* Fault variant (mutation check): the stream-error branch lacks its
\* return and goes on to the checks below it.
SessionReadyAlarmFallsThrough ==
    /\ connected
    /\ alarm = "ready"
    /\ CASE quic = "gone" \/ (streamErr /\ wt # "rejected") ->
              /\ ReportError /\ connected' = FALSE /\ alarm' = "none"
              /\ UNCHANGED <<wrapped, sessErrCb, sessCb, appSetSessCb, openCalls>>
         [] streamErr ->
              /\ errCalls' = errCalls + (IF errCbSet THEN 2 ELSE 0)
              /\ connected' = FALSE /\ alarm' = "none"
              /\ UNCHANGED <<wrapped, sessErrCb, sessCb, appSetSessCb, openCalls>>
         [] wt = "ready" ->
              /\ WrapSession /\ alarm' = "none"
              /\ UNCHANGED <<connected, errCalls>>
         [] wt = "rejected" ->
              /\ ReportError /\ connected' = FALSE /\ alarm' = "none"
              /\ UNCHANGED <<wrapped, sessErrCb, sessCb, appSetSessCb, openCalls>>
         [] OTHER -> Rearm
    /\ UNCHANGED <<handshake, requested, appVars, netVars, queued, delivered>>

\* Fault variant (mutation check): the ready branch re-arms the alarm.
SessionReadyAlarmKeepsPolling ==
    /\ connected
    /\ alarm = "ready"
    /\ CASE quic = "gone" \/ streamErr \/ wt = "rejected" ->
              /\ ReportError /\ connected' = FALSE /\ alarm' = "none"
              /\ UNCHANGED <<wrapped, sessErrCb, sessCb, appSetSessCb, openCalls>>
         [] wt = "ready" ->
              /\ WrapSession /\ alarm' = "ready"
              /\ UNCHANGED <<connected, errCalls>>
         [] OTHER -> Rearm
    /\ UNCHANGED <<handshake, requested, appVars, netVars, queued, delivered>>

\* Fault variant (mutation check): no check of the response headers, so a
\* rejection leaves the alarm polling.
SessionReadyAlarmIgnoresRejection ==
    /\ connected
    /\ alarm = "ready"
    /\ CASE quic = "gone" \/ streamErr ->
              /\ ReportError /\ connected' = FALSE /\ alarm' = "none"
              /\ UNCHANGED <<wrapped, sessErrCb, sessCb, appSetSessCb, openCalls>>
         [] wt = "ready" ->
              /\ WrapSession /\ alarm' = "none"
              /\ UNCHANGED <<connected, errCalls>>
         [] OTHER -> Rearm
    /\ UNCHANGED <<handshake, requested, appVars, netVars, queued, delivered>>

(* SessionReadyAlarmDelegate::OnAlarm, in the code's order: client session *)
(* gone; stream or connection error; WebTransport session ready; response  *)
(* headers without a session (rejected); otherwise re-arm in 10 ms, a step *)
(* that changes nothing and is the stuttering of this model.  The three    *)
(* error branches report and stop the event loop.                          *)
SessionReadyAlarm ==
    /\ connected
    /\ alarm = "ready"
    /\ CASE quic = "gone" \/ streamErr \/ wt = "rejected" ->
              /\ ReportError /\ connected' = FALSE /\ alarm' = "none"
              /\ UNCHANGED <<wrapped, sessErrCb, sessCb, appSetSessCb, openCalls>>
         [] wt = "ready" ->
              /\ WrapSession /\ alarm' = "none"
              /\ UNCHANGED <<connected, errCalls>>
         [] OTHER -> Rearm
    /\ UNCHANGED <<handshake, requested, appVars, netVars, queued, delivered>>

(* Client::onSessionOpen, onBidirectionalStream or onSessionError, called *)
(* by the application from one of its callbacks: the member is replaced;   *)
(* a ClientSession already wrapped keeps the copies it took.               *)
RegisterCallback ==
    /\ connected
    /\ \/ sessionCbSet' = TRUE /\ UNCHANGED <<bidiCbSet, errCbSet>>
       \/ bidiCbSet' = TRUE /\ UNCHANGED <<sessionCbSet, errCbSet>>
       \/ errCbSet' = TRUE /\ UNCHANGED <<sessionCbSet, bidiCbSet>>
    /\ UNCHANGED <<verifier, chain, handshake, connected, alarm, requested, wrapped,
                   sessErrCb, sessCb, appSetSessCb, netVars, queued, delivered,
                   openCalls, errCalls>>

\* What the session's interval callback runs on: the WebTransport session
\* open, closed under it, or dropped with the client that owns it.
SessionState ==
    IF client # "live" THEN "dropped" ELSE IF wt = "closed" THEN "closed" ELSE "open"

(* One event-loop turn's worth of the session interval: when it is due      *)
(* (`due`), ClientIntervalAlarmDelegate::OnAlarm runs the callback and     *)
(* re-arms, so the alarm stays armed.                                      *)
MaybeFire(due) ==
    firedOn' = IF due /\ interval = "armed" THEN firedOn \cup {SessionState}
                                            ELSE firedOn

(* Client::disconnect: clear connected_, cancel the handshake and          *)
(* readiness alarms, run one zero-timeout loop turn (in which a due        *)
(* session interval fires), then client_.reset() destroys the QUIC client  *)
(* and with it the WebTransport session.  The ClientSession, its visitor   *)
(* and its interval alarm are never deleted and stay registered with the   *)
(* event loop.                                                             *)
Disconnect ==
    /\ handshake # "pending"
    /\ client = "live"
    /\ connected' = FALSE
    /\ alarm' = "none"
    /\ \E due \in BOOLEAN : MaybeFire(due)
    /\ client' = "reset"
    /\ UNCHANGED <<handshake, requested, appVars, wrapped, sessErrCb, sessCb, appSetSessCb,
                   netVars, queued, delivered, openCalls, errCalls, interval>>

(* ClientSession::setInterval, called by the application from a callback  *)
(* with the session it was handed: a new delegate and alarm set to fire    *)
(* one period later.                                                       *)
SetSessionInterval ==
    /\ connected
    /\ wrapped /\ sessionCbSet
    /\ interval' = "armed"
    /\ UNCHANGED <<handshake, connected, alarm, requested, appVars, wrapped, sessErrCb, sessCb,
                   appSetSessCb, netVars, queued, delivered, openCalls, errCalls,
                   client, firedOn>>

(* ClientIntervalAlarmDelegate::OnAlarm during runEventLoop: callback,     *)
(* then re-arm one period after now.                                       *)
SessionIntervalFires ==
    /\ connected
    /\ interval = "armed"
    /\ MaybeFire(TRUE)
    /\ UNCHANGED <<handshake, connected, alarm, requested, appVars, wrapped, sessErrCb, sessCb,
                   appSetSessCb, netVars, queued, delivered, openCalls, errCalls,
                   interval, client>>

(* Client::~Client: clear connected_ and run one zero-timeout loop turn,   *)
(* in which a due session interval fires; client_ is reset, if disconnect  *)
(* has not done it, only when the members are destroyed after the body.    *)
(* Destroying a client whose polling alarm is still armed is left out.     *)
DestroyClient ==
    /\ handshake # "pending"
    /\ client # "destroyed"
    /\ alarm = "none"
    /\ connected' = FALSE
    /\ \E due \in BOOLEAN : MaybeFire(due)
    /\ client' = "destroyed"
    /\ UNCHANGED <<handshake, alarm, requested, appVars, wrapped, sessErrCb, sessCb, appSetSessCb,
                   netVars, queued, delivered, openCalls, errCalls, interval>>
-----------------------------------------------------------------------------
\* The server and the QUIC stack, acting while the event loop runs.

ServerAnswers ==
    /\ connected
    /\ requested
    /\ wt = "pending"
    /\ \E answer \in {"ready", "rejected"} : wt' = answer
    /\ UNCHANGED <<handshake, connected, alarm, requested, appVars, wrapped, sessErrCb, sessCb,
                   appSetSessCb, quic, streamErr, opened, queued, delivered,
                   openCalls, errCalls>>

(* The server opens a stream; quiche calls the installed visitor's         *)
(* OnIncomingBidirectionalStreamAvailable: the ClientSession drains the    *)
(* queue, quiche's no-op visitor leaves it queued.                         *)
ServerOpensStream ==
    /\ connected
    /\ wt = "ready"
    /\ opened < MaxStreams
    /\ opened' = opened + 1
    /\ IF wrapped
          THEN DrainStreams(sessCb, queued + 1)
          ELSE /\ queued' = queued + 1
               /\ UNCHANGED delivered
    /\ UNCHANGED <<handshake, connected, alarm, requested, appVars, wrapped, sessErrCb, sessCb,
                   appSetSessCb, quic, streamErr, wt, openCalls, errCalls>>

(* The CONNECT stream is reset (or the connection fails): the WebTransport *)
(* session, if ready, closes and the installed visitor hears of it;        *)
(* ClientSession::OnSessionClosed reports through the error callback.      *)
ConnectStreamFails ==
    /\ connected
    /\ requested
    /\ ~streamErr
    /\ streamErr' = TRUE
    /\ wt' = IF wt = "ready" THEN "closed" ELSE wt
    /\ IF wrapped /\ wt = "ready" THEN ReportSessionError ELSE UNCHANGED errCalls
    /\ UNCHANGED <<handshake, connected, alarm, requested, appVars, wrapped, sessErrCb, sessCb,
                   appSetSessCb, quic, opened, queued, delivered, openCalls>>

\* The server closes an open session: ClientSession::OnSessionClosed.
PeerClosesSession ==
    /\ connected
    /\ wrapped
    /\ wt = "ready"
    /\ wt' = "closed"
    /\ ReportSessionError
    /\ UNCHANGED <<handshake, connected, alarm, requested, appVars, wrapped, sessErrCb, sessCb,
                   appSetSessCb, quic, streamErr, opened, queued, delivered,
                   openCalls>>

\* client_session() returns null (the case the readiness poll checks first).
ClientSessionGone ==
    /\ handshake = "done"
    /\ connected
    /\ ~wrapped
    /\ quic = "up"
    /\ quic' = "gone"
    /\ UNCHANGED <<handshake, connected, alarm, requested, appVars, wrapped, sessErrCb, sessCb,
                   appSetSessCb, streamErr, wt, opened, queued, delivered,
                   openCalls, errCalls>>
-----------------------------------------------------------------------------
(* The application has constructed the client, configured the verifier   *)
(* and registered its callbacks (or not), and calls connect(); the server  *)
(* presents some chain.                                                     *)
Init ==
    /\ verifier \in VerifierConfigs
    /\ chain \in PresentedChains
    /\ handshake = "pending"
    /\ connected = TRUE
    /\ alarm = "none"
    /\ requested = FALSE
    /\ sessionCbSet \in BOOLEAN
    /\ bidiCbSet \in BOOLEAN
    /\ errCbSet \in BOOLEAN
    /\ wrapped = FALSE
    /\ sessErrCb = FALSE
    /\ sessCb = "none"
    /\ appSetSessCb = FALSE
    /\ quic = "up"
    /\ streamErr = FALSE
    /\ wt = "pending"
    /\ queued = 0
    /\ opened = 0
    /\ delivered = [k \in StreamCbKinds |-> 0]
    /\ openCalls = 0
    /\ errCalls = 0
    /\ interval = "none"
    /\ client = "live"
    /\ firedOn = {}

\* The steps that leave the client's lifetime and the session interval alone.
Endpoint ==
    \/ Connect
    \/ HandshakeAlarm
    \/ SessionReadyAlarm
    \/ ServerAnswers
    \/ ServerOpensStream
    \/ ConnectStreamFails
    \/ PeerClosesSession
    \/ ClientSessionGone
    \/ RegisterCallback

Next ==
    \/ Endpoint /\ UNCHANGED lifeVars
    \/ Disconnect
    \/ SetSessionInterval
    \/ SessionIntervalFires
    \/ DestroyClient

(* connect() runs the handshake to its end, and the alarms fire while the  *)
(* loop runs; the server, the network and the application's disconnect    *)
(* are not obliged to do anything.                                         *)
Fairness == WF_vars(Connect /\ UNCHANGED lifeVars)
                /\ WF_vars(HandshakeAlarm /\ UNCHANGED lifeVars)
                /\ WF_vars(SessionReadyAlarm /\ UNCHANGED lifeVars)

Spec == Init /\ [][Next]_vars /\ Fairness
-----------------------------------------------------------------------------
TypeOK ==
    /\ verifier \in VerifierConfigs
    /\ chain \in PresentedChains
    /\ handshake \in {"pending", "done", "failed"}
    /\ connected \in BOOLEAN
    /\ alarm \in {"handshake", "ready", "none"}
    /\ requested \in BOOLEAN
    /\ {sessionCbSet, bidiCbSet, errCbSet, wrapped, sessErrCb, appSetSessCb, streamErr}
          \subseteq BOOLEAN
    /\ sessCb \in StreamCbKinds
    /\ quic \in {"up", "gone"}
    /\ wt \in {"pending", "ready", "rejected", "closed"}
    /\ queued \in 0..MaxStreams
    /\ opened \in 0..MaxStreams
    /\ delivered \in [StreamCbKinds -> 0..MaxStreams]
    /\ openCalls \in Nat
    /\ errCalls \in Nat
    /\ interval \in {"none", "armed"}
    /\ client \in {"live", "reset", "destroyed"}
    /\ firedOn \subseteq {"open", "closed", "dropped"}

(* spec §4.6 step 5(c): the session-open callback runs at most once, and   *)
(* only for the one ClientSession the readiness poll creates.              *)
SessionOpenedOnce ==
    /\ openCalls <= 1
    /\ openCalls = 1 => wrapped

(* spec §5 error policy: an in-session error reaches the error callback    *)
(* exactly once, whether it is found by the readiness poll or reported by  *)
(* the ClientSession when the session closes.                              *)
ErrorReportedOnce == errCalls <= 1

(* spec §4.6 step 5: once the server has answered the CONNECT request, or  *)
(* the stream or the connection has failed, the readiness poll eventually  *)
(* acts on it: it opens the session or stops the event loop.               *)
AnswerActedOn ==
    (requested /\ (wt # "pending" \/ streamErr \/ quic = "gone"))
        ~> (wrapped \/ ~connected)

(* spec §4.3 and §7 invariant 6: a session is opened only over a chain    *)
(* the configured policy accepts (pinned: exactly the pinned certificate;  *)
(* otherwise a validated path whose leaf matches the host), composing the  *)
(* handshake's VerifyCertChain with the readiness poll that opens it.      *)
SessionOnlyOverTrustedChain ==
    (wrapped \/ requested) => PolicyAccepts(verifier, chain)

\* Streams the ClientSession has accepted, whichever callback received them.
Accepted == delivered["app"] + delivered["client"] + delivered["none"]

(* spec §5 and §7: every stream the server opens on the session is         *)
(* eventually accepted and handed to the stream callback, unless the       *)
(* session closes first or the event loop stops.  Streams that arrive      *)
(* before the readiness poll installs the ClientSession's visitor are the  *)
(* case at stake.                                                          *)
StreamsAccepted ==
    \A n \in 1..MaxStreams :
        opened >= n ~> (Accepted >= n \/ wt = "closed" \/ ~connected)

(* spec §3: an interval alarm is owned by its session and destroyed with   *)
(* it, and a session ends when its WebTransport session reports closed;    *)
(* §4.6: disconnect() drops the client.  So the session's interval          *)
(* callback (which typically sends on the session) runs only while the     *)
(* WebTransport session is open and the client that owns it is live.      *)
IntervalEndsWithSession == firedOn \subseteq {"open"}
=============================================================================
