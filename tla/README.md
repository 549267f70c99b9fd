# TLA+ models of libwebtransport

This directory holds TLA+ models of the WebTransport library in `src/`. The library is a thin C++ layer over the QUIC stack quiche, and the models check them with TLC. `PROJECT.json` lists:
- the components;
- the runs;
- the mutants that show each property can fail;
- the map from each definition to the source lines it models;
- the findings;
- the hazards.

## The system

Both the server and the client run on quiche's single-threaded event loop. quiche calls the library's *visitors*, and the library calls the application's callbacks from inside them. The following therefore runs as one atomic step of the loop:
- one visitor method;
- every application callback it makes;
- every library call those callbacks make.

Concurrency comes from the order of these steps. Some are driven by the network:
- session ready;
- datagram arrived;
- stream available;
- can read;
- session closed.

Others are driven by timers:
- the interval alarms;
- the client's 10 ms polling alarms.

| Part | Source | State | Operations |
|---|---|---|---|
| Server session wrapper | `web_transport_server.cc` `SessionWrapper` | `onready_called_`, `session_closed_`, `should_reject_`, reject code/reason, callbacks | `OnSessionReady`, `OnDatagramReceived`, `OnIncoming{Uni,Bi}directionalStreamAvailable`, `OnSessionClosed`, `RejectSession`, `SendDatagram`, `onDatagramRead`, `setInterval` |
| Server stream wrapper | `web_transport_server.cc` `StreamWrapper` | data callback, interval alarm | `OnCanRead`, `Send`, `setInterval` |
| Interval alarms | `*_interval.cc` | alarm, callback | `OnAlarm` (callback, then rearm) |
| Public facade | `web_transport.cc` | a new wrapper object per callback | forwarding calls |
| Client driver | `web_transport_client.cc` | `connected_`, handshake / session-ready alarms | polling, `run`, `disconnect` |
| Client session | `web_transport_client_session.cc` | callbacks | stream drain, `OnSessionClosed` |
| Client stream | `web_transport_client_stream.cc` | read callback | `OnCanRead` (peek / copy / skip loop), `Send` |
| Certificate verifier | `web_transport_client_verify.cc` | — | `VerifyCertChain` (pinned / CA / default store, host check) |
| RTP packetizers (examples) | `examples/media_stream/*` | H.264: stored SPS/PPS, `fua_buffer_`; VP8: picture ID | `Payload`, `Unmarshal` (H.264 STAP-A/FU-A, VP8 descriptor), RTP header parsing |
| Media client (example) | `examples/media_stream/client copy.cc` | depacketizer, output file | session-open callback, datagram reader |
| Browser relay (example) | `examples/media_bidirectional_stream_js/server.cc` | UDP socket on port 5000, one interval per stream | stream callback (`setInterval(1, ...)`), interval callback (`recvfrom`, `Frame::serialize`, `send`) |

The server and client sides interact only through QUIC, which quiche implements and which is not part of this code. Each side is therefore modelled against an environment that stands for quiche and the peer.

## Modules

### `ServerSession` (with `MCServerSession`)

This module models one server session's wrapper.

**Variables:**
- The wrapper's own fields (`onready_called`, `session_closed`, `should_reject`, `reject_error_code`, `reject_reason`) correspond to those in the code.
- `wtState` and `closeInfo` model the quiche session: open, then closing with the code and reason passed to `CloseSession`, then gone after `OnSessionClosed`.
- `pending` and `notify` model quiche's queue of incoming streams per kind, and whether a notification is due.
- `*CbSet` records which application callbacks are registered. The server's own callbacks are chosen in `Init`.
- `log` records what the step did that the application or the peer can observe, in order: callback calls, rejects and datagrams sent.
- `sessionCbAnswer` and `rejectedBeforeReady` are history variables: what the session callback returned, and whether a reject came before readiness. They state the hypotheses of `LibraryCloseCarriesDecision` and `RejectBeforeReadySuppressesSessionCb` and change no behaviour.

**Actions:**
- Every visitor handler is one action covering the whole handler, including the application's reactions inside its callbacks. A callback may call `rejectSession` with a code and reason from small sets, or do nothing.
- In the stream drain loop, the reject may happen after any of the queued streams' callbacks.
- `AppRejectSession`, `SendDatagram` and `OnDatagramRead` are calls the application makes later, for example from an interval callback, with a session it was handed.

### `ClientStream` (with `MCClientStream`)

This module models the client stream's `OnCanRead`.

**The environment:**
- The peer writes bytes and then a FIN.
- The network hands the bytes to the stream in order but in arbitrary pieces (`Arrive`).
- The FIN can arrive before the last bytes.
- Byte *i* carries the value *i*, so a byte that is lost, repeated or misplaced is visible in what the callback receives.

**`OnCanRead`** is translated step by step:
- the first peek and the FIN-only branch;
- the buffer sized as `ReadableBytes() + headroom` and zero-filled;
- the copy loop (`ReadLoop`, RECURSIVE), which peeks, copies `min(room, region)` at offset `total`, skips and stops on FIN;
- the delivery of the result.

### `ClientEndpoint` (with `MCClientEndpoint`)

This module models the client after `connect()`: the two polling alarms of `web_transport_client.cc` and the `ClientSession` they create (`web_transport_client_session.cc`).

**Variables:**
- `connected` is `connected_`, which keeps `runEventLoop()` looping. `alarm` is the armed polling alarm.
- `sessionCbSet`, `bidiCbSet` and `errCbSet` record which client-level callbacks the application has registered. Their values before `connect()` are chosen in `Init`. `RegisterCallback` sets them later, from a callback. `sessErrCb` is the `ClientSession`'s own copy of the error callback. It is taken once, when the session is wrapped, and `ClientSession::OnSessionClosed` reports through it (`ReportSessionError`).
- `wrapped` says a `ClientSession` exists and its visitor is installed. `sessCb` is the session's own stream callback, and `appSetSessCb` says the application set one inside the open callback.
- `quic`, `streamErr`, `wt`, `opened` and `queued` stand for quiche and the server: the client session, the CONNECT stream, the WebTransport session and the streams the server opened and that wait unaccepted.
- `delivered`, `openCalls` and `errCalls` count the application callbacks.
- `interval` is the session's `interval_alarm_`. `client` is the lifetime of the `Client` object: `live`, `reset` (`disconnect()` ran `client_.reset()`) or `destroyed` (`~Client` ran). `firedOn` is a history variable: the state of the WebTransport session (open, closed, dropped with the client) at each run of the interval callback.

**Actions:**
- `Connect` is the handshake inside `connect()`: quiche asks `VerifyCertChain` (from `CertPolicy`) about the chain chosen in `Init`. A rejected chain ends in `handshake = "failed"`, where `connect()` throws.
- `HandshakeAlarm` sends the CONNECT request. `QuicClientBase::Connect` has finished the handshake when `connect()` returns, so the first firing finds the client session.
- `SessionReadyAlarm` is the whole readiness poll: the three error branches (report, stop the loop), the ready branch (`WrapSession`: new `ClientSession`, open callback, then the client-level stream callback installed on the session), and the re-arm.
- `Disconnect` is all of `Client::disconnect`. It clears `connected_` and cancels the two polling alarms. Then it runs one zero-timeout loop turn, in which a due session interval fires (`MaybeFire`). Then `client_.reset()` destroys the QUIC client and the WebTransport session.
- `SetSessionInterval` is `ClientSession::setInterval`, called by the application from a callback. `SessionIntervalFires` is `ClientIntervalAlarmDelegate::OnAlarm` while the loop runs: the callback, then the re-arm.
- `DestroyClient` is `~Client`: clear `connected_`, then one zero-timeout loop turn. A destructor run while a polling alarm is still armed is left out.
- The environment answers the request, resets the CONNECT stream, loses the client session, opens streams and closes the session. A stream is drained by `ClientSession::OnIncomingBidirectionalStreamAvailable` once the visitor is installed. Before that it stays queued behind quiche's no-op visitor.

### `IntervalAlarm` (with `MCIntervalAlarm`)

This module models one owner's interval alarm (`setInterval` on a server session or stream, or a client session or stream; the four copies are the same code) and `IntervalAlarmDelegate::OnAlarm`.
- Time is a millisecond counter that `Tick` advances while no alarm is overdue.
- `OnAlarm` runs the callback and re-arms one period after the callback, in the same step. The callback may return, throw, or call `setInterval` on its own owner.
- A throw has no handler anywhere on the path, so it leaves the event loop (`stopped = "exception"`).
- A nested `setInterval` destroys the running delegate. Its `alarm_->Set` then uses freed memory. That undefined behaviour is modelled as either a crash or a `Set` that arms nothing, and `freedUse` records it.

### `CertPolicy`

This module holds the client's certificate check `BoringSSLProofVerifier::VerifyCertChain` (`web_transport_client_verify.cc`) as operators. X.509 work is BoringSSL's, so a verifier configuration is its mode (pinned, CA store, default paths) and whether what it loads loads. A presented chain is its length and the verdicts the code asks for: whether it parses, whether the leaf equals the pin, whether the path validates, whether the host matches. `PolicyAccepts` is the reference: the policy of spec §4.3 and §7. `ClientEndpoint` EXTENDS it and calls `VerifyCertChain` in its `Connect` step.

### `ByteStream`: the abstract stream

This module is what a read path promises its application (spec §4.4, §8.3):
- the peer's bytes arrive in order, none lost or repeated, as non-empty vectors;
- at most one empty vector (the FIN) follows, after all the bytes, and nothing comes after it;
- every written byte is eventually received.

Two detailed modules are checked against it with `INSTANCE ByteStream WITH` a refinement mapping. The abstract bytes are the peer's writes; "received" is the joined reads; the FIN is an empty vector among the reads.
- `ClientStream` implements all of `ByteStream!Spec`, liveness included (`ImplementsByteStream`).
- `ServerStream` implements its safety part (`ReadsFollowByteStream`). Its liveness fails because of late `data_cb_` registration; see `ReadsDelivered`.

### `ServerStream` (with `MCServerStream`)

This module models `Server::StreamWrapper` (`web_transport_server.cc`), composed with its own interval, which is an `INSTANCE` of `IntervalAlarm`.

**The environment:**
- The peer writes bytes and then finishes.
- `Arrive(k, fin)` hands the next `k` bytes to the stream, with the FIN when `fin`, which stands for the FIN in the same frame as the last bytes, or alone when `k = 0`.

**Actions:**
- `OnCanRead` reads everything readable and hands it to `data_cb_` as one vector, or does nothing when no `data_cb_` is set. The `ReadResult`, and its FIN flag, is ignored.
- `OnStreamRead` is the application registering `data_cb_` after the stream callback. `Init` chooses whether the stream callback already did so.
- `missed` is a history variable: a readable notification came while `data_cb_` was unset.
- An interval callback that throws leaves the event loop. After that, no `OnCanRead` runs.

### `H264Payloader`, `H264Depacketizer` and `MediaPipeline` (with `MCMediaPipeline`)

The media example's H.264 path is modelled as operators, each translating its C++ function with bytes as numbers 0..255.
- `H264Payloader` holds `Payload`: the start-code search, skipping AUD and filler, SPS and PPS held back for a STAP-A, and FU-A cutting (RECURSIVE).
- `H264Depacketizer` holds `RTPPacket::Unmarshal` and `H264Packet::ParseBody`: single NAL, the STAP-A split, and FU-A reassembly in `fua_buffer_`.

`MediaPipeline` composes them:
- A sender packetizes each access unit of `Input` and sends one RTP datagram per packet.
- The network delivers datagrams in order, loses up to `MaxLoss`, or drops them.
- The client (`client copy.cc`) opens `output.h264` in its session-open callback and registers the datagram reader there. A datagram that arrives before that is dropped (`ClientSession::OnDatagramReceived` without a callback).
- `InputNalus` is a reference definition written independently of the code: the input's NAL units found by their 00 00 01 codes. `OutputNalusWereSent` compares the NAL units of `output.h264` with it.

### `VP8Rtp`

The VP8 payloader and `VP8Packet::Unmarshal` are modelled as operators. The payloader's members (`enable_picture_id_`, `picture_id_`) are driven by a small state machine: `EnablePictureID`, `SetPictureID` with IDs around the 0, 127/128 and 15-bit edges, and `Payload`, which advances `picture_id_`. No example program uses VP8. Its variables are composed with `MediaPipeline` in `MCMediaPipeline`, sharing nothing, so that the `media_pipeline` run checks both codecs.

### `UdpRelay` (with `MCUdpRelay`)

This module models the browser media relay, `examples/media_bidirectional_stream_js/server.cc`, together with the library code it runs through: `ServerStream::send` and `StreamWrapper::Send` (`web_transport.cc`, `web_transport_server.cc`), and the interval alarm of `setInterval`.

**Variables:**
- `sock` is the kernel's receive buffer of the non-blocking UDP socket, oldest first. `lost` holds the datagrams the kernel dropped because the buffer was full.
- `srcSent` and `nextSrc` stand for the RTP source. It sends at most one datagram every `SrcPeriod` ms.
- `opened`, `armed` and `deadline` are the streams the browsers opened and their interval alarms.
- `alive` says a browser still takes what its stream writes. `out` holds the bytes each stream's `Write` accepted, and `refused` the datagrams lost to a refused `Write`.

**Actions:**
- `OpenStream` is the stream callback, which sets the stream's interval.
- `IntervalCallback` is one firing of a stream's interval. It does one `recvfrom`, and if a datagram came, frames it with `Serialize` (`Frame::serialize`) and the wall-clock `Timestamp`. It then calls `Send` and re-arms one period on.
- `Tick` is the event loop's clock. It advances only while no alarm is overdue, so a due alarm fires before the clock moves on and its callback takes no time. The code re-arms at `Now() + interval` after the callback and can fire late when the loop is busy; the model leaves that latency out, and `DatagramsDrained`'s bound of i periods assumes it.
- The environment sends datagrams (`SourceSends`). A browser may leave (`BrowserLeaves`) in one of two ways. It may reset its stream: the wrapper and its interval live on, and `Write` refuses. Or quiche may destroy the stream, which destroys the wrapper and its alarm with it.

`StreamsCarryFrames` reads each stream's bytes with `ParseFrames`, a reference reader written from the frame format of spec §9. It is not the serializer run backwards. The 64-bit timestamp is kept as two 32-bit words, because TLC's integers are 32-bit. `Timestamp` takes `system_clock` as running in step with the loop's clock; a wall clock can be stepped, so no property depends on the timestamp's value, only on the frame layout around it.

## Runs

| Run | Result | What it shows |
|---|---|---|
| `server_session` | pass (28,006 states) | Five properties hold in every order of readiness, datagrams, stream arrivals, rejects and peer close. **`ClosedSessionSilent`**: once `session_closed_` is set, no step calls an application callback or sends. **`RejectBeforeReadySuppressesSessionCb`**: a reject before readiness means the session callback is never called. **`LibraryCloseCarriesDecision`**: the library's close carries the code and reason given to `RejectSession`, or code 0 only when the session callback returned false without rejecting. The callback's return value is kept in the history variable `sessionCbAnswer`, so a close after an accepting callback is a violation. **`RejectEventuallyCloses`**: a rejection is eventually acted on. Also `TypeOK`. |
| `server_reject_silent` | violation | **`RejectStopsCallbacks`** fails: after `OnSessionReady`, a stream callback calls `rejectSession`, which closes the session, and the drain loop calls the stream callback for the next queued stream (`web_transport_server.cc:170`). TLC's trace: readiness, two streams queued, one notification whose drain runs callback, reject, callback. A reject before `OnSessionReady` only records the decision, so callbacks continue until readiness; that window is listed as a hazard and bounded by `RejectEventuallyCloses`. |
| `client_stream` | pass (118 states) | **`ReadsMatchConsumed`**: the bytes delivered are exactly bytes 1..consumed, in order. **`EmptyReadOnlyAtEnd`**: an empty vector is delivered only at the very end. **`SentDataDelivered`**: every byte sent is eventually delivered. **`ImplementsByteStream`**: the read path refines `ByteStream`, liveness included. Also `TypeOK`. |
| `client_stream_fin` | violation | **`FinSignalled`** fails: when the last data and the FIN are consumed in one `OnCanRead`, no empty vector is ever delivered, so the reader never learns that the stream ended (`web_transport_client_stream.cc:111`). |
| `client_endpoint` | pass (105,456 states) | **`SessionOnlyOverTrustedChain`**: the CONNECT request goes out, and a session is wrapped, only over a chain `PolicyAccepts`, for every verifier configuration and chain. **`SessionOpenedOnce`**: the open callback runs at most once, and only for a wrapped session. **`ErrorReportedOnce`**: the error callback runs at most once. **`AnswerActedOn`**: every answer to the CONNECT request, or a lost stream or connection, is eventually acted on. Also `TypeOK`. |
| `client_events` | violation | **`StreamsAccepted`** fails: streams the server opens after the session is ready but before the 10 ms poll installs the `ClientSession` visitor stay in quiche's queue, and nothing accepts them unless another stream arrives (`web_transport_client.cc:88`). TLC's trace: handshake, CONNECT accepted, two streams opened, the poll wraps the session, no stream is delivered while the loop keeps running. The model also reaches the overwritten per-session stream callback (`:101`), the error callback not copied after wrapping (`:91`), the loop that keeps running after a peer close (`client_session.cc:43`) and the certificate failure thrown past the error callback (`:314`); these are listed as hazards with no run. |
| `client_interval_lifetime` | violation | **`IntervalEndsWithSession`** fails because nothing cancels the session's interval alarm. In the shortest trace the callback runs after the peer closed the session (`web_transport_client_session.cc:38`). With that path excluded, TLC still finds a run after `client_.reset()`: `disconnect()`, then `~Client`'s zero-timeout loop turn fires the interval, whose `sendDatagram` would use the freed WebTransport session (`web_transport_client.cc:253`). |
| `server_stream` | pass (10,541 states) | **`FiringRateBound`** and **`IntervalKeepsFiring`** (from `IntervalAlarm`): the stream's interval never fires more often than its period allows, and keeps firing while it is current. **`ReadsFollowByteStream`**: what `data_cb_` receives refines the safety part of `ByteStream`. **`ReadsDelivered`**: every byte the peer writes reaches `data_cb_`, unless a readable notification came while no `data_cb_` was registered, or the loop was left. Also `TypeOK`. |
| `interval_callback` | violation | **`CallbackReturnsToLoop`** fails in two ways. A callback that throws leaves the event loop without re-arming (`web_transport_server_interval.cc:13`; spec §4 says errors are swallowed). A callback that calls `setInterval` on its own owner destroys the running delegate, which then re-arms through a freed alarm (`:15`). |
| `udp_relay` | pass (198,490 states, about 2 minutes) | **`StreamsCarryFrames`**: each stream's bytes parse into whole RTP frames. Each frame holds one datagram exactly as sent, and the frames follow the source's order. Every datagram sent is in exactly one place: the socket buffer, a kernel drop, a refused `Write`, or one stream. This holds with two streams draining one socket and browsers leaving either way. **`DatagramsDrained`** is a liveness property: a datagram i-th in the buffer while an interval is armed leaves the socket within i periods, unless an armed interval is destroyed meanwhile. The clock's bound leaves out the last periods, and the bound rests on alarms firing on time (see `Tick`). Also `TypeOK`. |
| `media_pipeline` | pass (8,160 states) | **`PayloadsFitMtu`**: every datagram fits the MTU. **`VP8RoundTrip`**: from every reachable VP8 payloader state, each frame and MTU round-trip through `Payload` and `Unmarshal`. The packets fit, only the first is a partition head, the picture ID read is the payloader's, and the ID advances only when something is sent. |
| `media_drop` | violation | **`OutputNalusWereSent`** fails, with no loss at all. Datagrams that arrive before the open callback registers the reader are dropped, and the FU-A reassembly then writes a truncated NAL unit to `output.h264` instead of failing. `ParseBody` appends an FU-A fragment without looking at its start bit (`h264_packet.cc:138`). |

Each property of a passing run has a mutant in `PROJECT.json`. A mutant is an operator placed before the definition it replaces, modelling a plausible bug, and TLC finds the property violated when it is swapped in. The bugs modelled are:
- a reject that never closes;
- a datagram delivered after close;
- the session callback's return value tested inverted;
- copying at offset 0;
- skipping one byte too few;
- an empty vector whenever nothing was read;
- a fixed-size read buffer;
- an accepted stream left in the queue;
- a readiness poll that keeps polling after wrapping, falls through an error branch, or ignores a rejection;
- an interval alarm set to fire at once, re-armed at now, or not re-armed;
- a pinned check without its chain-length test;
- a read callback given the whole buffer;
- FU-A fragments one byte too wide;
- a server read that peeks instead of consuming, or reads one byte per notification;
- a VP8 descriptor one byte short;
- a relay `recvfrom` with `MSG_PEEK`, and a relay interval re-armed one millisecond late.

## Bounds and fairness

**`MCServerSession`:**
- Reject codes are `{0, 401}`, with one reason.
- There are at most 3 incoming streams over both kinds. This is enough for two streams queued before one notification, so the drain loop runs a callback, then a reject, then another callback, while a third stream can arrive after a close.
- Fairness is weak on `OnSessionReady` and on the stream notifications. The stack calls these once the handshake completes or a stream is queued.
- There is no fairness on application calls or on the peer.

**`MCClientStream`:**
- There are 3 bytes and one byte of buffer headroom. The headroom stands for the code's 4096: what matters is that it is positive, so the buffer always holds every readable byte.
- 3 bytes are enough to form two regions, a region extended after a partial read, and a FIN that overtakes the last byte.
- Fairness is weak on the network, since QUIC retransmits until delivery, and on `OnCanRead`, since the event loop dispatches every due notification.

**`MCClientEndpoint`:**
- The server opens at most 2 streams: one can arrive before the wrap and one after, which is what separates a queued stream from a drained one.
- Every combination of registered callbacks is an initial state.
- Fairness is weak on the two polling alarms only. The event loop fires an armed alarm, and each poll either acts or re-arms. The server, the network, `disconnect`, the destructor and the session interval are under no obligation. The interval's timing is `IntervalAlarm`'s business. Here it matters only that an armed interval may be due at any loop turn, because time passes between `disconnect()` and the destructor.

**`MCIntervalAlarm` and `MCServerStream`:**
- The period is 2 ms and the clock stops at 6 ms, so one alarm fires up to three times. There are at most 2 `setInterval` calls, so an alarm can be replaced both from outside and from its own callback.
- Fairness is weak on the clock and on `OnAlarm`. The loop runs due alarms, and the application need not call `setInterval`.
- In `MCServerStream` the peer writes up to 2 bytes. That is enough for one or two arrivals, a FIN alone or with the last byte, and `data_cb_` registered before or after the first notification.
- Fairness is weak on `Arrive`, since QUIC retransmits until delivery, and on `OnCanRead`, since the stack notifies for every arrival. There is no fairness on `onStreamRead`: the application may never register.

**`MCMediaPipeline`:**
- The stream is three access units shaped like an encoder's output: AUD, SPS, PPS, SEI and an IDR slice larger than the MTU; AUD, a large P slice and filler; a small P slice.
- With `Mtu = 13`, SPS, PPS and SEI fill one STAP-A exactly, and both large slices are cut into two FU-A fragments, so every packet kind is sent. The network may lose one datagram.
- The output file does not reproduce every encoder-shaped stream: with the IDR slice straight after the PPS, SPS and PPS are held back and the slice goes out first, and a 4-byte mid-stream start code leaves a zero byte on the previous NAL unit. Both are listed as hazards; no run states reproduction.
- Fairness: the sender sends every access unit, datagrams in flight arrive, and the open callback runs. The first two are written as `<>[]enabled => []<><<A>>_vars` with their exact enabling conditions, so TLC does not run the payloader to decide enabledness. This is the same as weak fairness.
- VP8 covers frames of 0 to 5 bytes, MTUs 1 to 6, picture IDs {0, 1, 127, 128, 32767, 32768} and one `Payload` call. The MTUs cover every descriptor size plus and minus one byte.

**`MCUdpRelay`:**
- There are two streams. This is enough for two intervals to share the socket, and for one browser to leave while the other stays.
- There are four datagrams of one or two bytes, with a buffer of two. The source and the relay both use a 2 ms period, and the clock stops at 8 ms, so each interval fires up to four times.
- The two example programs poll every 1 ms and every 16 ms. Only the ratio of the source's period to the relay's matters.
- The run uses no symmetry, because it checks a liveness property.
- Fairness is weak on the clock and on the interval firings, for the reason given for `IntervalAlarm`. The source and the browsers are under no obligation.

All runs disable deadlock checking. A closed session, a fully read stream, a stopped client loop and a clock at its bound legitimately stop.

## Not modelled

- **`ClientBidirectionalStream::Send`** is not modelled. `StreamWrapper::Send` is modelled only in `UdpRelay`, where a `Write` is accepted while the browser takes data and refused once it has reset the stream. Flow control, which blocks writes only for a while, is quiche's code and not part of this repository.
- **`examples/media_stream/server copy 2.cc`** is the same relay as `UdpRelay`, with a 16 ms interval and no framing: it writes the raw datagram. With `Serialize` replaced by the raw payload, `StreamsCarryFrames` fails at once, because a byte stream does not preserve datagram boundaries (spec §4.4). This was checked while building the model and is listed as a hazard. It has no violation run of its own: the project keeps its relay run for the framed program.
- **Datagram sizes at the 64 KiB edge** (`recvfrom` into 65500 bytes, which truncates without `MSG_TRUNC`) and **empty datagrams** are not modelled. Byte-level payloads of that size are out of TLC's reach.
- **Configuration and I/O**: `InitializeServer`, `Listen`, certificate loading, and the sockets and files of the example programs other than the relay. `https_server.cc` and the datagram echo examples only forward bytes.
- **X.509 parsing** is abstracted to verdicts in `CertPolicy`.
- **In the client**: URL parsing, header setup, datagram forwarding (unchanged), `createBidirectionalStream`. The lifetimes are modelled only for the session's interval alarm. Not modelled: stream interval alarms, and `sendDatagram` calls the application makes on a session pointer it kept.
- **In the media example**: the VP8 depacketizer's accessors (`GetPictureID`, `IsKeyFrame`), which change no state; RTP marshalling; the H.264 AVC output mode, which no program uses.
- **An abstract session specification** for `ServerSession` has not been written. The violation runs already show where the code departs from a silent-after-reject session.
