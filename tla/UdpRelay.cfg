CONSTANTS
    s1 = s1
    s2 = s2
    Streams <- MCStreams
    MaxDatagrams <- MCMaxDatagrams
    SocketCap <- MCSocketCap
    RelayPeriod <- MCRelayPeriod
    SrcPeriod <- MCSrcPeriod
    MaxTime <- MCMaxTime

SPECIFICATION Spec

INVARIANT TypeOK
INVARIANT StreamsCarryFrames
PROPERTY DatagramsDrained

\* The clock is bounded at MaxTime and the source at MaxDatagrams, where
\* every behaviour ends.
CHECK_DEADLOCK FALSE
