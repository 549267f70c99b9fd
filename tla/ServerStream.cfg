CONSTANTS
    Period <- MCPeriod
    MaxTime <- MCMaxTime
    MaxSets <- MCMaxSets
    MaxBytes <- MCMaxBytes

SPECIFICATION Spec

INVARIANT TypeOK
INVARIANT FiringRateBound
PROPERTY IntervalKeepsFiring
PROPERTY ReadsFollowByteStream
PROPERTY ReadsDelivered

\* The clock is bounded at MaxTime and the peer at MaxBytes, where every
\* behaviour ends.
CHECK_DEADLOCK FALSE
