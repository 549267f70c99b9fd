CONSTANTS
    Period <- MCPeriod
    MaxTime <- MCMaxTime
    MaxSets <- MCMaxSets

SPECIFICATION Spec

INVARIANT CallbackReturnsToLoop

\* The clock is bounded at MaxTime, where every behaviour ends.
CHECK_DEADLOCK FALSE
