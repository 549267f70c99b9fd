CONSTANT MaxStreams <- MCMaxStreams

SPECIFICATION Spec

INVARIANT IntervalEndsWithSession

\* Once the client is destroyed nothing is left to do.
CHECK_DEADLOCK FALSE
