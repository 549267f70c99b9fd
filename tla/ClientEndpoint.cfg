CONSTANT MaxStreams <- MCMaxStreams

SPECIFICATION Spec

INVARIANT TypeOK
INVARIANT SessionOpenedOnce
INVARIANT ErrorReportedOnce
INVARIANT SessionOnlyOverTrustedChain
PROPERTY AnswerActedOn

\* After the session is open, or the loop has stopped, the endpoint may
\* legitimately have nothing left to do.
CHECK_DEADLOCK FALSE
