\* Accept / reject protocol of the server session adapter.
CONSTANTS
    RejectCodes <- MCRejectCodes
    Reasons <- MCReasons
    MaxStreams <- MCMaxStreams

SPECIFICATION Spec

INVARIANT TypeOK
INVARIANT RejectBeforeReadySuppressesSessionCb

PROPERTY ClosedSessionSilent
PROPERTY LibraryCloseCarriesDecision
PROPERTY RejectEventuallyCloses

\* A session the peer has closed, or one that ran out of events after the
\* application lost interest, legitimately stops: nothing is left to run.
CHECK_DEADLOCK FALSE
