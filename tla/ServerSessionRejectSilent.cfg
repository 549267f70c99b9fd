\* spec §3 (ii): a rejected session never produces callbacks or sends.
CONSTANTS
    RejectCodes <- MCRejectCodes
    Reasons <- MCReasons
    MaxStreams <- MCMaxStreams

SPECIFICATION Spec

PROPERTY RejectStopsCallbacks

CHECK_DEADLOCK FALSE
