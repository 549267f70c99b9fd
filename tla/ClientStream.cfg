\* Byte delivery of the client stream read path.
CONSTANTS
    MaxBytes <- MCMaxBytes
    ReadHeadroom <- MCReadHeadroom

SPECIFICATION Spec

INVARIANT TypeOK
INVARIANT ReadsMatchConsumed
INVARIANT EmptyReadOnlyAtEnd

PROPERTY SentDataDelivered
PROPERTY ImplementsByteStream

\* Once the peer has finished and everything is read, the stream is done.
CHECK_DEADLOCK FALSE
