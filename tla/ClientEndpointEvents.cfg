CONSTANT MaxStreams <- MCMaxStreams

SPECIFICATION Spec

PROPERTY StreamsAccepted

\* After connect() has thrown, or the session is open, or the loop has
\* stopped, the endpoint may legitimately have nothing left to do.
CHECK_DEADLOCK FALSE
