\* A network that loses nothing: datagrams are dropped only when they
\* arrive before the open callback has registered the reader.
CONSTANTS
    Input <- MCInput
    Mtu = 13
    MaxLoss = 0
    MaxVP8Frames = 0
SPECIFICATION MCSpec
INVARIANT
    OutputNalusWereSent
CHECK_DEADLOCK FALSE
