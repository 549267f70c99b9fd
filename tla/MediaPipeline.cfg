\* The stream over a network that may lose one datagram.
CONSTANTS
    Input <- MCInput
    Mtu = 13
    MaxLoss = 1
    MaxVP8Frames <- MCMaxVP8Frames
SPECIFICATION MCSpec
INVARIANT PayloadsFitMtu
INVARIANT VP8RoundTrip
\* The stream ends: with every access unit sent and every datagram
\* delivered or lost, nothing is left to do.
CHECK_DEADLOCK FALSE
