----------------------------- MODULE ByteStream -----------------------------
(***************************************************************************)
(* What the stream read path promises its application (spec §4.4, §5,     *)
(* §8.3): the read callback receives the bytes the peer wrote, in order,   *)
(* none lost or repeated, as non-empty vectors; after the peer finishes    *)
(* the stream and every byte has been received, it may receive one empty   *)
(* vector, the FIN, and nothing after it.  Every written byte is           *)
(* eventually received.                                                    *)
(*                                                                         *)
(* Bytes are numbered, and byte i carries the value i.  The FIN is a safety *)
(* permission here, not an obligation: ClientStream shows (run             *)
(* client_stream_fin) that the code does not always deliver it.            *)
(***************************************************************************)
EXTENDS Naturals, Sequences

CONSTANT MaxBytes

VARIABLES
    written,    \* bytes the peer has written: 1..written
    finished,   \* the peer has finished the stream
    received,   \* the bytes the read callback has received, joined
    finSeen     \* the read callback has received the empty vector

vars == <<written, finished, received, finSeen>>

Init ==
    /\ written = 0
    /\ finished = FALSE
    /\ received = <<>>
    /\ finSeen = FALSE

Write(n) ==
    /\ ~finished
    /\ written + n <= MaxBytes
    /\ written' = written + n
    /\ UNCHANGED <<finished, received, finSeen>>

Finish ==
    /\ ~finished
    /\ finished' = TRUE
    /\ UNCHANGED <<written, received, finSeen>>

\* The callback receives the next k written bytes as one vector.
Receive(k) ==
    /\ ~finSeen
    /\ Len(received) + k <= written
    /\ received' = received \o [i \in 1..k |-> Len(received) + i]
    /\ UNCHANGED <<written, finished, finSeen>>

\* The callback receives the empty vector once everything is received.
ReceiveFin ==
    /\ finished
    /\ ~finSeen
    /\ Len(received) = written
    /\ finSeen' = TRUE
    /\ UNCHANGED <<written, finished, received>>

Next ==
    \/ \E n \in 1..MaxBytes : Write(n)
    \/ Finish
    \/ \E k \in 1..MaxBytes : Receive(k)
    \/ ReceiveFin

Spec == Init /\ [][Next]_vars /\ WF_vars(\E k \in 1..MaxBytes : Receive(k))
=============================================================================
