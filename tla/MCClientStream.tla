-------------------------- MODULE MCClientStream --------------------------
(* Model-checking instance of ClientStream: three bytes (enough for two    *)
(* regions and a partly read one) and one byte of buffer headroom standing *)
(* for the code's 4096: what matters is only that it is smaller than what  *)
(* a stream can hold.                                                      *)
EXTENDS ClientStream

MCMaxBytes == 3
MCReadHeadroom == 1
=============================================================================
