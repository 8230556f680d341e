----------------------------- MODULE MCSocketRx -----------------------------
(* Instances of SocketRx for TLC: a stream longer than the ring, read in    *)
(* single bytes (WiFiClient::read()) and in blocks.                         *)
EXTENDS SocketRx

MCReadLens == {1, 2}
=============================================================================
