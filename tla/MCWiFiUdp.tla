----------------------------- MODULE MCWiFiUdp ------------------------------
(* Instances of WiFiUdp for TLC: a datagram that does not fit the socket's  *)
(* ring, an empty one, and one that fits.                                   *)
EXTENDS WiFiUdp

MCLength == <<4, 0, 2>>
MCReadLens == {1}
MCWriteLens == {1, 2}
=============================================================================
