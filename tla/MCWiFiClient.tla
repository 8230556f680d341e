---------------------------- MODULE MCWiFiClient ----------------------------
(* Instances of WiFiClient for TLC: one client, one connection.             *)
EXTENDS WiFiClient

MCThreads == {Sketch, Worker}
=============================================================================
