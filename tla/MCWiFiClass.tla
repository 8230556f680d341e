----------------------------- MODULE MCWiFiClass ----------------------------
(* Instances of WiFiClass for TLC: more networks than the list has room for. *)
EXTENDS WiFiClass
=============================================================================
