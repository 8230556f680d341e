------------------------------- MODULE MCWire -------------------------------
(* Instances of Wire for TLC: rings of three bytes, as master and as slave. *)
EXTENDS Wire
=============================================================================
