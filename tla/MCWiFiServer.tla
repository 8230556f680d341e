---------------------------- MODULE MCWiFiServer ----------------------------
(* Instances of WiFiServer for TLC: a sketch that only polls and reads, with *)
(* handles that are reused, and sketches that also stop clients, end the     *)
(* server, or (with one connection) do both.                                 *)
EXTENDS WiFiServer, TLC

MCThreads == {Sketch, Worker}
MCSockets == Conns \cup {Server}
HandleSymmetry == Permutations(Handles)

MCWorlds ==
  {[stops |-> {}, reuse |-> TRUE, conns |-> 3],
   [stops |-> {"client"}, reuse |-> FALSE, conns |-> 2],
   [stops |-> {"server"}, reuse |-> FALSE, conns |-> 2],
   [stops |-> {"client", "server"}, reuse |-> FALSE, conns |-> 1]}
MCWorldsReuse == {[stops |-> {"client"}, reuse |-> TRUE, conns |-> 2]}
=============================================================================
