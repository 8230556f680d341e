------------------------------- MODULE MCPdm --------------------------------
(* Instances of Pdm for TLC: rings for none, one and three samples, and DMA *)
(* blocks of two, so that blocks fit, fit in part and are dropped.          *)
EXTENDS Pdm

MCBufferSizes == {0, 1, 3}
MCReadSizes == {1, 4}
=============================================================================
