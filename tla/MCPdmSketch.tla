---------------------------- MODULE MCPdmSketch -----------------------------
(* An instance of PdmSketch for TLC.                                        *)
EXTENDS PdmSketch

MCBufferSizes == {FrameSize}
MCReadSizes == {}
=============================================================================
