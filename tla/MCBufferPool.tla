---------------------------- MODULE MCBufferPool ----------------------------
(* Instances of BufferPool for TLC.                                         *)
EXTENDS BufferPool

ThreeBuffers == {"b1", "b2", "b3"}
=============================================================================
