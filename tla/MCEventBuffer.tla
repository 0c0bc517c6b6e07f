---------------------------- MODULE MCEventBuffer ----------------------------
(* Model checking EventBuffer.                                              *)
EXTENDS EventBufferProperties
=============================================================================
