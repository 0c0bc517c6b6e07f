----------------------------- MODULE MCDeviceBuf -----------------------------
(* Model checking DeviceBuf.                                                *)
EXTENDS DeviceBufProperties
=============================================================================
