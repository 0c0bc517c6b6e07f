------------------------------ MODULE MCHostBuf ------------------------------
(* Model checking HostBuf: threads are interchangeable where no liveness is *)
(* checked.                                                                 *)
EXTENDS HostBufProperties, TLC

Symmetry == Permutations(Threads)
=============================================================================
