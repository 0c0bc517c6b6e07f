------------------------------ MODULE MCResponse ------------------------------
(* Model checking Response: chunks of two characters, logs of up to five.   *)
EXTENDS ResponseProperties
=============================================================================
