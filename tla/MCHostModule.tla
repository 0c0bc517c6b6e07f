----------------------------- MODULE MCHostModule -----------------------------
(* Model checking HostModule: two threads and two loads.                    *)
EXTENDS HostModuleProperties
=============================================================================
