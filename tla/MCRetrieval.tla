---------------------------- MODULE MCRetrieval ----------------------------
(* Model checking Retrieval.                                                *)
EXTENDS RetrievalProperties
=============================================================================
