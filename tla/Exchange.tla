------------------------------ MODULE Exchange ------------------------------
(***************************************************************************)
(* What the administrator is promised: the log grows; one question at a    *)
(* time is asked; its answer covers the log up to some point between the   *)
(* question and the answer.                                                *)
(***************************************************************************)
EXTENDS Integers

VARIABLES
    logged,     \* length of the log
    asking,     \* whether a question is open
    since,      \* length of the log when it was asked
    answer      \* what the last answer covers

vars == <<logged, asking, since, answer>>

Init == logged = 0 /\ asking = FALSE /\ since = 0 /\ answer = 0

Grow ==
    /\ logged' = logged + 1
    /\ UNCHANGED <<asking, since, answer>>

Ask ==
    /\ ~asking
    /\ asking' = TRUE
    /\ since' = logged
    /\ UNCHANGED <<logged, answer>>

Answer ==
    /\ asking
    /\ asking' = FALSE
    /\ answer' \in since..logged
    /\ UNCHANGED <<logged, since>>

Next == Grow \/ Ask \/ Answer

Spec == Init /\ [][Next]_vars
=============================================================================
