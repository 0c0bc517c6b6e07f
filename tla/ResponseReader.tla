---------------------------- MODULE ResponseReader ----------------------------
(***************************************************************************)
(* The thread in the READRESPONSE ioctl (host/module/hl-ioctl.c) that reads *)
(* the audit device's answer sector by sector, bio_read_response_file of   *)
(* host/module/hl-response.c.  hardlog_logging is the flusher's; when a     *)
(* submitted read is served is the device's affair and up to the module    *)
(* that composes this one.                                                 *)
(***************************************************************************)
EXTENDS Integers

CONSTANTS
    SECTOR,   \* 512, the bytes of one read
    Sizes     \* what clients ask for, in bytes

VARIABLES
    hardlog_logging,  \* a flush is going on
    rpc,              \* where the thread is
    hrsp_size,        \* what the client asked for
    size,             \* what is left of it
    sectors,          \* sectors read, which is brspdevice_sector as well
    copied            \* whether the loop ended without an error

rvars == <<rpc, hrsp_size, size, sectors, copied>>

Init == rpc = "idle" /\ hrsp_size = 0 /\ size = 0 /\ sectors = 0 /\ copied = FALSE

(* The request arrives; whatever the buffer holds goes to the client. *)
Ask ==
    /\ rpc = "idle"
    /\ \E n \in Sizes : hrsp_size' = n /\ size' = n
    /\ sectors' = 0 /\ copied' = FALSE
    /\ rpc' = "test"
    /\ UNCHANGED hardlog_logging

(* The sleeping loop before each sector is left, and the read submitted. *)
Submit ==
    /\ rpc = "test"
    /\ ~hardlog_logging
    /\ rpc' = "submitted"
    /\ UNCHANGED <<hardlog_logging, hrsp_size, size, sectors, copied>>

(* The device has served the read: the loop ends when no more than one     *)
(* sector was left.                                                        *)
ServeThen(next, last) ==
    /\ rpc = "submitted"
    /\ sectors' = sectors + 1
    /\ IF last
         THEN rpc' = "idle" /\ copied' = TRUE /\ UNCHANGED size
         ELSE rpc' = next /\ size' = size - SECTOR /\ UNCHANGED copied
    /\ UNCHANGED <<hardlog_logging, hrsp_size>>

ServeTestsOnce == ServeThen("submitted", size <= SECTOR)
ServeOneMore == ServeThen("test", size < SECTOR)

Serve == ServeThen("test", size <= SECTOR)

(* The read fails: the loop is given up, and the ioctl does not hear of it. *)
Fail ==
    /\ rpc = "submitted"
    /\ rpc' = "idle"
    /\ UNCHANGED <<hardlog_logging, hrsp_size, size, sectors, copied>>

Next == Ask \/ Submit \/ Serve \/ Fail
=============================================================================
