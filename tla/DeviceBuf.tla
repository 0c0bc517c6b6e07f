------------------------------ MODULE DeviceBuf ------------------------------
(***************************************************************************)
(* The audit device's ring between the USB gadget and the log file:        *)
(*   receiver  do_hardlog_write       hardlog-main.c                       *)
(*   flusher   hardlog_flushd_thread  hardlog-flush.c                      *)
(*   file      fs_write               hardlog-bio-fs.c                     *)
(* (all in device/module/linux-4.4.213-usb-gadget.diff).                   *)
(*                                                                         *)
(* As in HostBuf a unit of data, here a 512-byte block, is identified by   *)
(* its position in the stream of everything received.  The definitions     *)
(* that follow a faulty variant of the same action are the code's own.     *)
(***************************************************************************)
EXTENDS Integers, Sequences

CONSTANTS
    CBUFFSIZE,    \* HARDLOG_DATA_CBUFFSIZE, in blocks
    BUFLEN,       \* FSG_BUFLEN, the longest transfer copied at once, in blocks
    InOrder,      \* whether the flusher sees the receiver's stores in order
    FileMayFail,  \* whether vfs_write may fail or write less
    Limit         \* no transfer starts once this many blocks were received

ASSUME DeviceBufAssumption ==
    /\ CBUFFSIZE \in Nat \ {0}
    /\ BUFLEN \in Nat \ {0}
    /\ InOrder \in BOOLEAN /\ FileMayFail \in BOOLEAN
    /\ Limit \in Nat

VARIABLES
    head, tail,        \* data_cbuff.head, data_cbuff.tail
    buffer,            \* data_cbuff.buffer: the ring and the slack behind it
    rpc,               \* where the receiver is in do_hardlog_write
    amount,            \* blocks of the transfer that is being copied
    fpc,               \* where the flusher is
    real_end,          \* the flusher's snapshot of head
    start, end,        \* the snapshots of tail and head, reduced to the ring
    file,              \* the log file
    file_end_offset    \* how much of it the device library is told of

receiverVars == <<rpc, amount>>
flusherVars == <<fpc, real_end, start, end>>
vars == <<head, tail, buffer, receiverVars, flusherVars, file, file_end_offset>>

Blank == -1
(* The ring has 2 MB of slack, more than any transfer needs. *)
Slots == 0..(CBUFFSIZE + BUFLEN - 1)

Init ==
    /\ head = 0 /\ tail = 0
    /\ buffer = [i \in Slots |-> Blank]
    /\ rpc = "idle" /\ amount = 0
    /\ fpc = "loop" /\ real_end = 0 /\ start = 0 /\ end = 0
    /\ file = <<>> /\ file_end_offset = 0
-----------------------------------------------------------------------------
(* The receiver. *)

(* A buffer of the transfer is full and its block count is settled. *)
Receive ==
    /\ rpc = "idle"
    /\ head < Limit
    /\ amount' \in 1..BUFLEN
    /\ rpc' = "space"
    /\ UNCHANGED <<head, tail, buffer, flusherVars, file, file_end_offset>>

MakeSpaceUnchecked ==
    /\ rpc = "space"
    /\ rpc' = "copy"
    /\ UNCHANGED <<head, tail, buffer, amount, flusherVars, file, file_end_offset>>

(* make_space_in_cbuff: leave the sleeping loop. *)
MakeSpace ==
    /\ rpc = "space"
    /\ head - tail < CBUFFSIZE
    /\ rpc' = "copy"
    /\ UNCHANGED <<head, tail, buffer, amount, flusherVars, file, file_end_offset>>

(* The stream from position p on, amount blocks of it, in the ring. *)
Copied(p) == [i \in Slots |-> IF i - (p % CBUFFSIZE) \in 0..(amount - 1)
                              THEN p + (i - (p % CBUFFSIZE)) ELSE buffer[i]]

(* memcpy to the head's slot, into the slack if need be. *)
CopyTransfer ==
    /\ rpc = "copy"
    /\ buffer' = Copied(head)
    /\ rpc' = "publish"
    /\ UNCHANGED <<head, tail, amount, flusherVars, file, file_end_offset>>

MoveHead ==
    /\ rpc = "publish"
    /\ head' = head + amount
    /\ rpc' = "idle" /\ amount' = 0
    /\ UNCHANGED <<tail, buffer, flusherVars, file, file_end_offset>>

(* Nothing orders the copy before the head's update: on a processor that   *)
(* does not keep stores in order the flusher may see the head move first.  *)
MoveHeadEarly ==
    /\ rpc = "copy" /\ ~InOrder
    /\ head' = head + amount
    /\ rpc' = "late"
    /\ UNCHANGED <<tail, buffer, amount, flusherVars, file, file_end_offset>>

CopyLate ==
    /\ rpc = "late"
    /\ buffer' = Copied(head - amount)
    /\ rpc' = "idle" /\ amount' = 0
    /\ UNCHANGED <<head, tail, flusherVars, file, file_end_offset>>
-----------------------------------------------------------------------------
(* The flusher. *)

(* One round of the thread's loop: nothing to do when head and tail share  *)
(* a slot, one write when the range runs forward, two when it wraps.       *)
Snapshot ==
    /\ fpc = "loop"
    /\ real_end' = head
    /\ end' = head % CBUFFSIZE
    /\ start' = tail % CBUFFSIZE
    /\ fpc' = IF end' < start' THEN "first"
              ELSE IF end' > start' THEN "write" ELSE "loop"
    /\ UNCHANGED <<head, tail, buffer, receiverVars, file, file_end_offset>>

FsWriteTellsAll(to, from) ==
    \E n \in (IF FileMayFail THEN 0..(to - from) ELSE {to - from}) :
        /\ file' = file \o [k \in 1..n |-> buffer[from + k - 1]]
        /\ file_end_offset' = file_end_offset + (to - from)

(* fs_write(to, from) writes buffer[from..to-1] at the file's position; it  *)
(* may write less, and tells the library only of what it wrote.            *)
FsWrite(to, from) ==
    \E n \in (IF FileMayFail THEN 0..(to - from) ELSE {to - from}) :
        /\ file' = file \o [k \in 1..n |-> buffer[from + k - 1]]
        /\ file_end_offset' = IF n > 0 THEN Len(file') ELSE file_end_offset

WriteRange ==
    /\ fpc = "write"
    /\ FsWrite(end, start)
    /\ fpc' = "advance"
    /\ UNCHANGED <<head, tail, buffer, receiverVars, real_end, start, end>>

WriteToRingEnd ==
    /\ fpc = "first"
    /\ FsWrite(CBUFFSIZE, start)
    /\ fpc' = "second"
    /\ UNCHANGED <<head, tail, buffer, receiverVars, real_end, start, end>>

WriteFromRingStartSkipped ==
    /\ fpc = "second"
    /\ fpc' = "advance"
    /\ UNCHANGED <<head, tail, buffer, receiverVars, real_end, start, end,
                   file, file_end_offset>>

(* fs_write does nothing at all when the range is empty. *)
WriteFromRingStart ==
    /\ fpc = "second"
    /\ FsWrite(end, 0)
    /\ fpc' = "advance"
    /\ UNCHANGED <<head, tail, buffer, receiverVars, real_end, start, end>>

FlushOver(newTail) ==
    /\ fpc = "advance"
    /\ tail' = newTail
    /\ fpc' = "loop"
    /\ UNCHANGED <<head, buffer, receiverVars, real_end, start, end, file, file_end_offset>>

AdvanceTailInRing == FlushOver(end)

(* What fs_write returns is not looked at. *)
AdvanceTail == FlushOver(real_end)
-----------------------------------------------------------------------------
Receiver == MakeSpace \/ CopyTransfer \/ MoveHead \/ MoveHeadEarly \/ CopyLate
Flusher == \/ Snapshot \/ WriteRange \/ WriteToRingEnd \/ WriteFromRingStart
           \/ AdvanceTail

Next == Receive \/ Receiver \/ Flusher

Spec == Init /\ [][Next]_vars

(* Both are kernel threads of the highest priority that only ever sleep for *)
(* a set time or for the file system.                                       *)
FairSpec == Spec /\ WF_vars(Receiver) /\ WF_vars(Flusher)
=============================================================================
