------------------------- MODULE DeviceBufProperties -------------------------
(* What the device's ring and its flusher have to keep, and what the        *)
(* comments beside the code say of them.                                    *)
EXTENDS DeviceBuf

(* Every variable has its type.                                             *)
TypeOK ==
    /\ head \in Nat /\ tail \in Nat
    /\ buffer \in [Slots -> Int]
    /\ rpc \in {"idle", "space", "copy", "publish", "late"}
    /\ amount \in 0..BUFLEN
    /\ fpc \in {"loop", "write", "first", "second", "advance"}
    /\ real_end \in Nat
    /\ start \in 0..(CBUFFSIZE - 1) /\ end \in 0..(CBUFFSIZE - 1)
    /\ file \in Seq(Int) /\ file_end_offset \in 0..Len(file)

(* What the gadget has taken and not written stays below a lap and a        *)
(* transfer, and the flusher never runs past the receiver                   *)
(* (make_space_in_cbuff before, the head's update after the copy).          *)
BoundedBacklog == /\ tail <= head
                  /\ head - tail <= CBUFFSIZE - 1 + BUFLEN

(* The blocks of the flush lie in the ring at their positions: none in the  *)
(* slack, none written over, none still to be copied.                       *)
RangeInPlace == \A p \in tail..(real_end - 1) : buffer[p % CBUFFSIZE] = p

LastWritten(n) == SubSeq(file, Len(file) - n + 1, Len(file))

(* A flush of less than a lap of such blocks, with stores seen in order and *)
(* no failure of the file, extends the log file by exactly                  *)
(* tail..real_end-1, in order, wrapped or not, whatever is received         *)
(* meanwhile (hardlog-flush.c, the two branches).                           *)
FlushExact ==
    /\ InOrder /\ ~FileMayFail
    /\ fpc = "advance" /\ real_end - tail < CBUFFSIZE /\ RangeInPlace
    =>
        LastWritten(real_end - tail) = [k \in 1..(real_end - tail) |-> tail + k - 1]

(* What is received gets flushed again and again to the last block, unless  *)
(* exactly one lap of it piles up: only then does the flusher see nothing   *)
(* to do while the receiver waits for it (hardlog-flush.c, size == 0).      *)
DrainsUnlessOneLap == []<>(tail = head \/ head - tail = CBUFFSIZE)
-----------------------------------------------------------------------------
(* What the comments say and the code does not do.                          *)

(* "Currently, we are just waiting for the buffer to get empty again"       *)
(* (diff:960): the wait for room ends.                                      *)
WaitEnds == rpc = "space" ~> rpc # "space"

InFile(p) == \E i \in 1..Len(file) : file[i] = p

(* "Update the tail, letting the kernel know we have written to usb"        *)
(* (diff:626, 635): what the tail is about to pass is in the log file.  Of  *)
(* the blocks that lie in the ring where they belong:                       *)
TailMeansInFile ==
    fpc = "advance" => \A p \in tail..(real_end - 1) :
                           buffer[p % CBUFFSIZE] = p => InFile(p)

(* The same line, of ranges of less than a lap:                             *)
TailMeansInFileAcrossLaps ==
    fpc = "advance" /\ real_end - tail < CBUFFSIZE =>
        \A p \in tail..(real_end - 1) : InFile(p)
=============================================================================
