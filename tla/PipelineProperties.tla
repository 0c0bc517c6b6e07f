-------------------------- MODULE PipelineProperties --------------------------
(* What host, link, gadget and reader have to keep together.                *)
EXTENDS Pipeline, HostBufProperties

(* Every variable has its type (those of the gadget's side, in DeviceBuf).  *)
PTypeOK ==
    /\ link \in {"welcome", "free", "busy", "given"}
    /\ due \in Nat /\ taken \in 0..due
    /\ pages \in Seq(Page)
    /\ received \in Seq(Int) /\ Len(received) = dhead
    /\ resends \in 0..MaxResends
    /\ rpc \in {"idle", "test", "submitted"}
    /\ hrsp_size \in {0} \cup Sizes /\ size \in 0..hrsp_size
    /\ sectors \in Nat /\ copied \in BOOLEAN /\ reads \in Nat

(* The pages are found among the bytes, each in one piece and behind the    *)
(* one before it.                                                           *)
FoundIn(ps, bytes) ==
    \E at \in [1..Len(ps) -> 0..(Len(bytes) - PAGE)] :
        /\ \A i \in 1..Len(ps), k \in 1..PAGE : bytes[at[i] + k] = ps[i][k]
        /\ \A i, j \in 1..Len(ps) : i < j => at[i] + PAGE <= at[j]

(* Whatever is sent twice, given up or still on the link when its bio       *)
(* fails, and however the pages of a command are cut into transfers: each   *)
(* page that the host was told of has been received, whole and in the order *)
(* of the host's stream (do_hardlog_write).                                 *)
AckedReceived == FoundIn(usb, received)

(* A flush that succeeds, within a lap and with every unflushed byte still  *)
(* in the ring, has all of its range at the device, in commands that may    *)
(* have been sent twice, but the positions that bio_write steps over        *)
(* (hl-logger.c:310, the prioritised call that goes on after it).           *)
FlushReceived ==
    FlushReturned /\ SameLap /\ UnflushedIntact =>
        \A p \in start..(end - 1) :
            p \in SteppedOver \/ \E q \in 1..Len(received) : received[q] = p

(* No bio was given up: each page that was added to one has been acked or   *)
(* is still in it.                                                          *)
NoneGivenUp == sector = Len(usb) + Len(bio)

(* The bytes of the welcome and of the command on the link that are in the  *)
(* gadget's ring.                                                           *)
welcomed == IF link = "welcome" THEN taken ELSE WELCOME
begun == IF link = "welcome" THEN 0 ELSE taken

(* Nothing is received beyond that but what is sent again or given up:      *)
(* without those, the gadget's stream is the welcome, the host's pages and  *)
(* the beginning of the command on the link (do_hardlog_write appends where *)
(* the head is and ignores the block address).                              *)
ReceivedAcked ==
    resends = 0 /\ NoneGivenUp =>
        LET pagesAt(i) == welcomed + (i - 1) * PAGE
        IN  /\ Len(received) = welcomed + Len(usb) * PAGE + begun
            /\ \A p \in 1..welcomed : received[p] = Greeting
            /\ \A i \in 1..Len(usb), k \in 1..PAGE : received[pagesAt(i) + k] = usb[i][k]
            /\ \A p \in 0..(begun - 1) : received[pagesAt(Len(usb) + 1) + p + 1] = Byte(p)

(* A flush is held up by at most one sector of an answer, as the flag is    *)
(* tested before each ("The IOCTL thread reads it every 512 bytes to avoid  *)
(* priority inversion", hl-main.c:88).                                      *)
OneReadAhead == hardlog_logging => reads <= 1

(* A read of an answer that ends without an error has covered what the      *)
(* client asked for, with less than a sector to spare.                      *)
ReadCovers == copied => /\ sectors * SECTOR >= hrsp_size
                        /\ (sectors - 1) * SECTOR < hrsp_size \/ sectors = 1

(* The gadget's ring is full by exactly one lap, and its flusher sees none  *)
(* of it.                                                                   *)
OneLap == dhead - dtail = DSIZE

(* Host, gadget and device flusher run; no bio need fail.                   *)
PFairness ==
    /\ WF_pvars(FlushStarts \/ FlushStep \/ SendCommand \/ SendPage)
    /\ WF_pvars(Gadget) /\ WF_pvars(DeviceFlush)
    /\ \A t \in Threads :
         /\ SF_pvars(LockProducer(t) /\ UNCHANGED <<dvars, linkVars, rvars, reads>>)
         /\ WF_pvars(Produce(t) /\ UNCHANGED <<dvars, linkVars, rvars, reads>>)
PFairSpec == PSpec /\ PFairness

(* A prioritised call returns unless the device's ring fills by exactly one *)
(* lap, though its commands may be sent again, given up or held up by      *)
(* reads.                                                                   *)
PrioReturnsUnlessOneLap ==
    \A t \in Threads : pc[t] = "wait" ~> pc[t] # "wait" \/ OneLap
-----------------------------------------------------------------------------
(* What the comments say and the code does not do.                          *)

(* "Sleep until the system call's log (and all prior logs) were flushed."   *)
(* (hl-logger.c:310): flushed to the log file.  Of the flushes that succeed *)
(* and lose nothing on the host's side:                                     *)
TailStored ==
    FlushReturned /\ SameLap /\ Aligned /\ UnflushedIntact =>
        \A p \in start..(end - 1) :
            \E i \in 1..Len(dfile) : dfile[i] >= 0 /\ received[dfile[i] + 1] = p

(* The device's log has each page once.                                     *)
NoDuplicates == Len(received) <= WELCOME + (Len(usb) + Len(bio)) * PAGE

(* What a client is given was read for it.                                  *)
NothingStale == rpc = "idle" => copied \/ hrsp_size = 0
=============================================================================
