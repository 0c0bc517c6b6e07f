------------------------------- MODULE Pipeline -------------------------------
(***************************************************************************)
(* The way of an event from the threads of the host to the log file of the *)
(* audit device: HostBuf and DeviceBuf, joined by the USB link, and the    *)
(* reader of an answer that shares the link.  The host sends commands, of  *)
(* as many pages of a bio as it likes, the first of all the welcome of     *)
(* bio_open; the gadget serves one at a time, in transfers of a buffer     *)
(* (do_hardlog_write), and a read when no write is being carried out.  The *)
(* host may be told too late, or not at all:                               *)
(*   - the gadget is interrupted after it moved the head (do_hardlog_write *)
(*     returns -EINTR) and the host sends the whole command again;         *)
(*   - the host's SCSI layer gives up on a command of which the gadget     *)
(*     still carries out what has reached it, and the bio fails.           *)
(* Both rings count bytes, in HostBuf's units.                             *)
(***************************************************************************)
EXTENDS HostBuf

CONSTANTS
    DSIZE,       \* HARDLOG_DATA_CBUFFSIZE
    BUFLEN,      \* FSG_BUFLEN, 16384: four pages
    BUFFERS,     \* the gadget's buffers, which hold what has been sent
    WELCOME,     \* 512, the bytes of the welcome
    MaxResends,  \* commands that are sent again
    SECTOR, Sizes

ASSUME PipelineAssumption ==
    /\ DSIZE \in Nat \ {0} /\ BUFLEN \in Nat \ {0} /\ BUFFERS \in Nat \ {0}
    /\ WELCOME \in Nat \ {0} /\ MaxResends \in Nat
    /\ SECTOR \in Nat \ {0} /\ Sizes \subseteq Nat

VARIABLES
    dhead, dtail, dbuffer, drpc, damount,               \* the gadget's side
    dfpc, dreal_end, dstart, dend, dfile, dfile_end,    \* its flusher and log file
    link,       \* "welcome", "free", "busy" with a command, or "given" up by the host
    due,        \* data_size_from_cmnd
    pages,      \* the pages of the command that were sent, as they were then
    taken,      \* its bytes that are in the gadget's ring
    received,   \* received[p + 1]: the byte at position p of the gadget's stream
    resends,    \* commands sent again so far
    rpc, hrsp_size, size, sectors, copied,              \* the reader
    reads       \* sectors read while this flush is going on

dvars == <<dhead, dtail, dbuffer, drpc, damount, dfpc, dreal_end, dstart, dend,
           dfile, dfile_end>>
command == <<link, due, pages, taken>>
linkVars == <<command, received, resends>>
rvars == <<rpc, hrsp_size, size, sectors, copied>>
pvars == <<vars, dvars, linkVars, rvars, reads>>

(* Enough for the welcome and every page of the LUN, each sent in every     *)
(* pass between two resends: the gadget never stops for it.                 *)
DLimit == (MaxResends + 1) * (WELCOME + LUN_PAGES * PAGE)

D == INSTANCE DeviceBuf WITH
       CBUFFSIZE <- DSIZE, InOrder <- TRUE, FileMayFail <- FALSE, Limit <- DLimit,
       head <- dhead, tail <- dtail, buffer <- dbuffer, rpc <- drpc, amount <- damount,
       fpc <- dfpc, real_end <- dreal_end, start <- dstart, end <- dend,
       file <- dfile, file_end_offset <- dfile_end

R == INSTANCE ResponseReader

Greeting == -2        \* a byte of the welcome

PInit ==
    /\ Init /\ D!Init /\ R!Init
    /\ link = "welcome" /\ due = WELCOME /\ pages = <<>> /\ taken = 0
    /\ received = <<>> /\ resends = 0
    /\ reads = 0
-----------------------------------------------------------------------------
(* The host alone: all of HostBuf but the transfer.  Nothing is diverted    *)
(* nor flushed before the welcome has been sent.                            *)
ThreadStep == /\ link # "welcome"
              /\ \E t \in Threads : Producer(t)
              /\ UNCHANGED <<dvars, linkVars, rvars, reads>>

FlushStarts == /\ link # "welcome"
               /\ Snapshot /\ reads' = 0
               /\ UNCHANGED <<dvars, linkVars, rvars>>

FlushStep == /\ AddPage \/ SubmitDone \/ AdvanceTail
             /\ UNCHANGED <<dvars, linkVars, rvars, reads>>

BioFailsAs(l) ==
    /\ SubmitFails
    /\ link' = l
    /\ UNCHANGED <<dvars, due, pages, taken, received, resends, rvars, reads>>

BioFailsUnnoticed == BioFailsAs(link)

(* The bio fails before its next command is sent, or while one is on the    *)
(* link, which then is the gadget's affair alone.                           *)
BioFails == BioFailsAs(IF link = "busy" THEN "given" ELSE link)

(* The block layer makes a command of some of the pages that are left.      *)
SendCommand ==
    /\ fpc = "submit" /\ link = "free"
    /\ \E n \in 1..Len(bio) : NextLba + n <= LUN_PAGES /\ due' = n * PAGE
    /\ link' = "busy" /\ UNCHANGED <<pages, taken>>
    /\ UNCHANGED <<vars, dvars, received, resends, rvars, reads>>

(* Its next page is read and sent, when the gadget has a buffer for it.     *)
SendPage ==
    /\ link = "busy" /\ fpc = "submit"
    /\ Len(pages) * PAGE < due
    /\ Len(pages) * PAGE < taken + BUFFERS * BUFLEN
    /\ pages' = Append(pages, PageAt(bio[Len(pages) + 1]))
    /\ UNCHANGED <<vars, dvars, link, due, taken, received, resends, rvars, reads>>
-----------------------------------------------------------------------------
(* The gadget. *)

(* The byte at offset p of the command, and how many were sent.             *)
Byte(p) == IF link = "welcome" THEN Greeting ELSE pages[(p \div PAGE) + 1][(p % PAGE) + 1]
sent == IF link = "welcome" THEN due ELSE Len(pages) * PAGE

(* A buffer is full: all of it has been sent, or the rest of the command.   *)
FillBuffer ==
    /\ link # "free" /\ taken < due
    /\ D!Receive
    /\ damount' = IF due - taken < BUFLEN THEN due - taken ELSE BUFLEN
    /\ taken + damount' <= sent
    /\ UNCHANGED <<vars, linkVars, rvars, reads>>

GadgetStep == (D!MakeSpace \/ D!CopyTransfer) /\ UNCHANGED <<vars, linkVars, rvars, reads>>

(* The head moves and the transfer counts as received.                      *)
Accept ==
    /\ D!MoveHead
    /\ received' = received \o [k \in 1..damount |-> Byte(taken + k - 1)]
    /\ UNCHANGED <<rvars, reads>>

LastOneEarly == taken + damount + BUFLEN >= due

(* Nothing of the command is left to be taken after this transfer. *)
Last == taken + damount = due

AcceptMore ==
    /\ link = "given" \/ ~Last
    /\ Accept
    /\ taken' = taken + damount
    /\ UNCHANGED <<vars, link, due, pages, resends>>

(* The link is done with the command. *)
Over(l) == /\ link' = l
           /\ due' = IF l = "welcome" THEN due ELSE 0
           /\ pages' = <<>> /\ taken' = 0

(* The host's bio is through with these pages, as they were when sent.      *)
Told == /\ usb' = usb \o pages
        /\ bio' = SubSeq(bio, Len(pages) + 1, Len(bio))
        /\ UNCHANGED <<head, tail, buffer, producerVars, flusherVars,
                       consumed, tmpbuf, sector, ret>>

AcceptUntold ==
    /\ link \in {"welcome", "busy"} /\ Last
    /\ Accept /\ Over("free")
    /\ UNCHANGED <<vars, resends>>

(* The last transfer of a command: the host is told. *)
AcceptTold ==
    /\ link \in {"welcome", "busy"} /\ Last
    /\ Accept /\ Over("free")
    /\ Told
    /\ UNCHANGED resends

(* signal_pending after the head was moved: the host has to send the whole  *)
(* command again, or to fail the bio.                                       *)
AcceptInterrupted ==
    /\ link # "given" /\ resends < MaxResends
    /\ Accept /\ Over(IF link = "welcome" THEN "welcome" ELSE "free")
    /\ resends' = resends + 1
    /\ UNCHANGED vars

(* A transfer that fails, or a reset: what was given up ends where it is.   *)
Abandon ==
    /\ link = "given" /\ drpc = "idle"
    /\ Over("free")
    /\ UNCHANGED <<vars, dvars, received, resends, rvars, reads>>

DeviceFlush == D!Flusher /\ UNCHANGED <<vars, linkVars, rvars, reads>>
-----------------------------------------------------------------------------
(* The reader of an answer. *)
ReaderStep == (R!Ask \/ R!Submit \/ R!Fail)
                 /\ UNCHANGED <<vars, dvars, linkVars, reads>>

(* A read is served between two writes.                                     *)
ServeRead ==
    /\ link = "free"
    /\ R!Serve
    /\ reads' = IF hardlog_logging THEN reads + 1 ELSE 0
    /\ UNCHANGED <<vars, dvars, linkVars>>
-----------------------------------------------------------------------------
Gadget == \/ FillBuffer \/ GadgetStep \/ AcceptMore \/ AcceptTold
          \/ AcceptInterrupted \/ Abandon

PNext == \/ ThreadStep \/ FlushStarts \/ FlushStep \/ BioFails
         \/ SendCommand \/ SendPage
         \/ Gadget \/ DeviceFlush \/ ReaderStep \/ ServeRead

PSpec == PInit /\ [][PNext]_pvars
=============================================================================
