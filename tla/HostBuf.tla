------------------------------- MODULE HostBuf -------------------------------
(***************************************************************************)
(* HostBuf, the ring through which the host's kernel threads hand audit    *)
(* events to the flushing thread, and the flush itself:                    *)
(*   producers  audit_log_end_hardlog     host/module/hl-logger.c          *)
(*   flusher    hardlog_auditd_thread     host/module/hl-main.c            *)
(*   flush      bio_write                 host/module/hl-bio-fs.c          *)
(*                                                                         *)
(* A byte is identified by its position in the stream of everything ever   *)
(* logged, so that the ring, the pages sent and their order can be         *)
(* compared with the stream.  A page has PAGE bytes; bdevice_sector counts *)
(* pages here, since bio_write only ever moves it by SECTORS_PER_PAGE.     *)
(* The definition that follows each action's faulty variants is the code's *)
(* own; the variants (AddPageOneOff, MakeSpaceOneMore, ...) are what the   *)
(* properties are measured against and are part of no specification.       *)
(***************************************************************************)
EXTENDS Integers, Sequences

CONSTANTS
    Threads,      \* kernel threads that log
    NoThread,     \* holder of the free mutex
    CBUFFSIZE,    \* HARDLOG_AUDIT_CBUFFSIZE
    PAGE,         \* 4096, the page of a bio and the slack after the ring
    EVENTSIZE,    \* the longest event that is logged here
    BIO_PAGES,    \* 256, the pages of one bio
    LUN_PAGES,    \* pages of the audit device's LUN
    BioMayFail,   \* whether submit_bio_wait may fail for a reason of its own
    Limit         \* no event starts once this many bytes were logged

ASSUME HostBufAssumption ==
    /\ NoThread \notin Threads
    /\ PAGE \in Nat \ {0}
    /\ CBUFFSIZE \in Nat \ {0} /\ CBUFFSIZE % PAGE = 0
    /\ EVENTSIZE \in 1..PAGE
    /\ BIO_PAGES \in Nat \ {0}
    /\ LUN_PAGES \in Nat /\ Limit \in Nat
    /\ BioMayFail \in BOOLEAN

VARIABLES
    head, tail,       \* audit_cbuff.head, audit_cbuff.tail
    buffer,           \* audit_cbuff.buffer: the ring and one page of slack
    lock,             \* hardlog_audit_producer: its holder
    pc,               \* pc[t]: where t is in audit_log_end_hardlog
    len,              \* len[t]: hardlog_event_consumed of t's event
    cbuff_head,       \* cbuff_head[t]: the head that t's event ended at
    fpc,              \* where the flusher is
    start, end,       \* the flusher's snapshot of tail and head
    consumed,         \* bytes bio_write has put into bios
    bio,              \* usb_bio: the pages added and not yet transferred
    tmpbuf,           \* the page for what does not fill a page
    sector,           \* bdevice_sector, in pages
    ret,              \* what bio_write returns
    hardlog_logging,  \* tells the ioctl thread that a flush is going on
    usb               \* the pages the audit device has received

producerVars == <<lock, pc, len, cbuff_head>>
bioVars == <<consumed, bio, tmpbuf, sector, ret, usb>>
flusherVars == <<fpc, start, end, hardlog_logging>>
vars == <<head, tail, buffer, producerVars, bioVars, flusherVars>>

Blank == -1           \* a byte that no event has written
Tmp == -1             \* the page number that stands for tmpbuf in a bio
Slots == 0..(CBUFFSIZE + PAGE - 1)
Entries == Tmp..(CBUFFSIZE \div PAGE - 1)
Cells == Int
Page == [1..PAGE -> Cells]

Init ==
    /\ head = 0 /\ tail = 0
    /\ buffer = [i \in Slots |-> Blank]
    /\ lock = NoThread
    /\ pc = [t \in Threads |-> "idle"]
    /\ len = [t \in Threads |-> 0]
    /\ cbuff_head = [t \in Threads |-> 0]
    /\ fpc = "loop" /\ start = 0 /\ end = 0 /\ hardlog_logging = FALSE
    /\ consumed = 0 /\ bio = <<>> /\ sector = 0 /\ ret = "none"
    /\ tmpbuf = [k \in 1..PAGE |-> Blank]
    /\ usb = <<>>
-----------------------------------------------------------------------------
(* The producers: audit_log_end_hardlog. *)

(* An event that is long enough to be kept reaches the mutex.  Its length   *)
(* is at most EVENTSIZE, within a page, if all its texts fitted (proved:    *)
(* EventBounded).  A text that did not fit advances hardlog_event_consumed  *)
(* past the block (hl-logger.c:171), and the unsigned test of :189 lets     *)
(* more follow: such an event has no bound but its texts', its copy may     *)
(* pass the slack, and it is not among those considered here.               *)
LogEnd(t) ==
    /\ pc[t] = "idle"
    /\ head < Limit
    /\ \E n \in 1..EVENTSIZE : len' = [len EXCEPT ![t] = n]
    /\ pc' = [pc EXCEPT ![t] = "lock"]
    /\ UNCHANGED <<head, tail, buffer, lock, cbuff_head, bioVars, flusherVars>>

LockProducer(t) ==
    /\ pc[t] = "lock"
    /\ lock = NoThread
    /\ lock' = t
    /\ pc' = [pc EXCEPT ![t] = "space"]
    /\ UNCHANGED <<head, tail, buffer, len, cbuff_head, bioVars, flusherVars>>

MakeSpaceOneMore(t) ==
    /\ pc[t] = "space"
    /\ head - tail <= CBUFFSIZE
    /\ pc' = [pc EXCEPT ![t] = "copy"]
    /\ UNCHANGED <<head, tail, buffer, lock, len, cbuff_head, bioVars, flusherVars>>

(* make_space_in_cbuff: leave the sleeping loop. *)
MakeSpace(t) ==
    /\ pc[t] = "space"
    /\ head - tail < CBUFFSIZE
    /\ pc' = [pc EXCEPT ![t] = "copy"]
    /\ UNCHANGED <<head, tail, buffer, lock, len, cbuff_head, bioVars, flusherVars>>

(* memcpy of len bytes to the slots from at on.                            *)
CopyTo(t, slots) ==
    /\ pc[t] = "copy"
    /\ LET at == head % CBUFFSIZE
       IN  buffer' = [i \in Slots |-> IF i \in slots /\ i - at \in 0..(len[t] - 1)
                                      THEN head + (i - at) ELSE buffer[i]]
    /\ pc' = [pc EXCEPT ![t] = "publish"]
    /\ UNCHANGED <<head, tail, lock, len, cbuff_head, bioVars, flusherVars>>

CopyEventNoSlack(t) == CopyTo(t, 0..(CBUFFSIZE - 1))

(* The event is copied to the head's slot; one that passes the end of the  *)
(* ring runs on into the slack.                                            *)
CopyEvent(t) == CopyTo(t, Slots)

Publish(t, mark, unlocked) ==
    /\ pc[t] = "publish"
    /\ head' = head + len[t]
    /\ lock' = IF unlocked THEN NoThread ELSE lock
    /\ len' = [len EXCEPT ![t] = 0]
    /\ \/ /\ pc' = [pc EXCEPT ![t] = "wait"]
          /\ cbuff_head' = [cbuff_head EXCEPT ![t] = mark]
       \/ /\ pc' = [pc EXCEPT ![t] = "idle"]
          /\ UNCHANGED cbuff_head
    /\ UNCHANGED <<tail, buffer, bioVars, flusherVars>>

PublishHeadOldMark(t) == Publish(t, head, TRUE)
PublishHeadPastMark(t) == Publish(t, head + len[t] + 1, TRUE)
PublishHeadKeepsLock(t) == Publish(t, head + len[t], FALSE)

(* The head moves and the mutex is released; only the thread of a          *)
(* prioritised system call goes on to wait.                                *)
PublishHead(t) == Publish(t, head + len[t], TRUE)

WaitFlushed(t) ==
    /\ pc[t] = "wait"
    /\ tail >= cbuff_head[t]
    /\ pc' = [pc EXCEPT ![t] = "idle"]
    /\ cbuff_head' = [cbuff_head EXCEPT ![t] = 0]
    /\ UNCHANGED <<head, tail, buffer, lock, len, bioVars, flusherVars>>
-----------------------------------------------------------------------------
(* The flusher: hardlog_auditd_thread and bio_write. *)

(* One round of the thread's loop starts.  bio_write refuses an empty range. *)
Snapshot ==
    /\ fpc = "loop"
    /\ end' = head
    /\ start' = tail
    /\ hardlog_logging' = TRUE
    /\ consumed' = 0
    /\ IF head = tail THEN fpc' = "advance" /\ ret' = "err"
                      ELSE fpc' = "chunk" /\ ret' = "none"
    /\ UNCHANGED <<head, tail, buffer, producerVars, bio, tmpbuf, sector, usb>>

remaining == end - start - consumed

ChunkAtFirst == start % CBUFFSIZE

ChunkAt == (start + consumed) % CBUFFSIZE

(* tmpbuf with n bytes of the ring copied over it; the rest keeps what an   *)
(* earlier flush left there.                                                *)
CopiedRest(n, from) ==
    [k \in 1..PAGE |-> IF k <= n THEN buffer[from + k - 1] ELSE tmpbuf[k]]

(* The page is added to the bio, which is submitted when it is full or the *)
(* range is through.                                                       *)
Chunk(page, rest) ==
    /\ fpc = "chunk"
    /\ bio' = Append(bio, page)
    /\ tmpbuf' = rest
    /\ sector' = sector + 1
    /\ consumed' = consumed + PAGE
    /\ fpc' = IF Len(bio') = BIO_PAGES \/ remaining <= PAGE
              THEN "submit" ELSE "chunk"
    /\ UNCHANGED <<head, tail, buffer, producerVars, ret, usb,
                   start, end, hardlog_logging>>

AddPageRoundedUp ==
    IF remaining >= PAGE THEN Chunk((ChunkAt + PAGE - 1) \div PAGE, tmpbuf)
                         ELSE Chunk(Tmp, CopiedRest(remaining, ChunkAt))
AddPageOneOff ==
    IF remaining >= PAGE THEN Chunk(ChunkAt \div PAGE, tmpbuf)
                         ELSE Chunk(Tmp, CopiedRest(remaining, ChunkAt + 1))

(* One iteration of bio_write's loop up to the submission.  A full page is *)
(* referenced where it lies: the page that holds the address, from its     *)
(* first byte.  A shorter rest is copied to tmpbuf.                        *)
AddPage ==
    IF remaining >= PAGE THEN Chunk(ChunkAt \div PAGE, tmpbuf)
                         ELSE Chunk(Tmp, CopiedRest(remaining, ChunkAt))

(* The logical page of the device that the next page of the bio goes to. *)
NextLba == sector - Len(bio)

PageAt(n) == IF n = Tmp THEN tmpbuf
             ELSE [k \in 1..PAGE |-> buffer[n * PAGE + k - 1]]

(* The device appends the page that it is handed.                          *)
TransferAs(page) ==
    /\ fpc = "submit"
    /\ bio # <<>>
    /\ NextLba < LUN_PAGES
    /\ usb' = Append(usb, page)
    /\ bio' = Tail(bio)
    /\ UNCHANGED <<head, tail, buffer, producerVars, flusherVars,
                   consumed, tmpbuf, sector, ret>>

(* submit_bio_wait: the block layer hands over one page after another and  *)
(* reads it only then.                                                     *)
TransferPage == TransferAs(PageAt(Head(bio)))

(* submit_bio_wait returns an error, of which a device that is addressed   *)
(* past its end is one; bio_reset, and the rest of the range is given up.  *)
SubmitFails ==
    /\ fpc = "submit"
    /\ bio # <<>>
    /\ BioMayFail \/ NextLba >= LUN_PAGES
    /\ bio' = <<>>
    /\ ret' = "err"
    /\ fpc' = "advance"
    /\ UNCHANGED <<head, tail, buffer, producerVars, consumed, tmpbuf, sector,
                   usb, start, end, hardlog_logging>>

SubmitDone ==
    /\ fpc = "submit"
    /\ bio = <<>>
    /\ IF remaining > 0 THEN fpc' = "chunk" /\ UNCHANGED ret
                        ELSE fpc' = "advance" /\ ret' = "ok"
    /\ UNCHANGED <<head, tail, buffer, producerVars, consumed, bio, tmpbuf, sector,
                   usb, start, end, hardlog_logging>>

FlushOver(newTail, flag) ==
    /\ fpc = "advance"
    /\ tail' = newTail
    /\ hardlog_logging' = flag
    /\ fpc' = "loop"
    /\ UNCHANGED <<head, buffer, producerVars, bioVars, start, end>>

AdvanceTailFlagOnSuccess == FlushOver(end, ret = "err")

(* usb_write's result is not looked at. *)
AdvanceTail == FlushOver(end, FALSE)
-----------------------------------------------------------------------------
Produce(t) == LockProducer(t) \/ MakeSpace(t) \/ CopyEvent(t)
                 \/ PublishHead(t) \/ WaitFlushed(t)
Producer(t) == LogEnd(t) \/ Produce(t)
Flusher == \/ Snapshot \/ AddPage \/ TransferPage \/ SubmitFails
           \/ SubmitDone \/ AdvanceTail

Next == (\E t \in Threads : Producer(t)) \/ Flusher

Spec == Init /\ [][Next]_vars

(* The flusher is bound to a processor at the highest priority and its     *)
(* bios complete or fail; kernel mutexes are handed over in order, so that *)
(* a thread that keeps asking for one gets it.                             *)
Fairness ==
    /\ WF_vars(Flusher)
    /\ \A t \in Threads : SF_vars(LockProducer(t)) /\ WF_vars(Produce(t))

FairSpec == Spec /\ Fairness
=============================================================================
