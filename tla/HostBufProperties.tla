-------------------------- MODULE HostBufProperties --------------------------
(* What HostBuf and its flusher have to keep, and what the comments beside  *)
(* the code say of them.                                                    *)
EXTENDS HostBuf

(* Every variable has its type; the indices stay where the C types and the  *)
(* allocation of the ring (hl-logger.c:354) have room for them.             *)
TypeOK ==
    /\ head \in Nat /\ tail \in Nat
    /\ buffer \in [Slots -> Cells]
    /\ lock \in Threads \cup {NoThread}
    /\ pc \in [Threads -> {"idle", "lock", "space", "copy", "publish", "wait"}]
    /\ len \in [Threads -> 0..EVENTSIZE]
    /\ cbuff_head \in [Threads -> Nat]
    /\ fpc \in {"loop", "chunk", "submit", "advance"}
    /\ start \in Nat /\ end \in Nat /\ consumed \in Nat /\ sector \in Nat
    /\ bio \in Seq(Entries)
    /\ tmpbuf \in Page
    /\ usb \in Seq(Page)
    /\ ret \in {"none", "ok", "err"}
    /\ hardlog_logging \in BOOLEAN

(* Bytes of the one event that is in the ring but not yet behind the head.  *)
InFlight == LET T == {t \in Threads : pc[t] = "publish"}
            IN  IF T = {} THEN 0 ELSE len[CHOOSE t \in T : TRUE]

(* Byte p is where its position says, or, when its event ran past the end   *)
(* of the ring, in the slack behind it.                                     *)
InRing(p) == \E i \in {p % CBUFFSIZE, CBUFFSIZE + (p % CBUFFSIZE)} \cap Slots :
                buffer[i] = p

(* No byte that waits for its flush has been written over.                  *)
UnflushedIntact == \A p \in tail..(head - 1) : InRing(p)
-----------------------------------------------------------------------------
(* The head never runs more than a lap and an event's rest ahead of the     *)
(* tail, whatever the order in which threads get the mutex, and the tail    *)
(* never passes the head (make_space_in_cbuff's test before, the head's     *)
(* update after the copy).                                                  *)
BoundedBacklog == /\ tail <= head
                  /\ head - tail <= CBUFFSIZE - 1 + EVENTSIZE

Locked == {"space", "copy", "publish"}
LockInv == \A t \in Threads : pc[t] \in Locked <=> lock = t
LenInv == \A t \in Threads :
              pc[t] \in Locked \cup {"lock"} => len[t] \in 1..EVENTSIZE
RoomInv == \A t \in Threads :
               pc[t] \in {"copy", "publish"} => head - tail < CBUFFSIZE
MarkInv == \A t \in Threads : IF pc[t] = "wait" THEN cbuff_head[t] \in 1..head
                                               ELSE cbuff_head[t] = 0
FlushInv == fpc # "loop" => start = tail /\ end \in tail..head

(* Why the backlog is bounded: one thread at a time is between its test for *)
(* room and the head's update, the room it saw can only have grown since,   *)
(* and the tail only ever moves to a head seen before (hl-logger.c:283-306, *)
(* hl-main.c:248-286).                                                      *)
IndInv == LockInv /\ LenInv /\ RoomInv /\ MarkInv /\ FlushInv /\ BoundedBacklog

(* Each of the last CBUFFSIZE bytes logged is in its place; only those under *)
(* the event that is being copied are excepted (hl-logger.c:286-294).       *)
RingHoldsLastLap ==
    \A p \in 0..(head - 1) : p >= head + InFlight - CBUFFSIZE => InRing(p)
-----------------------------------------------------------------------------
FlushReturned == fpc = "advance" /\ ret = "ok"
PagesSent == (end - start + PAGE - 1) \div PAGE
(* The k-th byte, from 0, of the pages that the flush has sent; what comes  *)
(* after the last of them, k = end - start - 1, is padding.                 *)
Sent(k) == usb[Len(usb) - PagesSent + 1 + (k \div PAGE)][(k % PAGE) + 1]
SentBytes == {Sent(k) : k \in 0..(end - start - 1)}
SameLap == start \div CBUFFSIZE = (end - 1) \div CBUFFSIZE
Aligned == start % PAGE = 0 \/ end - start < PAGE

(* No event leaves the host before its head is moved: of the pages that the *)
(* device is handed, the bytes that stand for the flush's range are of      *)
(* published events, unless an unflushed byte was written over or the flush *)
(* began inside its page (the copy comes before the head's update,          *)
(* hl-logger.c:290-294).  What tmpbuf holds behind the rest is padding.     *)
OnlyPublishedSent ==
    [][TransferPage /\ UnflushedIntact /\ Aligned =>
          \A k \in 1..PAGE :
             Head(bio) # Tmp \/ k <= (end - start) % PAGE => usb'[Len(usb')][k] < head]_vars

(* The positions that bio_write's full pages step over: after n full pages  *)
(* the copy of the rest begins n pages after the start, the pages end n     *)
(* pages after the start of the start's page.                               *)
SteppedOver ==
    LET full == (end - start) \div PAGE
        from == start - (start % PAGE) + full * PAGE
    IN  IF full = 0 THEN {} ELSE from..(start + full * PAGE - 1)

(* A flush that succeeds, within one lap, hands the device start..end-1,    *)
(* every byte once and in order, while other threads go on logging into the *)
(* ring (bio_write), if it begins at a page or has less than a page to      *)
(* send.  One that begins inside a page loses exactly the positions that    *)
(* are stepped over, always less than a page (bio_add_page with offset 0,   *)
(* hl-bio-fs.c:168).                                                        *)
FlushSent ==
    FlushReturned /\ SameLap /\ UnflushedIntact =>
        /\ Aligned => \A k \in 0..(end - start - 1) : Sent(k) = start + k
        /\ {p \in start..(end - 1) : p \notin SentBytes} = SteppedOver
-----------------------------------------------------------------------------
(* Why the flush is exact: what the bytes of the ring are, and what of them *)
(* the pages in the bio, in tmpbuf and on the device show.                  *)

(* A byte lies at its position's slot, in the ring or in the slack. *)
SlotInv ==
    \A i \in Slots : buffer[i] # Blank =>
        buffer[i] \in Nat /\ buffer[i] % CBUFFSIZE = i % CBUFFSIZE

(* Only the event whose head is still to be moved lies at or behind the     *)
(* head, in one piece.                                                      *)
CopiedInv ==
    \A t \in Threads : pc[t] = "publish" =>
        \A i \in Slots :
            IF i - (head % CBUFFSIZE) \in 0..(len[t] - 1)
            THEN buffer[i] = head + (i - (head % CBUFFSIZE)) ELSE buffer[i] < head
PublishedInv ==
    (\A t \in Threads : pc[t] # "publish") => \A i \in Slots : buffer[i] < head

(* An event that ran on into the slack was published as a whole: no flush   *)
(* begins or ends among its bytes there.                                    *)
SlackInv ==
    \A i \in Slots : i >= CBUFFSIZE /\ buffer[i] # Blank =>
        LET overrun == (buffer[i] - (i - CBUFFSIZE))..buffer[i]
        IN  tail \notin overrun /\ (fpc # "loop" => end \notin overrun)

BufferInv == SlotInv /\ CopiedInv /\ PublishedInv /\ SlackInv /\ RingHoldsLastLap

(* The j-th piece of the range, from 0: whether it fills a page, the slot   *)
(* that it begins at, the page that the bio gets for it.                    *)
Full(j) == end - start - j * PAGE >= PAGE
PieceAt(j) == (start + j * PAGE) % CBUFFSIZE
Entry(j) == IF Full(j) THEN PieceAt(j) \div PAGE ELSE Tmp

PagesAdded == consumed \div PAGE
PagesDone == PagesAdded - Len(bio)
DonePage(j) == usb[Len(usb) - PagesDone + 1 + j]
Flushing == fpc \in {"chunk", "submit"} \/ FlushReturned

(* The bio holds the pieces between those the device has and those still to *)
(* be added.                                                                *)
BioInv ==
    /\ fpc \in {"loop", "advance"} => bio = <<>>
    /\ Flushing =>
        /\ start < end /\ consumed - PAGE < end - start
        /\ consumed % PAGE = 0
        /\ Len(bio) <= PagesAdded /\ PagesDone <= Len(usb)
        /\ \A m \in 1..Len(bio) : bio[m] = Entry(PagesDone + m - 1)
        /\ fpc = "chunk" => remaining > 0
        /\ fpc = "advance" => remaining <= 0

(* The copy in tmpbuf is what the ring holds, but for bytes that were       *)
(* written over since; it has no byte that is not published unless the ring *)
(* has it there too.                                                        *)
RestInv ==
    Flushing /\ remaining < 0 =>
        \A b \in 0..(remaining + PAGE - 1) :
            LET byte == buffer[((start + consumed - PAGE) % CBUFFSIZE) + b]
            IN  /\ byte < end => tmpbuf[b + 1] = byte
                /\ tmpbuf[b + 1] < head \/ tmpbuf[b + 1] = byte

(* So is every page that the device has got of this flush, and its bytes    *)
(* are of that page's slots.                                                *)
SentInv ==
    Flushing => \A j \in 0..(PagesDone - 1) :
        IF Full(j)
        THEN \A b \in 0..(PAGE - 1) :
                 LET i == Entry(j) * PAGE + b
                 IN  /\ buffer[i] < end => DonePage(j)[b + 1] = buffer[i]
                     /\ DonePage(j)[b + 1] # Blank => DonePage(j)[b + 1] % CBUFFSIZE = i
        ELSE DonePage(j) = tmpbuf

RingInv == IndInv /\ BufferInv /\ BioInv /\ RestInv /\ SentInv
-----------------------------------------------------------------------------
(* The counters implement the abstract channel: the flushed prefix is tail, *)
(* and a prioritised thread returns only once it covers its own event and   *)
(* all before it (hl-logger.c:297, 308-315).                                *)
Channel == INSTANCE AuditChannel
    WITH MaxEvent <- EVENTSIZE,
         Backlog  <- CBUFFSIZE - 1 + EVENTSIZE,
         appended <- head,
         flushed  <- tail,
         waitsFor <- cbuff_head
ImplementsChannel == Channel!Spec

(* A prioritised system call is not held up for ever, though the device may *)
(* fail and other threads keep logging (hl-logger.c:310).                   *)
PrioReturns == \A t \in Threads : pc[t] = "wait" ~> pc[t] = "idle"

(* Every thread that reaches the mutex gets its event into the ring: the    *)
(* one that holds the mutex asleep for want of space is let go.             *)
EventsGetIn == \A t \in Threads : pc[t] = "lock" ~> pc[t] \in {"idle", "wait"}

(* The flush is over again and again: the thread that reads the response    *)
(* device, which waits for the flag (hl-response.c:115), is let through.    *)
FlagClears == []<>(~hardlog_logging)
-----------------------------------------------------------------------------
(* What the comments say and the code does not do.                          *)

Received(p) == \E j \in 1..Len(usb), k \in 1..PAGE : usb[j][k] = p
AllReceived(from, to) == \A p \in from..(to - 1) : Received(p)

(* "Update the tail, letting the kernel know we have written to usb."       *)
(* (hl-main.c:285): the bytes that the tail is about to be moved over have  *)
(* been received by the device.  Of the flushes that report success, within *)
(* one lap with every unflushed byte still in the ring:                     *)
TailMeansWritten ==
    FlushReturned /\ SameLap /\ UnflushedIntact => AllReceived(start, end)

(* The same line, of the flushes across the end of the ring that begin at a *)
(* page:                                                                    *)
TailMeansWrittenAcrossLaps ==
    FlushReturned /\ Aligned /\ UnflushedIntact => AllReceived(start, end)

(* The same line, of the flushes that fail too:                             *)
TailMeansWrittenOnError ==
    fpc = "advance" /\ SameLap /\ Aligned /\ UnflushedIntact => AllReceived(start, end)

(* "Thus, there will be no overflow." (hl-logger.c:87-89): no event is      *)
(* copied over bytes that wait for their flush.                             *)
NoOverflow == UnflushedIntact
=============================================================================
