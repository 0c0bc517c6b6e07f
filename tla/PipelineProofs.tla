---------------------------- MODULE PipelineProofs ----------------------------
(* Proofs about host, link, gadget, device flusher and reader together, for *)
(* every value of the constants: the invariants of the two rings are those  *)
(* of HostBufFlushProofs and DeviceBufProofs, what is new is the link.      *)
EXTENDS PipelineProperties, HostBufFlushProofs

DP == INSTANCE DeviceBufProofs WITH
        CBUFFSIZE <- DSIZE, InOrder <- TRUE, FileMayFail <- FALSE, Limit <- DLimit,
        head <- dhead, tail <- dtail, buffer <- dbuffer, rpc <- drpc, amount <- damount,
        fpc <- dfpc, real_end <- dreal_end, start <- dstart, end <- dend,
        file <- dfile, file_end_offset <- dfile_end

(* The transfer that is being carried out lies within what was sent, which  *)
(* is no more than the command; the command on the link is of the first     *)
(* pages of the bio, and those that were sent show what the flush has to    *)
(* send though threads have logged since they were read.                    *)
CommandInv ==
    /\ link \in {"welcome", "free", "busy", "given"}
    /\ pages \in Seq(Page) /\ due \in Nat /\ taken \in Nat /\ damount \in Nat
    /\ taken + damount <= sent /\ sent <= due
    /\ drpc = "idle" => damount = 0
LinkInv ==
    /\ CommandInv
    /\ link = "free" => drpc = "idle" /\ pages = <<>> /\ due = 0 /\ taken = 0
    /\ link = "welcome" => /\ pages = <<>> /\ due = WELCOME
                           /\ fpc = "loop" /\ usb = <<>> /\ bio = <<>> /\ sector = 0
    /\ link = "busy" => /\ fpc = "submit"
                        /\ \E n \in 1..Len(bio) : due = n * PAGE /\ Len(pages) <= n
                        /\ \A i \in 1..Len(pages) : Shows(pages[i], bio[i])

(* What was taken of the command is the end of what was received.           *)
StreamInv ==
    /\ received \in Seq(Int) /\ Len(received) = dhead /\ taken <= dhead
    /\ \A p \in 0..(taken - 1) : received[Len(received) - taken + p + 1] = Byte(p)

(* What was added to a bio and not acked is still in it or was given up; if *)
(* nothing was, what was acked is all that was received besides.            *)
GivenInv ==
    /\ sector >= Len(usb) + Len(bio)
    /\ link = "given" => ~NoneGivenUp
    /\ resends \in 0..MaxResends
    /\ ReceivedAcked

HostInv == TypeOK /\ RingInv /\ LinkInv
-----------------------------------------------------------------------------
(* The device of the pipeline is DeviceBuf.                                 *)

(* Its constants are some that DeviceBuf allows. *)
LEMMA DeviceAssumption == DP!DeviceBufAssumption
<1>1. DLimit \in Nat
  <2>1. LUN_PAGES * PAGE \in Nat
    BY HostBufAssumption
  <2>2. WELCOME + LUN_PAGES * PAGE \in Nat /\ MaxResends + 1 \in Nat
    BY <2>1, PipelineAssumption
  <2> QED
    BY <2>2 DEF DLimit
<1> QED
  BY <1>1, PipelineAssumption DEF DP!DeviceBufAssumption

(* A step of the pipeline is one of the device or leaves it alone. *)
LEMMA DeviceStep == [PNext]_pvars => [DP!Next]_(DP!vars)
<1> SUFFICES ASSUME [PNext]_pvars PROVE DP!Next \/ UNCHANGED DP!vars
  OBVIOUS
<1>1. UNCHANGED dvars => UNCHANGED DP!vars
  BY DEF dvars, DP!vars, DP!receiverVars, DP!flusherVars
<1>2. CASE FillBuffer
  BY <1>2 DEF FillBuffer, D!Receive, DP!Receive, D!flusherVars, DP!flusherVars, DP!Next
<1>3. CASE GadgetStep
  <2>1. D!MakeSpace => DP!MakeSpace
    BY DEF D!MakeSpace, DP!MakeSpace, D!flusherVars, DP!flusherVars
  <2>2. D!CopyTransfer => DP!CopyTransfer
    BY DEF D!CopyTransfer, DP!CopyTransfer, D!flusherVars, DP!flusherVars,
           D!Copied, DP!Copied, D!Slots, DP!Slots
  <2> QED
    BY <1>3, <2>1, <2>2 DEF GadgetStep, DP!Next, DP!Receiver
<1>4. CASE AcceptMore \/ AcceptTold \/ AcceptInterrupted
  <2>1. D!MoveHead => DP!MoveHead
    BY DEF D!MoveHead, DP!MoveHead, D!flusherVars, DP!flusherVars
  <2> QED
    BY <1>4, <2>1 DEF AcceptMore, AcceptTold, AcceptInterrupted, Accept, DP!Next, DP!Receiver
<1>5. CASE DeviceFlush
  <2>1. D!Snapshot => DP!Snapshot
    BY DEF D!Snapshot, DP!Snapshot, D!receiverVars, DP!receiverVars
  <2>2. D!WriteRange => DP!WriteRange
    BY DEF D!WriteRange, DP!WriteRange, D!receiverVars, DP!receiverVars,
           D!FsWrite, DP!FsWrite
  <2>3. D!WriteToRingEnd => DP!WriteToRingEnd
    BY DEF D!WriteToRingEnd, DP!WriteToRingEnd, D!receiverVars, DP!receiverVars,
           D!FsWrite, DP!FsWrite
  <2>4. D!WriteFromRingStart => DP!WriteFromRingStart
    BY DEF D!WriteFromRingStart, DP!WriteFromRingStart, D!receiverVars, DP!receiverVars,
           D!FsWrite, DP!FsWrite
  <2>5. D!AdvanceTail => DP!AdvanceTail
    BY DEF D!AdvanceTail, DP!AdvanceTail, D!FlushOver, DP!FlushOver,
           D!receiverVars, DP!receiverVars
  <2> QED
    BY <1>5, <2>1, <2>2, <2>3, <2>4, <2>5 DEF DeviceFlush, D!Flusher, DP!Flusher, DP!Next
<1>6. CASE ThreadStep \/ FlushStarts \/ FlushStep \/ BioFails \/ SendCommand \/ SendPage
           \/ Abandon \/ ReaderStep \/ ServeRead \/ UNCHANGED pvars
  <2>1. UNCHANGED dvars
    BY <1>6 DEF ThreadStep, FlushStarts, FlushStep, BioFails, BioFailsAs, SendCommand,
                SendPage, Abandon, ReaderStep, ServeRead, pvars
  <2> QED
    BY <1>1, <2>1
<1> QED
  BY <1>2, <1>3, <1>4, <1>5, <1>6 DEF PNext, Gadget

(* So what is proved of DeviceBuf holds of the pipeline's device. *)
THEOREM DeviceSpec == PSpec => DP!Spec
<1>1. PInit => DP!Init
  BY DEF PInit, D!Init, DP!Init, D!Slots, DP!Slots, D!Blank, DP!Blank
<1> QED
  BY <1>1, DeviceStep, PTL DEF PSpec, DP!Spec
-----------------------------------------------------------------------------
(* The host of the pipeline is HostBuf, but for the moment at which a page  *)
(* is read, and for the pages of a command being acked at once.             *)

(* The bytes of some pages: those of fewer are fewer. *)
LEMMA PageBytes ==
    ASSUME NEW a \in Nat, NEW b \in Nat
    PROVE  /\ a * PAGE \in Nat /\ b * PAGE \in Nat /\ (a + 1) * PAGE = a * PAGE + PAGE
           /\ a < b <=> a * PAGE < b * PAGE
           /\ a = b <=> a * PAGE = b * PAGE
<1>1. PAGE \in Nat \ {0} /\ a * PAGE \in Nat /\ b * PAGE \in Nat
  BY PageSizes
<1>2. (a + 1) * PAGE = a * PAGE + PAGE
  BY <1>1
<1>3. a < b => a * PAGE + PAGE <= b * PAGE
  BY PagesApart
<1>4. b < a => b * PAGE + PAGE <= a * PAGE
  BY PagesApart
<1>5. a < b \/ a = b \/ b < a
  OBVIOUS
<1> QED
  BY <1>1, <1>2, <1>3, <1>4, <1>5

(* What the bio has left, and what the device has, when the host is told.   *)
LEMMA ToldShape ==
    ASSUME TypeOK, Told, pages \in Seq(Page), Len(pages) <= Len(bio)
    PROVE  /\ Len(pages) \in Nat /\ Len(bio) \in Nat /\ Len(usb) \in Nat
           /\ bio' \in Seq(Entries) /\ Len(bio') = Len(bio) - Len(pages)
           /\ \A m \in 1..Len(bio') : bio'[m] = bio[Len(pages) + m]
           /\ usb' \in Seq(Page) /\ Len(usb') = Len(usb) + Len(pages)
           /\ \A m \in 1..Len(usb) : usb'[m] = usb[m]
           /\ \A m \in 1..Len(pages) : usb'[Len(usb) + m] = pages[m]
<1>1. bio \in Seq(Entries) /\ usb \in Seq(Page)
  BY DEF TypeOK
<1>2. Len(pages) \in Nat /\ Len(bio) \in Nat /\ Len(usb) \in Nat
  BY <1>1, LenProperties
<1> DEFINE P == Len(pages)
           B == Len(bio)
           U == Len(usb)
<1>3. usb' = usb \o pages /\ bio' = SubSeq(bio, P + 1, B)
  BY DEF Told
<1>4. /\ usb' \in Seq(Page) /\ Len(usb') = U + P
      /\ \A i \in 1..(U + P) : usb'[i] = IF i <= U THEN usb[i] ELSE pages[i - U]
  BY <1>1, <1>3, ConcatProperties
<1>5. \A i \in (P + 1)..B : bio[i] \in Entries
  <2>1. \A i \in 1..B : bio[i] \in Entries
    BY <1>1, LenProperties
  <2> QED
    BY <1>2, <2>1
<1>6. /\ bio' \in Seq(Entries) /\ Len(bio') = IF P + 1 <= B THEN B - (P + 1) + 1 ELSE 0
      /\ \A i \in 1..(B - (P + 1) + 1) : bio'[i] = bio[P + 1 + i - 1]
  <2>1. P + 1 \in Int /\ B \in Int
    BY <1>2
  <2> HIDE DEF P, B
  <2> QED
    BY <1>3, <1>5, <2>1, SubSeqProperties
<1>7. P \in Nat /\ B \in Nat /\ U \in Nat /\ P <= B
  BY <1>2
<1> HIDE DEF P, B, U
<1>8. Len(bio') = B - P
  BY <1>6, <1>7
<1>9. \A m \in 1..Len(bio') : bio'[m] = bio[P + m]
  <2> SUFFICES ASSUME NEW m \in 1..Len(bio') PROVE bio'[m] = bio[P + m]
    OBVIOUS
  <2>1. m \in 1..(B - (P + 1) + 1) /\ P + 1 + m - 1 = P + m
    BY <1>7, <1>8
  <2> QED
    BY <1>6, <2>1
<1>10. \A m \in 1..U : usb'[m] = usb[m]
  BY <1>4, <1>7
<1>11. \A m \in 1..P : usb'[U + m] = pages[m]
  <2> SUFFICES ASSUME NEW m \in 1..P PROVE usb'[U + m] = pages[m]
    OBVIOUS
  <2>1. U + m \in 1..(U + P) /\ ~(U + m <= U) /\ (U + m) - U = m
    BY <1>7
  <2> QED
    BY <1>4, <2>1
<1> QED
  BY <1>4, <1>6, <1>7, <1>8, <1>9, <1>10, <1>11 DEF P, B, U

(* A command's pages are acked at once: the flush is where it would be had  *)
(* they been handed over one by one.                                        *)
LEMMA ToldFlush ==
    ASSUME TypeOK, BioInv, RestInv, SentInv, fpc = "submit", Told,
           pages \in Seq(Page), Len(pages) <= Len(bio),
           \A i \in 1..Len(pages) : Shows(pages[i], bio[i])
    PROVE  BioInv' /\ RestInv' /\ SentInv'
<1> DEFINE A == PagesAdded
           C == PagesDone
           L == Len(usb)
           P == Len(pages)
<1>1. /\ Flushing /\ start < end /\ consumed - PAGE < end - start /\ consumed % PAGE = 0
      /\ Len(bio) <= A /\ C <= L
      /\ \A m \in 1..Len(bio) : bio[m] = Entry(C + m - 1)
  BY DEF Flushing, BioInv
<1>2. UNCHANGED <<head, buffer, fpc, start, end, consumed, tmpbuf, ret>>
  BY DEF Told, flusherVars
<1>3. /\ P \in Nat /\ Len(bio) \in Nat /\ L \in Nat /\ P <= Len(bio)
      /\ Len(bio') = Len(bio) - P /\ \A m \in 1..Len(bio') : bio'[m] = bio[P + m]
      /\ Len(usb') = L + P /\ \A m \in 1..L : usb'[m] = usb[m]
      /\ \A m \in 1..P : usb'[L + m] = pages[m]
  BY ToldShape
<1>4. A \in Nat /\ C = A - Len(bio) /\ C \in Nat
  <2>1. A \in Nat
    BY <1>1, WholePages DEF TypeOK, PagesAdded
  <2>2. C = A - Len(bio)
    BY DEF PagesDone
  <2> QED
    BY <1>1, <1>3, <2>1, <2>2
<1>5. PagesAdded' = A /\ PagesDone' = C + P /\ Flushing' /\ remaining' = remaining
  BY <1>1, <1>2, <1>3, <1>4 DEF PagesAdded, PagesDone, Flushing, remaining
<1>6. \A j : Entry(j)' = Entry(j) /\ (Full(j)' <=> Full(j))
  BY <1>2 DEF Entry, Full, PieceAt
<1>7. \A j : /\ DonePage(j) = usb[L - C + 1 + j]
            /\ DonePage(j)' = usb'[(L + P) - (C + P) + 1 + j]
  BY <1>3, <1>5 DEF DonePage
<1>8. C = PagesDone
  OBVIOUS
<1> HIDE DEF A, C, L, P
<1>9. BioInv'
  <2>1. \A m \in 1..Len(bio') : bio'[m] = Entry((C + P) + m - 1)
    <3> SUFFICES ASSUME NEW m \in 1..Len(bio') PROVE bio'[m] = Entry((C + P) + m - 1)
      OBVIOUS
    <3>1. P + m \in 1..Len(bio) /\ C + (P + m) - 1 = (C + P) + m - 1
      BY <1>3, <1>4
    <3> QED
      BY <1>1, <1>3, <3>1
  <2>2. Len(bio') <= A /\ C + P <= L + P
    BY <1>1, <1>3, <1>4
  <2> QED
    BY <1>1, <1>2, <1>3, <1>5, <1>6, <2>1, <2>2 DEF BioInv
<1>10. RestInv'
  BY <1>1, <1>2, <1>5 DEF RestInv
<1>11. SentInv'
  <2>3. 0..(PagesDone' - 1) = 0..(C + P - 1)
    <3>1. PagesDone' = C + P /\ C \in Nat /\ P \in Nat
      BY <1>3, <1>4, <1>5
    <3> QED
      BY <3>1
  <2> SUFFICES ASSUME NEW j \in 0..(C + P - 1)
               PROVE  IF Full(j)
                      THEN \A b \in 0..(PAGE - 1) :
                             LET i == Entry(j) * PAGE + b
                             IN  /\ buffer[i] < end => DonePage(j)'[b + 1] = buffer[i]
                                 /\ DonePage(j)'[b + 1] # Blank
                                      => DonePage(j)'[b + 1] % CBUFFSIZE = i
                      ELSE DonePage(j)' = tmpbuf
    BY <1>2, <1>6, <2>3 DEF SentInv
  <2>0. /\ C \in Nat /\ P \in Nat /\ L \in Nat /\ C <= L
        /\ j \in Int /\ 0 <= j /\ j <= C + P - 1
    BY <1>1, <1>3, <1>4
  <2>1. CASE j \in 0..(C - 1)
    <3>1. L - C + 1 + j \in 1..L /\ (L + P) - (C + P) + 1 + j = L - C + 1 + j
      BY <2>0, <2>1
    <3>2. DonePage(j)' = DonePage(j)
      BY <1>3, <1>7, <3>1
    <3> QED
      BY <1>1, <1>8, <2>1, <3>2 DEF SentInv
  <2>2. CASE ~(j \in 0..(C - 1))
    <3> DEFINE m == j - C + 1
    <3>1. m \in 1..P /\ C + m - 1 = j /\ j \in Nat
          /\ (L + P) - (C + P) + 1 + j = L + m
      BY <2>0, <2>2
    <3>0. m \in 1..Len(bio)
      BY <1>3, <3>1
    <3> HIDE DEF m
    <3>2. DonePage(j)' = pages[m] /\ bio[m] = Entry(j)
      BY <1>1, <1>3, <1>7, <3>0, <3>1
    <3>3. Shows(pages[m], Entry(j))
      BY <3>1, <3>2 DEF P
    <3>4. Full(j) => Entry(j) # Tmp
      BY <3>1, EntrySlot
    <3>5. ~Full(j) => Entry(j) = Tmp
      BY DEF Entry
    <3> QED
      BY <3>2, <3>3, <3>4, <3>5 DEF Shows
  <2> QED
    BY <2>1, <2>2
<1> QED
  BY <1>9, <1>10, <1>11

(* And the rest of the host does not see it. *)
LEMMA ToldRing ==
    ASSUME TypeOK, RingInv, fpc = "submit", Told,
           pages \in Seq(Page), Len(pages) <= Len(bio),
           \A i \in 1..Len(pages) : Shows(pages[i], bio[i])
    PROVE  TypeOK' /\ RingInv'
<1>1. IndInv /\ BufferInv /\ BioInv /\ RestInv /\ SentInv
  BY DEF RingInv
<1>2. /\ fpc # "loop" /\ fpc' = fpc /\ end' = end /\ start' = start
      /\ UNCHANGED <<head, tail, buffer, producerVars>>
  BY DEF Told, flusherVars
<1>3. IndInv'
  BY <1>1, <1>2, QuietIndInv
<1>4. BufferInv'
  BY <1>1, <1>2, QuietBuffer DEF producerVars
<1>5. TypeOK'
  BY ToldShape DEF Told, TypeOK, flusherVars, producerVars
<1> QED
  BY <1>1, <1>3, <1>4, <1>5, ToldFlush DEF RingInv

(* The welcome changes nothing on the host. *)
LEMMA ToldWelcome ==
    ASSUME HostInv, AcceptTold, link = "welcome"
    PROVE  UNCHANGED vars
<1>1. pages = <<>> /\ bio = <<>> /\ usb = <<>>
  BY DEF HostInv, LinkInv
<1>2. Told
  BY DEF AcceptTold
<1>3. pages \in Seq(Page) /\ Len(pages) <= Len(bio) /\ Len(pages) = 0 /\ Len(bio) = 0
      /\ Len(usb) = 0
  BY <1>1, EmptySeq
<1>4. bio' \in Seq(Entries) /\ Len(bio') = 0 /\ usb' \in Seq(Page) /\ Len(usb') = 0
  BY <1>2, <1>3, ToldShape DEF HostInv
<1>5. bio' = bio /\ usb' = usb
  BY <1>1, <1>4, EmptySeq
<1> QED
  BY <1>2, <1>5 DEF Told, vars, bioVars

(* Each step is one of HostBuf, leaves it alone, or acks a command's pages. *)
LEMMA HostStep ==
    ASSUME HostInv, [PNext]_pvars
    PROVE  [Next]_vars \/ (link = "busy" /\ AcceptTold)
<1>1. ThreadStep \/ FlushStarts \/ FlushStep \/ BioFails => Next
  BY DEF ThreadStep, FlushStarts, FlushStep, BioFails, BioFailsAs, Next, Flusher
<1>2. SendCommand \/ SendPage \/ FillBuffer \/ GadgetStep \/ AcceptMore
         \/ AcceptInterrupted \/ Abandon \/ DeviceFlush \/ ReaderStep \/ ServeRead
         \/ UNCHANGED pvars => UNCHANGED vars
  BY DEF SendCommand, SendPage, FillBuffer, GadgetStep, AcceptMore, AcceptInterrupted,
         Abandon, DeviceFlush, ReaderStep, ServeRead, pvars
<1>3. CASE AcceptTold /\ link = "welcome"
  BY <1>3, ToldWelcome
<1>4. AcceptTold => link \in {"welcome", "busy"}
  BY DEF AcceptTold
<1> QED
  BY <1>1, <1>2, <1>3, <1>4 DEF PNext, Gadget

(* A page shows its entry as long as it may be acked: threads only copy     *)
(* bytes of behind the flush.                                               *)
LEMMA ShowsStep ==
    ASSUME TypeOK, IndInv, BufferInv, NEW t \in Threads, Producer(t), fpc # "loop",
           NEW n \in Entries, NEW page, Shows(page, n)
    PROVE  Shows(page, n)'
<1>1. /\ UNCHANGED <<tmpbuf, end>> /\ end \in Int
      /\ \A i \in Slots : buffer'[i] = buffer[i] \/ (buffer'[i] \in Int /\ buffer'[i] >= end)
  BY ProducerCopies DEF TypeOK, bioVars, flusherVars
<1>2. CASE n = Tmp
  BY <1>1, <1>2 DEF Shows
<1>3. CASE n # Tmp
  <2> SUFFICES ASSUME NEW b \in 0..(PAGE - 1)
               PROVE  LET i == n * PAGE + b
                      IN  /\ buffer'[i] < end => page[b + 1] = buffer'[i]
                          /\ page[b + 1] # Blank => page[b + 1] % CBUFFSIZE = i
    BY <1>1, <1>3 DEF Shows
  <2> DEFINE i == n * PAGE + b
  <2>1. i \in Slots
    <3> DEFINE k == b + 1
    <3>1. n \in 0..(CBUFFSIZE \div PAGE - 1) /\ PAGE \in Nat
      BY <1>3, PageSizes DEF Entries, Tmp
    <3>2. k \in 1..PAGE /\ b \in Int
      BY <3>1
    <3>3. n * PAGE \in Int
      BY <3>1, PageSizes
    <3>4. n * PAGE + k - 1 = i
      BY <3>2, <3>3
    <3> HIDE DEF k, i
    <3> QED
      BY <3>1, <3>2, <3>4, PageInRing
  <2>2. /\ buffer[i] < end => page[b + 1] = buffer[i]
        /\ page[b + 1] # Blank => page[b + 1] % CBUFFSIZE = i
    BY <1>3 DEF Shows
  <2> HIDE DEF i
  <2>3. buffer'[i] < end => buffer'[i] = buffer[i]
    BY <1>1, <2>1
  <2> QED
    BY <2>2, <2>3 DEF i
<1> QED
  BY <1>2, <1>3

(* Nothing that the link is about has changed. *)
LEMMA LinkQuiet ==
    ASSUME LinkInv, UNCHANGED <<command, drpc, damount, fpc, bio, usb, sector,
                                buffer, tmpbuf, end>>
    PROVE  LinkInv'
<1>1. UNCHANGED <<link, due, pages, taken>> /\ UNCHANGED <<drpc, damount>>
      /\ UNCHANGED <<fpc, bio, usb, sector>> /\ UNCHANGED <<buffer, tmpbuf, end>>
  BY DEF command
<1>2. CommandInv'
  BY <1>1 DEF LinkInv, CommandInv, sent
<1>3. ASSUME NEW i \in 1..Len(pages), Shows(pages[i], bio[i]) PROVE Shows(pages[i], bio[i])'
  BY <1>1, <1>3 DEF Shows
<1> QED
  BY <1>1, <1>2, <1>3 DEF LinkInv

(* The link is done with a command. *)
LEMMA OverLink ==
    ASSUME LinkInv, NEW l \in {"welcome", "free"}, Over(l), l = "welcome" => link = "welcome",
           UNCHANGED <<fpc, sector>>, l = "welcome" => UNCHANGED <<usb, bio>>,
           drpc' = "idle", damount' = 0
    PROVE  LinkInv'
<1>1. /\ link' = l /\ pages' = <<>> /\ taken' = 0
      /\ l = "welcome" => due' = due
      /\ l = "free" => due' = 0
  BY DEF Over
<1>2. /\ pages' \in Seq(Page) /\ Len(pages') = 0 /\ 0 * PAGE = 0
      /\ WELCOME \in Nat
  BY <1>1, EmptySeq, PageSizes, PipelineAssumption
<1>3. l = "welcome" => due' = WELCOME
  BY <1>1 DEF LinkInv
<1>4. CommandInv'
  BY <1>1, <1>2, <1>3 DEF CommandInv, sent
<1> QED
  BY <1>1, <1>3, <1>4 DEF LinkInv

(* A page that is sent shows its entry, and there is one left to be sent. *)
LEMMA SendPageLink == ASSUME HostInv, SendPage PROVE LinkInv'
<1>1. /\ link = "busy" /\ fpc = "submit" /\ Len(pages) * PAGE < due
      /\ pages' = Append(pages, PageAt(bio[Len(pages) + 1]))
      /\ UNCHANGED <<link, due, taken>> /\ UNCHANGED <<drpc, damount>>
      /\ UNCHANGED <<fpc, bio>> /\ UNCHANGED <<buffer, tmpbuf, end>>
  BY DEF SendPage, dvars, vars, bioVars, flusherVars
<1>2. /\ TypeOK /\ SlotInv /\ BioInv
      /\ pages \in Seq(Page) /\ due \in Nat /\ taken \in Nat /\ damount \in Nat
      /\ taken + damount <= sent /\ (drpc = "idle" => damount = 0)
      /\ \A i \in 1..Len(pages) : Shows(pages[i], bio[i])
  BY <1>1 DEF HostInv, RingInv, BufferInv, LinkInv, CommandInv
<1>3. PICK n \in 1..Len(bio) : due = n * PAGE /\ Len(pages) <= n
  BY <1>1 DEF HostInv, LinkInv
<1>4. Len(pages) \in Nat /\ Len(bio) \in Nat /\ n \in Nat
  BY <1>2, <1>3, LenProperties DEF TypeOK
<1> DEFINE m == Len(pages) + 1
           page == PageAt(bio[m])
<1>5. m \in 1..Len(bio) /\ m <= n /\ m \in Nat
  <2>1. Len(pages) < n
    BY <1>1, <1>3, <1>4, PageBytes
  <2> QED
    BY <1>3, <1>4, <2>1
<1> HIDE DEF m
<1>6. page \in Page /\ Shows(page, bio[m])
  BY <1>1, <1>2, <1>5, ReadAt
<1> HIDE DEF page
<1>7. pages' = Append(pages, page)
  BY <1>1 DEF page, m
<1>8. /\ pages' \in Seq(Page) /\ Len(pages') = m /\ pages'[m] = page
      /\ \A i \in 1..Len(pages) : pages'[i] = pages[i]
  BY <1>2, <1>6, <1>7, AppendProperties DEF m
<1>9. sent = Len(pages) * PAGE /\ sent' = m * PAGE
  BY <1>1, <1>8 DEF sent
<1>10. Len(pages) * PAGE < m * PAGE /\ m * PAGE <= n * PAGE
       /\ m * PAGE \in Nat /\ Len(pages) * PAGE \in Nat
  <2>1. Len(pages) < m
    BY <1>4 DEF m
  <2>2. m < n \/ m = n
    BY <1>4, <1>5
  <2>3. Len(pages) * PAGE < m * PAGE /\ Len(pages) * PAGE \in Nat
    BY <1>4, <1>5, <2>1, PageBytes
  <2>4. m * PAGE \in Nat /\ n * PAGE \in Nat /\ (m < n => m * PAGE < n * PAGE)
        /\ (m = n => m * PAGE = n * PAGE)
    BY <1>4, <1>5, PageBytes
  <2> QED
    BY <2>2, <2>3, <2>4
<1>11. CommandInv'
  BY <1>1, <1>2, <1>3, <1>8, <1>9, <1>10 DEF CommandInv
<1>12. \A i \in 1..Len(pages') : Shows(pages[i], bio[i])'
  <2> SUFFICES ASSUME NEW i \in 1..Len(pages') PROVE Shows(pages[i], bio[i])'
    OBVIOUS
  <2>1. CASE i = m
    BY <1>1, <1>6, <1>8, <2>1 DEF Shows
  <2>2. CASE i # m
    <3>1. i \in 1..Len(pages)
      BY <1>4, <1>8, <2>2 DEF m
    <3> QED
      BY <1>1, <1>2, <1>8, <3>1 DEF Shows
  <2> QED
    BY <2>1, <2>2
<1> QED
  BY <1>1, <1>3, <1>5, <1>8, <1>11, <1>12 DEF LinkInv

(* What the bio's command says holds while threads log. *)
LEMMA ThreadLink == ASSUME HostInv, ThreadStep PROVE LinkInv'
<1>1. PICK t \in Threads : Producer(t)
  BY DEF ThreadStep
<1>2. /\ UNCHANGED <<link, due, pages, taken>> /\ UNCHANGED <<drpc, damount>>
      /\ link # "welcome"
  BY DEF ThreadStep, linkVars, command, dvars
<1>3. TypeOK /\ IndInv /\ BufferInv /\ LinkInv
  BY DEF HostInv, RingInv
<1>4. UNCHANGED <<fpc, bio>>
  BY <1>1, <1>3, ProducerCopies DEF bioVars, flusherVars
<1>5. CommandInv'
  BY <1>2, <1>3 DEF LinkInv, CommandInv, sent
<1>6. ASSUME link = "busy", NEW i \in 1..Len(pages) PROVE Shows(pages[i], bio[i])'
  <2>1. fpc = "submit" /\ Shows(pages[i], bio[i])
    BY <1>3, <1>6 DEF LinkInv
  <2>2. PICK n \in 1..Len(bio) : Len(pages) <= n
    BY <1>3, <1>6 DEF LinkInv
  <2>3. Len(pages) \in Nat /\ Len(bio) \in Nat /\ bio \in Seq(Entries)
    BY <1>3, LenProperties DEF LinkInv, CommandInv, TypeOK
  <2>4. i \in 1..Len(bio)
    BY <2>2, <2>3
  <2>5. bio[i] \in Entries
    BY <2>3, <2>4, LenProperties
  <2> DEFINE entry == bio[i]
             page == pages[i]
  <2>6. bio'[i] = entry /\ pages'[i] = page
    BY <1>2, <1>4
  <2>7. entry \in Entries /\ Shows(page, entry)
    BY <2>1, <2>5
  <2>8. fpc # "loop"
    BY <2>1
  <2>9. ASSUME NEW e \in Entries, NEW g, Shows(g, e)
        PROVE  IF e = Tmp THEN g = tmpbuf'
               ELSE \A b \in 0..(PAGE - 1) :
                        LET k == e * PAGE + b
                        IN  /\ buffer'[k] < end' => g[b + 1] = buffer'[k]
                            /\ g[b + 1] # Blank => g[b + 1] % CBUFFSIZE = k
    <3>1. Shows(g, e)'
      BY <1>1, <1>3, <2>8, <2>9, ShowsStep
    <3> QED
      BY <3>1 DEF Shows
  <2> HIDE DEF entry, page
  <2> QED
    BY <2>6, <2>7, <2>9 DEF Shows
<1> QED
  BY <1>2, <1>3, <1>4, <1>5, <1>6 DEF LinkInv

(* The link's part of the invariant is kept by every step. *)
LEMMA LinkStep == ASSUME HostInv, [PNext]_pvars PROVE LinkInv'
<1>1. /\ LinkInv /\ CommandInv
      /\ fpc # "loop" => link # "welcome"
      /\ fpc # "submit" \/ bio = <<>> => link # "busy"
      /\ drpc # "idle" => link # "free"
  <2>1. LinkInv /\ CommandInv
    BY DEF HostInv, LinkInv
  <2>2. link = "busy" => fpc = "submit" /\ bio # <<>>
    <3> SUFFICES ASSUME link = "busy" PROVE fpc = "submit" /\ bio # <<>>
      OBVIOUS
    <3>1. fpc = "submit" /\ \E n \in 1..Len(bio) : TRUE
      BY <2>1 DEF LinkInv
    <3> QED
      BY <3>1, EmptySeq
  <2> QED
    BY <2>1, <2>2 DEF LinkInv
<1>2. CASE ThreadStep
  BY <1>2, ThreadLink
<1>3. CASE FlushStarts \/ FlushStep
  <2>1. link \notin {"welcome", "busy"}
    BY <1>1, <1>3 DEF FlushStarts, FlushStep, Snapshot, AddPage, Chunk, SubmitDone,
                      AdvanceTail, FlushOver
  <2>2. UNCHANGED <<link, due, pages, taken>> /\ UNCHANGED <<drpc, damount>>
    BY <1>3 DEF FlushStarts, FlushStep, linkVars, command, dvars
  <2> QED
    BY <1>1, <2>1, <2>2 DEF LinkInv, CommandInv, sent
<1>4. CASE BioFails
  <2>1. fpc = "submit" /\ link' = (IF link = "busy" THEN "given" ELSE link)
        /\ UNCHANGED <<due, pages, taken>> /\ UNCHANGED <<drpc, damount>>
    BY <1>4 DEF BioFails, BioFailsAs, SubmitFails, dvars
  <2>2. link # "welcome" /\ link' \in {"free", "given"}
    BY <1>1, <2>1 DEF CommandInv
  <2>3. link' = "free" => link = "free"
    BY <2>1, <2>2
  <2>4. sent' = sent
    BY <2>1, <2>2 DEF sent
  <2> QED
    BY <1>1, <2>1, <2>2, <2>3, <2>4 DEF LinkInv, CommandInv
<1>5. CASE SendCommand
  <2>1. /\ fpc = "submit" /\ link = "free" /\ link' = "busy" /\ UNCHANGED <<pages, taken>>
        /\ UNCHANGED <<drpc, damount>> /\ UNCHANGED <<fpc, bio>>
    BY <1>5 DEF SendCommand, dvars, vars, flusherVars, bioVars
  <2>2. PICK n \in 1..Len(bio) : due' = n * PAGE
    BY <1>5 DEF SendCommand
  <2>3. pages = <<>> /\ Len(pages) = 0 /\ taken = 0 /\ drpc = "idle" /\ damount = 0
    BY <1>1, <2>1, EmptySeq DEF LinkInv, CommandInv
  <2>4. n \in Nat /\ due' \in Nat /\ 0 * PAGE = 0 /\ 0 <= n
    BY <2>2, PageSizes
  <2>5. CommandInv'
    BY <1>1, <2>1, <2>3, <2>4 DEF CommandInv, sent
  <2>6. 1..Len(pages') = {}
    BY <2>1, <2>3
  <2> QED
    BY <2>1, <2>2, <2>3, <2>4, <2>5, <2>6 DEF LinkInv
<1>6. CASE SendPage
  BY <1>6, SendPageLink
<1>7. CASE FillBuffer \/ GadgetStep \/ AcceptMore
  <2>1. UNCHANGED <<link, due, pages>> /\ UNCHANGED <<fpc, bio, usb, sector>>
        /\ UNCHANGED <<buffer, tmpbuf, end>>
    BY <1>7 DEF FillBuffer, GadgetStep, AcceptMore, linkVars, command, vars, flusherVars,
                bioVars
  <2>2. link # "free"
    BY <1>1, <1>7 DEF FillBuffer, GadgetStep, AcceptMore, Accept, D!MakeSpace,
                      D!CopyTransfer, D!MoveHead
  <2>3. CommandInv'
    <3>1. sent' = sent
      BY <2>1 DEF sent
    <3>2. CASE FillBuffer
      <4>1. drpc' = "space" /\ damount' \in 1..BUFLEN /\ taken + damount' <= sent
            /\ taken' = taken
        BY <3>2 DEF FillBuffer, D!Receive, linkVars, command
      <4>2. damount' \in Nat
        BY <4>1, PipelineAssumption
      <4> QED
        BY <1>1, <2>1, <3>1, <4>1, <4>2 DEF CommandInv
    <3>3. CASE GadgetStep
      <4>1. drpc' # "idle" /\ UNCHANGED <<taken, damount>>
        BY <3>3 DEF GadgetStep, D!MakeSpace, D!CopyTransfer, linkVars, command
      <4> QED
        BY <1>1, <2>1, <3>1, <4>1 DEF CommandInv
    <3>4. CASE AcceptMore
      <4>1. damount' = 0 /\ taken' = taken + damount
        BY <3>4 DEF AcceptMore, Accept, D!MoveHead
      <4>2. taken' \in Nat /\ taken' + damount' = taken + damount /\ damount' \in Nat
        BY <1>1, <4>1 DEF CommandInv
      <4> QED
        BY <1>1, <2>1, <3>1, <4>1, <4>2 DEF CommandInv
    <3> QED
      BY <1>7, <3>2, <3>3, <3>4
  <2>4. ASSUME NEW i \in 1..Len(pages), Shows(pages[i], bio[i])
        PROVE  Shows(pages[i], bio[i])'
    BY <2>1, <2>4 DEF Shows
  <2> QED
    BY <1>1, <2>1, <2>2, <2>3, <2>4 DEF LinkInv
<1>8. CASE AcceptTold \/ AcceptInterrupted \/ Abandon
  <2>1. drpc' = "idle" /\ damount' = 0 /\ UNCHANGED <<fpc, sector>>
    BY <1>1, <1>8 DEF AcceptTold, AcceptInterrupted, Abandon, Accept, D!MoveHead, Told,
                      vars, dvars, flusherVars, bioVars, CommandInv
  <2>2. CASE AcceptTold \/ Abandon
    <3>1. Over("free")
      BY <2>2 DEF AcceptTold, Abandon
    <3> QED
      BY <1>1, <2>1, <3>1, OverLink
  <2>3. CASE AcceptInterrupted
    <3>1. UNCHANGED <<usb, bio>>
      BY <2>3 DEF AcceptInterrupted, vars, bioVars
    <3>2. link = "welcome" => Over("welcome")
      BY <2>3 DEF AcceptInterrupted
    <3>3. link # "welcome" => Over("free")
      BY <2>3 DEF AcceptInterrupted
    <3> QED
      BY <1>1, <2>1, <3>1, <3>2, <3>3, OverLink
  <2> QED
    BY <1>8, <2>2, <2>3
<1>9. CASE DeviceFlush \/ ReaderStep \/ ServeRead \/ UNCHANGED pvars
  <2>1. UNCHANGED <<command, vars, drpc, damount>>
    BY <1>9 DEF DeviceFlush, D!Flusher, D!Snapshot, D!WriteRange, D!WriteToRingEnd,
                D!WriteFromRingStart, D!AdvanceTail, D!FlushOver, D!receiverVars,
                ReaderStep, ServeRead, pvars, linkVars, dvars
  <2>2. UNCHANGED <<fpc, bio, usb, sector, buffer, tmpbuf, end>>
    BY <2>1 DEF vars, flusherVars, bioVars
  <2> QED
    BY <1>1, <2>1, <2>2, LinkQuiet
<1> QED
  BY <1>2, <1>3, <1>4, <1>5, <1>6, <1>7, <1>8, <1>9 DEF PNext, Gadget

(* Host and link are as they should be. *)
LEMMA HostInvStep == ASSUME HostInv, [PNext]_pvars PROVE HostInv'
<1>1. CASE [Next]_vars
  <2>1. TypeOK' /\ RingInv'
    BY <1>1, RingStep DEF HostInv
  <2> QED
    BY <2>1, LinkStep DEF HostInv
<1>2. CASE link = "busy" /\ AcceptTold
  <2>1. /\ TypeOK /\ RingInv /\ fpc = "submit" /\ Told /\ pages \in Seq(Page)
        /\ \A i \in 1..Len(pages) : Shows(pages[i], bio[i])
    BY <1>2 DEF HostInv, LinkInv, CommandInv, AcceptTold
  <2>2. Len(pages) <= Len(bio)
    <3>1. PICK n \in 1..Len(bio) : Len(pages) <= n
      BY <1>2 DEF HostInv, LinkInv
    <3>2. Len(pages) \in Nat /\ Len(bio) \in Nat
      BY <2>1, LenProperties DEF TypeOK
    <3> QED
      BY <3>1, <3>2
  <2>3. TypeOK' /\ RingInv'
    BY <2>1, <2>2, ToldRing
  <2> QED
    BY <2>3, LinkStep DEF HostInv
<1> QED
  BY <1>1, <1>2, HostStep

THEOREM HostInvariance == PSpec => []HostInv
<1>1. PInit => HostInv
  <2> SUFFICES ASSUME PInit PROVE HostInv
    OBVIOUS
  <2>1. TypeOK /\ RingInv
    BY InitTypeOK, InitRingInv DEF PInit
  <2>2. /\ link = "welcome" /\ due = WELCOME /\ pages = <<>> /\ taken = 0 /\ damount = 0
        /\ fpc = "loop" /\ usb = <<>> /\ bio = <<>> /\ sector = 0
    BY DEF PInit, Init, D!Init
  <2>3. pages \in Seq(Page) /\ WELCOME \in Nat
    BY <2>2, EmptySeq, PipelineAssumption
  <2>4. CommandInv
    BY <2>2, <2>3 DEF CommandInv, sent
  <2> QED
    BY <2>1, <2>2, <2>4 DEF HostInv, LinkInv
<1> QED
  BY <1>1, HostInvStep, PTL DEF PSpec
-----------------------------------------------------------------------------
(* The gadget's stream. *)

(* The byte of a command at an offset of which it was sent. *)
LEMMA ByteOf ==
    ASSUME CommandInv, NEW p \in Nat, p < sent
    PROVE  /\ Byte(p) \in Int
           /\ link # "welcome" =>
                  /\ (p \div PAGE) + 1 \in 1..Len(pages)
                  /\ Byte(p) = pages[(p \div PAGE) + 1][(p % PAGE) + 1]
<1>1. CASE link = "welcome"
  BY <1>1 DEF Byte, Greeting
<1>2. CASE link # "welcome"
  <2> DEFINE q == p \div PAGE
             r == p % PAGE
  <2>1. q \in Nat /\ r \in 0..(PAGE - 1) /\ p = PAGE * q + r /\ PAGE \in Nat
    BY PageAndByte, PageSizes
  <2>2. pages \in Seq(Page) /\ Len(pages) \in Nat
    BY LenProperties DEF CommandInv
  <2>3. p < Len(pages) * PAGE
    BY <1>2 DEF sent
  <2> HIDE DEF q, r
  <2>4. q < Len(pages)
    <3> SUFFICES ASSUME ~(q < Len(pages)) PROVE FALSE
      OBVIOUS
    <3>1. Len(pages) < q \/ Len(pages) = q
      BY <2>1, <2>2
    <3>2. /\ Len(pages) * PAGE \in Nat /\ q * PAGE \in Nat
          /\ Len(pages) < q => Len(pages) * PAGE < q * PAGE
          /\ Len(pages) = q => Len(pages) * PAGE = q * PAGE
      BY <2>1, <2>2, PageBytes
    <3>3. q * PAGE = PAGE * q
      BY <2>1
    <3> QED
      BY <2>1, <2>3, <3>1, <3>2, <3>3
  <2>5. q + 1 \in 1..Len(pages) /\ r + 1 \in 1..PAGE
    BY <2>1, <2>2, <2>4
  <2>6. pages[q + 1] \in Page
    BY <2>2, <2>5, LenProperties
  <2>7. pages[q + 1][r + 1] \in Int
    BY <2>5, <2>6 DEF Page, Cells
  <2> QED
    BY <1>2, <2>5, <2>7 DEF Byte, q, r
<1> QED
  BY <1>1, <1>2

(* It stays what it is while more of the command is sent, or its bio fails. *)
LEMMA BytesStay ==
    ASSUME HostInv, [PNext]_pvars, ~(AcceptTold \/ AcceptInterrupted \/ Abandon),
           link # "free", NEW p \in Nat, p < sent
    PROVE  Byte(p)' = Byte(p)
<1>1. CASE SendPage
  <2>1. link = "busy" /\ link' = link /\ pages' = Append(pages, PageAt(bio[Len(pages) + 1]))
    BY <1>1 DEF SendPage
  <2>2. CommandInv /\ CommandInv' /\ pages \in Seq(Page) /\ pages' \in Seq(Page)
    BY SendPageLink, <1>1 DEF HostInv, LinkInv, CommandInv
  <2>3. (p \div PAGE) + 1 \in 1..Len(pages)
    BY <2>1, <2>2, ByteOf
  <2>4. \A i \in 1..Len(pages) : pages'[i] = pages[i]
    <3>1. \A i \in 1..Len(pages) : Append(pages, PageAt(bio[Len(pages) + 1]))[i] = pages[i]
      BY <2>2
    <3> QED
      BY <2>1, <3>1
  <2> QED
    BY <2>1, <2>3, <2>4 DEF Byte
<1>2. CASE BioFails
  <2>1. fpc = "submit" /\ pages' = pages /\ link' = IF link = "busy" THEN "given" ELSE link
    BY <1>2 DEF BioFails, BioFailsAs, SubmitFails
  <2>2. link # "welcome"
    BY <2>1 DEF HostInv, LinkInv
  <2>3. link' # "welcome"
    BY <2>1, <2>2
  <2> QED
    BY <2>1, <2>2, <2>3 DEF Byte
<1>3. CASE ThreadStep \/ FlushStarts \/ FlushStep \/ FillBuffer \/ GadgetStep \/ AcceptMore
           \/ DeviceFlush \/ ReaderStep \/ ServeRead \/ UNCHANGED pvars
  <2>1. UNCHANGED <<link, pages>>
    BY <1>3 DEF ThreadStep, FlushStarts, FlushStep, FillBuffer, GadgetStep, AcceptMore,
                DeviceFlush, ReaderStep, ServeRead, pvars, linkVars, command
  <2> QED
    BY <2>1 DEF Byte
<1>4. ~SendCommand
  BY DEF SendCommand
<1> QED
  BY <1>1, <1>2, <1>3, <1>4 DEF PNext, Gadget

(* A transfer is received behind what was there, and makes up the end of it *)
(* with what was taken of its command before.                               *)
LEMMA AcceptBytes ==
    ASSUME HostInv, StreamInv, Accept
    PROVE  /\ damount \in Nat /\ received' \in Seq(Int) /\ Len(received') = dhead'
           /\ Len(received') = Len(received) + damount
           /\ taken + damount \in Nat /\ taken + damount <= Len(received')
           /\ \A i \in 1..Len(received) : received'[i] = received[i]
           /\ \A p \in 0..(taken + damount - 1) :
                  received'[Len(received') - (taken + damount) + p + 1] = Byte(p)
<1> DEFINE L == Len(received)
           A == damount
           T == taken
           more == [k \in 1..A |-> Byte(T + k - 1)]
<1>1. /\ CommandInv /\ A \in Nat /\ T \in Nat /\ T + A <= sent
      /\ received \in Seq(Int) /\ L = dhead /\ T <= L
      /\ \A p \in 0..(T - 1) : received[L - T + p + 1] = Byte(p)
  BY DEF HostInv, LinkInv, CommandInv, StreamInv
<1>2. received' = received \o more /\ dhead' = dhead + A
  BY DEF Accept, D!MoveHead
<1>3. L \in Nat
  BY <1>1, LenProperties
<1>4. sent \in Nat
  <2>1. Len(pages) \in Nat /\ due \in Nat
    BY <1>1, LenProperties DEF CommandInv
  <2>2. Len(pages) * PAGE \in Nat
    BY <2>1, PageBytes
  <2> QED
    BY <2>1, <2>2 DEF sent
<1>5. \A k \in 1..A : Byte(T + k - 1) \in Int
  <2> SUFFICES ASSUME NEW k \in 1..A PROVE Byte(T + k - 1) \in Int
    OBVIOUS
  <2>1. T + k - 1 \in Nat /\ T + k - 1 < sent
    BY <1>1, <1>4
  <2> QED
    BY <1>1, <2>1, ByteOf
<1>6. more \in Seq(Int) /\ Len(more) = A /\ \A k \in 1..A : more[k] = Byte(T + k - 1)
  <2>1. more \in [1..A -> Int] /\ \A k \in 1..A : more[k] = Byte(T + k - 1)
    BY <1>5
  <2> HIDE DEF more, A, T
  <2> QED
    BY <1>1, <2>1
<1> HIDE DEF more
<1>7. /\ received' \in Seq(Int) /\ Len(received') = L + A
      /\ \A i \in 1..(L + A) : received'[i] = IF i <= L THEN received[i] ELSE more[i - L]
  BY <1>1, <1>2, <1>6, ConcatProperties
<1> HIDE DEF L, A, T
<1>8. Len(received') = dhead' /\ T + A <= L + A /\ T + A \in Nat
  <2>1. T \in Nat /\ A \in Nat /\ L \in Nat /\ T <= L
    BY <1>1, <1>3
  <2>2. Len(received') = L + A /\ dhead' = L + A
    BY <1>1, <1>2, <1>7
  <2> QED
    BY <2>1, <2>2
<1>9. ASSUME NEW i \in 1..L PROVE received'[i] = received[i]
  <2>1. i \in 1..(L + A) /\ i <= L
    BY <1>1, <1>3
  <2> QED
    BY <1>7, <2>1
<1>10. ASSUME NEW p \in 0..(T + A - 1)
       PROVE  received'[(L + A) - (T + A) + p + 1] = Byte(p)
  <2>1. CASE p < T
    <3>1. (L + A) - (T + A) + p + 1 = L - T + p + 1 /\ p \in 0..(T - 1)
          /\ L - T + p + 1 \in 1..L
      BY <1>1, <1>3, <2>1
    <3> QED
      BY <1>1, <1>9, <3>1
  <2>2. CASE ~(p < T)
    <3> DEFINE k == p - T + 1
    <3>1. /\ (L + A) - (T + A) + p + 1 = L + k /\ k \in 1..A /\ T + k - 1 = p
          /\ L + k \in 1..(L + A) /\ ~(L + k <= L) /\ (L + k) - L = k
      BY <1>1, <1>3, <2>2
    <3> HIDE DEF k
    <3>2. received'[L + k] = more[k]
      BY <1>7, <3>1
    <3> QED
      BY <1>6, <3>1, <3>2
  <2> QED
    BY <2>1, <2>2
<1> QED
  BY <1>1, <1>7, <1>8, <1>9, <1>10 DEF L, A, T

(* What is received is the gadget's stream, and ends with what was taken of *)
(* the command on the link.                                                 *)
LEMMA StreamStep == ASSUME HostInv, StreamInv, [PNext]_pvars PROVE StreamInv'
<1>1. /\ received \in Seq(Int) /\ Len(received) = dhead /\ taken <= dhead
      /\ \A p \in 0..(taken - 1) : received[Len(received) - taken + p + 1] = Byte(p)
      /\ CommandInv /\ taken \in Nat /\ damount \in Nat /\ taken + damount <= sent
      /\ link = "free" => taken = 0
      /\ Len(received) \in Nat /\ sent \in Nat
  <2>1. pages \in Seq(Page) /\ due \in Nat /\ received \in Seq(Int)
    BY DEF HostInv, LinkInv, CommandInv, StreamInv
  <2>2. Len(pages) \in Nat /\ Len(received) \in Nat
    BY <2>1, LenProperties
  <2>3. Len(pages) * PAGE \in Nat
    BY <2>2, PageBytes
  <2> QED
    BY <2>1, <2>2, <2>3 DEF HostInv, LinkInv, CommandInv, StreamInv, sent
<1>2. CASE AcceptTold \/ AcceptInterrupted
  <2>1. Accept /\ taken' = 0
    BY <1>2 DEF AcceptTold, AcceptInterrupted, Over
  <2>2. received' \in Seq(Int) /\ Len(received') = dhead' /\ Len(received') \in Nat
    BY <2>1, AcceptBytes, LenProperties
  <2> QED
    BY <2>1, <2>2 DEF StreamInv
<1>3. CASE Abandon
  <2>1. taken' = 0 /\ received' = received /\ dhead' = dhead
    BY <1>3 DEF Abandon, Over, dvars
  <2> QED
    BY <1>1, <2>1 DEF StreamInv
<1>4. CASE AcceptMore
  <2>1. Accept /\ taken' = taken + damount /\ UNCHANGED <<link, pages>>
    BY <1>4 DEF AcceptMore
  <2>2. received' \in Seq(Int) /\ Len(received') = dhead' /\ taken' <= Len(received')
    BY <2>1, AcceptBytes
  <2>3. \A p \in 0..(taken + damount - 1) :
            received'[Len(received') - (taken + damount) + p + 1] = Byte(p)
    BY <2>1, AcceptBytes
  <2> QED
    <3>1. ASSUME NEW p \in 0..(taken' - 1)
          PROVE  received'[Len(received') - taken' + p + 1] = Byte(p)'
      <4>1. Byte(p)' = Byte(p)
        BY <2>1 DEF Byte
      <4>2. taken + damount = taken' /\ p \in 0..(taken + damount - 1)
        BY <1>1, <2>1
      <4> QED
        BY <2>3, <4>1, <4>2
    <3>2. taken' <= dhead'
      BY <2>2
    <3> QED
      BY <2>2, <3>1, <3>2 DEF StreamInv
<1>5. CASE SendCommand
  <2>1. taken = 0 /\ taken' = 0 /\ received' = received /\ dhead' = dhead
    BY <1>1, <1>5 DEF SendCommand, dvars
  <2> QED
    BY <1>1, <2>1 DEF StreamInv
<1>6. CASE ThreadStep \/ FlushStarts \/ FlushStep \/ BioFails \/ SendPage \/ FillBuffer
           \/ GadgetStep \/ DeviceFlush \/ ReaderStep \/ ServeRead \/ UNCHANGED pvars
  <2>1. UNCHANGED <<taken, received, dhead>>
    BY <1>6 DEF ThreadStep, FlushStarts, FlushStep, BioFails, BioFailsAs, SendPage,
                FillBuffer, GadgetStep, D!Receive, D!MakeSpace, D!CopyTransfer,
                DeviceFlush, D!Flusher, D!Snapshot, D!WriteRange, D!WriteToRingEnd,
                D!WriteFromRingStart, D!AdvanceTail, D!FlushOver, ReaderStep, ServeRead,
                pvars, linkVars, command, dvars
  <2>2. CASE link = "free"
    BY <1>1, <2>1, <2>2 DEF StreamInv
  <2>3. CASE link # "free"
    <3>1. CASE AcceptTold \/ AcceptInterrupted \/ Abandon
      BY <1>2, <1>3, <3>1
    <3>2. CASE ~(AcceptTold \/ AcceptInterrupted \/ Abandon)
      <4>1. ASSUME NEW p \in 0..(taken - 1) PROVE Byte(p)' = Byte(p)
        <5>1. p \in Nat /\ p < sent
          BY <1>1
        <5> QED
          BY <2>3, <3>2, <5>1, BytesStay
      <4> QED
        BY <1>1, <2>1, <4>1 DEF StreamInv
    <3> QED
      BY <3>1, <3>2
  <2> QED
    BY <2>2, <2>3
<1> QED
  BY <1>2, <1>3, <1>4, <1>5, <1>6 DEF PNext, Gadget

THEOREM StreamInvariance == PSpec => []StreamInv
<1>1. PInit => StreamInv
  <2> SUFFICES ASSUME PInit PROVE StreamInv
    OBVIOUS
  <2>1. received = <<>> /\ dhead = 0 /\ taken = 0
    BY DEF PInit, D!Init
  <2> QED
    BY <2>1, EmptySeq DEF StreamInv
<1> QED
  BY <1>1, StreamStep, HostInvariance, PTL DEF PSpec
-----------------------------------------------------------------------------
(* What the host was told of has been received. *)

(* The bytes of a command that has been taken are those of its pages. *)
LEMMA CommandBytes ==
    ASSUME HostInv, link = "busy", Last
    PROVE  /\ Len(pages) \in Nat /\ due = Len(pages) * PAGE /\ due \in Nat
           /\ \A m \in 1..Len(pages), k \in 1..PAGE :
                  /\ (m - 1) * PAGE + k - 1 \in 0..(due - 1)
                  /\ Byte((m - 1) * PAGE + k - 1) = pages[m][k]
<1>1. Len(pages) \in Nat /\ due = Len(pages) * PAGE /\ due \in Nat
  <2>1. /\ pages \in Seq(Page) /\ due \in Nat /\ taken + damount <= sent /\ sent <= due
        /\ sent = Len(pages) * PAGE
    BY DEF HostInv, LinkInv, CommandInv, sent
  <2>2. Len(pages) \in Nat
    BY <2>1, LenProperties
  <2>3. Len(pages) * PAGE \in Nat
    BY <2>2, PageBytes
  <2>4. due <= sent
    BY <2>1 DEF Last
  <2> QED
    BY <2>1, <2>2, <2>3, <2>4
<1>2. ASSUME NEW m \in 1..Len(pages), NEW k \in 1..PAGE
      PROVE  /\ (m - 1) * PAGE + k - 1 \in 0..(due - 1)
             /\ Byte((m - 1) * PAGE + k - 1) = pages[m][k]
  <2> DEFINE q == m - 1
             r == k - 1
             x == q * PAGE + k - 1
  <2>1. PAGE \in Nat /\ q \in Int /\ q < Len(pages) /\ r \in 0..(PAGE - 1) /\ k = r + 1
        /\ m = q + 1 /\ q >= 0
    BY <1>1, PageSizes
  <2> HIDE DEF q, r
  <2>2. q * PAGE \in Nat /\ q * PAGE + PAGE <= Len(pages) * PAGE /\ PAGE * q = q * PAGE
    <3>1. q * PAGE \in Int /\ q * PAGE + PAGE <= Len(pages) * PAGE
      BY <1>1, <2>1, PagesApart
    <3>2. q \in Nat
      BY <2>1
    <3>3. q * PAGE \in Nat
      BY <3>2, PageBytes
    <3> QED
      BY <2>1, <3>1, <3>3
  <2>3. x \in Int /\ x = PAGE * q + r /\ x \in 0..(due - 1)
    BY <1>1, <2>1, <2>2
  <2> HIDE DEF x
  <2>4. x % PAGE = r /\ x \div PAGE = q
    BY <2>1, <2>3, PageUnique
  <2>5. Byte(x) = pages[m][k]
    BY <2>1, <2>4 DEF Byte
  <2> QED
    BY <2>3, <2>5 DEF x, q
<1> QED
  BY <1>1, <1>2

(* The host is told of nothing else. *)
LEMMA UsbStep == ASSUME [PNext]_pvars PROVE AcceptTold \/ UNCHANGED usb
<1>1. ThreadStep => UNCHANGED usb
  BY DEF ThreadStep, Producer, Produce, LogEnd, LockProducer, MakeSpace, CopyEvent, CopyTo,
         PublishHead, Publish, WaitFlushed, bioVars
<1>2. FlushStarts \/ FlushStep \/ BioFails => UNCHANGED usb
  BY DEF FlushStarts, FlushStep, BioFails, BioFailsAs, Snapshot, AddPage, Chunk, SubmitDone,
         SubmitFails, AdvanceTail, FlushOver, bioVars
<1>3. SendCommand \/ SendPage \/ FillBuffer \/ GadgetStep \/ AcceptMore
         \/ AcceptInterrupted \/ Abandon \/ DeviceFlush \/ ReaderStep \/ ServeRead
         \/ UNCHANGED pvars => UNCHANGED usb
  BY DEF SendCommand, SendPage, FillBuffer, GadgetStep, AcceptMore, AcceptInterrupted,
         Abandon, DeviceFlush, ReaderStep, ServeRead, pvars, vars, bioVars
<1> QED
  BY <1>1, <1>2, <1>3 DEF PNext, Gadget

(* The pages lie in the first n of the bytes, each behind the one before. *)
PlacedAt(at, ps, bytes, n) ==
    /\ at \in [1..Len(ps) -> 0..(n - PAGE)]
    /\ \A i \in 1..Len(ps), k \in 1..PAGE : bytes[at[i] + k] = ps[i][k]
    /\ \A i, j \in 1..Len(ps) : i < j => at[i] + PAGE <= at[j]

(* They are found before what was taken of the command on the link: that    *)
(* may have to be sent again.                                               *)
AckedInv == \E at : PlacedAt(at, usb, received, Len(received) - taken)

(* They stay found when there is more. *)
LEMMA PlacedOn ==
    ASSUME NEW ps, NEW bytes, NEW more, NEW n \in Int, NEW o \in Int, n <= o,
           NEW at, PlacedAt(at, ps, bytes, n), \A i \in 1..n : more[i] = bytes[i]
    PROVE  PlacedAt(at, ps, more, o)
<1>1. PAGE \in Nat /\ at \in [1..Len(ps) -> 0..(n - PAGE)]
  BY PageSizes DEF PlacedAt
<1>2. at \in [1..Len(ps) -> 0..(o - PAGE)]
  <2>1. 0..(n - PAGE) \subseteq 0..(o - PAGE)
    BY <1>1
  <2> QED
    BY <1>1, <2>1
<1>3. ASSUME NEW i \in 1..Len(ps), NEW k \in 1..PAGE PROVE more[at[i] + k] = ps[i][k]
  <2>1. at[i] \in 0..(n - PAGE)
    BY <1>1
  <2>2. at[i] + k \in 1..n
    BY <1>1, <2>1
  <2> QED
    BY <2>2 DEF PlacedAt
<1> QED
  BY <1>2, <1>3 DEF PlacedAt

(* The pages of the command that the host is told of are those received last. *)
LEMMA AckedTold ==
    ASSUME HostInv, StreamInv, AckedInv, AcceptTold, link = "busy"
    PROVE  AckedInv'
<1>0. /\ Len(received') = Len(received) + damount /\ taken + damount <= Len(received')
      /\ \A i \in 1..Len(received) : received'[i] = received[i]
      /\ \A p \in 0..(taken + damount - 1) :
             received'[Len(received') - (taken + damount) + p + 1] = Byte(p)
  BY AcceptBytes DEF AcceptTold
<1> DEFINE L == Len(usb)
           P == Len(pages)
           N == Len(received)
<1>T. PICK T \in Nat : T = taken + damount /\ taken \in Nat /\ damount \in Nat
  BY DEF HostInv, LinkInv, CommandInv
<1>1. Accept /\ Last /\ Told /\ taken' = 0
  BY DEF AcceptTold, Over
<1>2. /\ P \in Nat /\ T = P * PAGE /\ T \in Nat
      /\ \A m \in 1..P, k \in 1..PAGE : /\ (m - 1) * PAGE + k - 1 \in 0..(T - 1)
                                        /\ Byte((m - 1) * PAGE + k - 1) = pages[m][k]
  BY <1>1, <1>T, CommandBytes DEF Last
<1>3. /\ Len(received') = N + damount /\ T <= Len(received')
      /\ \A i \in 1..N : received'[i] = received[i]
      /\ \A p \in 0..(T - 1) : received'[Len(received') - T + p + 1] = Byte(p)
  <2>1. ASSUME NEW p \in 0..(T - 1)
        PROVE  received'[Len(received') - T + p + 1] = Byte(p)
    BY <1>0, <1>T
  <2>2. Len(received') = N + damount /\ T <= Len(received')
    BY <1>0, <1>T
  <2>3. \A i \in 1..N : received'[i] = received[i]
    BY <1>0
  <2> QED
    BY <2>1, <2>2, <2>3
<1>4. /\ N \in Nat /\ L \in Nat /\ damount \in Nat /\ taken \in Nat /\ taken <= N
      /\ PAGE \in Nat /\ Len(received') \in Nat
  <2>1. received \in Seq(Int) /\ usb \in Seq(Page) /\ damount \in Nat /\ taken \in Nat
        /\ taken <= N
    BY DEF HostInv, TypeOK, LinkInv, CommandInv, StreamInv
  <2>2. N \in Nat /\ L \in Nat
    BY <2>1, LenProperties
  <2> QED
    BY <1>3, <2>1, <2>2, PageSizes
<1>5. /\ usb' = usb \o pages /\ Len(usb') = L + P
      /\ \A m \in 1..(L + P) : usb'[m] = IF m <= L THEN usb[m] ELSE pages[m - L]
  <2>1. usb \in Seq(Page) /\ pages \in Seq(Page) /\ usb' = usb \o pages
    BY <1>1 DEF HostInv, TypeOK, LinkInv, CommandInv, Told
  <2> QED
    BY <2>1, ConcatProperties
<1>6. PICK at : PlacedAt(at, usb, received, N - taken)
  BY DEF AckedInv
<1> DEFINE base == Len(received') - T
           place == [m \in 1..(L + P) |-> IF m <= L THEN at[m] ELSE base + (m - L - 1) * PAGE]
<1>7. N - taken = base /\ base \in Nat /\ base <= N /\ base + T = Len(received') /\ T \in Nat
  <2>1. Len(received') = N + damount /\ T <= Len(received') /\ T = taken + damount
    BY <1>3, <1>T
  <2>2. N \in Nat /\ damount \in Nat /\ taken \in Nat /\ T \in Nat
    BY <1>4
  <2> QED
    BY <2>1, <2>2
<1> HIDE DEF base, L, P, N
<1>8. /\ at \in [1..L -> 0..(base - PAGE)]
      /\ \A i \in 1..L, k \in 1..PAGE : received[at[i] + k] = usb[i][k]
      /\ \A i, j \in 1..L : i < j => at[i] + PAGE <= at[j]
  BY <1>6, <1>7 DEF PlacedAt, L
<1>9. ASSUME NEW m \in 1..P
      PROVE  /\ base + (m - 1) * PAGE \in 0..(base + T - PAGE)
             /\ base + (m - 1) * PAGE >= base /\ (m - 1) * PAGE \in Nat
             /\ \A k \in 1..PAGE : received'[base + (m - 1) * PAGE + k] = pages[m][k]
  <2>1. (m - 1) * PAGE \in Nat /\ (m - 1) * PAGE + PAGE <= T
    <3>1. m - 1 \in Nat /\ m - 1 < P /\ P \in Int /\ m - 1 \in Int
      BY <1>2
    <3>2. (m - 1) * PAGE + PAGE <= P * PAGE
      BY <3>1, PagesApart
    <3>3. (m - 1) * PAGE \in Nat
      BY <3>1, PageBytes
    <3> QED
      BY <1>2, <3>2, <3>3
  <2>2. ASSUME NEW k \in 1..PAGE
        PROVE  received'[base + (m - 1) * PAGE + k] = pages[m][k]
    <3> DEFINE p == (m - 1) * PAGE + k - 1
    <3>1. p \in 0..(T - 1) /\ Byte(p) = pages[m][k]
      BY <1>2
    <3>2. base + p + 1 = base + (m - 1) * PAGE + k
      BY <1>4, <1>7, <2>1
    <3> HIDE DEF p
    <3>3. received'[base + p + 1] = Byte(p)
      BY <1>3, <3>1 DEF base
    <3> QED
      BY <3>1, <3>2, <3>3
  <2>3. /\ base + (m - 1) * PAGE \in 0..(base + T - PAGE)
        /\ base + (m - 1) * PAGE >= base
    BY <1>4, <1>7, <2>1
  <2> QED
    BY <2>1, <2>2, <2>3
<1>10. ASSUME NEW m \in 1..(L + P), ~(m <= L)
       PROVE  /\ m - L \in 1..P /\ place[m] = base + (m - L - 1) * PAGE
              /\ usb'[m] = pages[m - L]
  <2>1. m - L \in 1..P
    <3>1. P \in Nat /\ L \in Nat
      BY <1>2, <1>4
    <3> QED
      BY <1>10, <3>1
  <2> QED
    BY <1>5, <1>10, <2>1
<1>11. ASSUME NEW m \in 1..(L + P), m <= L
       PROVE  m \in 1..L /\ place[m] = at[m] /\ usb'[m] = usb[m]
  BY <1>2, <1>4, <1>5, <1>11
<1> HIDE DEF place
<1>12. ASSUME NEW m \in 1..(L + P)
       PROVE  place[m] \in 0..(base + T - PAGE)
  <2>1. CASE m <= L
    <3>1. place[m] \in 0..(base - PAGE)
      BY <1>8, <1>11, <2>1
    <3> QED
      BY <1>2, <1>4, <1>7, <3>1
  <2>2. CASE ~(m <= L)
    BY <1>9, <1>10, <2>2
  <2> QED
    BY <2>1, <2>2
<1>13. place \in [1..(L + P) -> 0..(Len(received') - PAGE)]
  <2>1. ASSUME NEW m \in 1..(L + P) PROVE place[m] \in 0..(Len(received') - PAGE)
    <3>1. base + T = Len(received') /\ base \in Nat /\ T \in Nat /\ PAGE \in Nat
      BY <1>4, <1>7
    <3>2. place[m] \in 0..(base + T - PAGE)
      BY <1>12
    <3> QED
      BY <3>1, <3>2
  <2>2. place = [m \in 1..(L + P) |-> place[m]]
    BY DEF place
  <2> QED
    BY <2>1, <2>2
<1>14. ASSUME NEW m \in 1..(L + P), NEW k \in 1..PAGE
       PROVE  received'[place[m] + k] = usb'[m][k]
  <2>1. CASE m <= L
    <3>1. at[m] \in 0..(base - PAGE) /\ received[at[m] + k] = usb[m][k]
      BY <1>8, <1>11, <2>1
    <3>2. at[m] + k \in 1..N
      <4>1. base <= N /\ base \in Int /\ N \in Int /\ PAGE \in Nat
        BY <1>4, <1>7
      <4> QED
        BY <3>1, <4>1
    <3> QED
      BY <1>3, <1>11, <2>1, <3>1, <3>2
  <2>2. CASE ~(m <= L)
    BY <1>9, <1>10, <2>2
  <2> QED
    BY <2>1, <2>2
<1>15. ASSUME NEW i \in 1..(L + P), NEW j \in 1..(L + P), i < j
       PROVE  place[i] + PAGE <= place[j]
  <2>1. CASE j <= L
    <3>1. i <= L
      BY <1>4, <1>15, <2>1
    <3> QED
      BY <1>8, <1>11, <1>15, <2>1, <3>1
  <2>2. CASE i <= L /\ ~(j <= L)
    <3>1. place[i] \in 0..(base - PAGE)
      BY <1>8, <1>11, <2>2
    <3>2. place[j] = base + (j - L - 1) * PAGE /\ j - L \in 1..P
      BY <1>10, <2>2
    <3>3. (j - L - 1) * PAGE \in Nat
      BY <1>9, <3>2
    <3>4. base \in Nat /\ PAGE \in Nat
      BY <1>4, <1>7
    <3> QED
      BY <3>1, <3>2, <3>3, <3>4
  <2>3. CASE ~(i <= L) /\ ~(j <= L)
    <3> DEFINE a == i - L - 1
               b == j - L - 1
    <3>1. a \in Int /\ b \in Int /\ a < b
      BY <1>4, <1>15
    <3>2. place[i] = base + a * PAGE /\ place[j] = base + b * PAGE
      BY <1>10, <2>3
    <3> HIDE DEF a, b
    <3>3. a * PAGE \in Int /\ b * PAGE \in Int /\ a * PAGE + PAGE <= b * PAGE
      BY <3>1, PagesApart
    <3> QED
      BY <1>4, <1>7, <3>2, <3>3
  <2> QED
    BY <2>1, <2>2, <2>3
<1>16. Len(received') - taken' = Len(received')
  BY <1>1, <1>4
<1>17. PlacedAt(place, usb', received', Len(received') - taken')
  BY <1>5, <1>13, <1>14, <1>15, <1>16 DEF PlacedAt
<1> QED
  BY <1>17 DEF AckedInv

(* What was taken of no command only grows. *)
LEMMA BeforeCommand ==
    ASSUME HostInv, StreamInv, [PNext]_pvars
    PROVE  /\ Len(received) - taken \in Int
           /\ Len(received') - taken' \in Int /\ Len(received) - taken <= Len(received') - taken'
           /\ \A i \in 1..(Len(received) - taken) : received'[i] = received[i]
<1>1. /\ Len(received) \in Nat /\ taken \in Nat /\ damount \in Nat
      /\ link = "free" => taken = 0
  <2>1. received \in Seq(Int) /\ taken \in Nat /\ damount \in Nat
        /\ (link = "free" => taken = 0)
    BY DEF HostInv, LinkInv, CommandInv, StreamInv
  <2> QED
    BY <2>1, LenProperties
<1>2. CASE AcceptMore \/ AcceptTold \/ AcceptInterrupted
  <2>1. Accept /\ (taken' = taken + damount \/ taken' = 0)
    BY <1>2 DEF AcceptMore, AcceptTold, AcceptInterrupted, Over
  <2>2. Len(received') = Len(received) + damount
        /\ \A i \in 1..Len(received) : received'[i] = received[i]
    BY <2>1, AcceptBytes
  <2> QED
    BY <1>1, <2>1, <2>2
<1>3. CASE Abandon
  <2>1. taken' = 0 /\ received' = received
    BY <1>3 DEF Abandon, Over
  <2> QED
    BY <1>1, <2>1
<1>4. CASE ThreadStep \/ FlushStarts \/ FlushStep \/ BioFails \/ SendCommand \/ SendPage
           \/ FillBuffer \/ GadgetStep \/ DeviceFlush \/ ReaderStep \/ ServeRead
           \/ UNCHANGED pvars
  <2>1. UNCHANGED <<taken, received>>
    BY <1>4 DEF ThreadStep, FlushStarts, FlushStep, BioFails, BioFailsAs, SendCommand,
                SendPage, FillBuffer, GadgetStep, DeviceFlush, ReaderStep, ServeRead,
                pvars, linkVars, command
  <2> QED
    BY <1>1, <2>1
<1> QED
  BY <1>2, <1>3, <1>4 DEF PNext, Gadget

LEMMA AckedStep == ASSUME HostInv, StreamInv, AckedInv, [PNext]_pvars PROVE AckedInv'
<1>1. CASE AcceptTold /\ link = "busy"
  BY <1>1, AckedTold
<1>2. CASE ~(AcceptTold /\ link = "busy")
  <2>1. usb' = usb
    <3>1. AcceptTold => link = "welcome"
      BY <1>2 DEF AcceptTold
    <3>2. AcceptTold => usb' = usb
      BY <3>1, ToldWelcome DEF vars, bioVars
    <3> QED
      BY <3>2, UsbStep
  <2>2. PICK at : PlacedAt(at, usb, received, Len(received) - taken)
    BY DEF AckedInv
  <2> DEFINE n == Len(received) - taken
             o == Len(received') - taken'
  <2>3. /\ n \in Int /\ o \in Int /\ n <= o
        /\ \A i \in 1..n : received'[i] = received[i]
    BY BeforeCommand
  <2> HIDE DEF n, o
  <2>4. PlacedAt(at, usb, received, n)
    BY <2>2 DEF n
  <2>5. PlacedAt(at, usb, received', o)
    BY <2>3, <2>4, PlacedOn
  <2>6. PlacedAt(at, usb', received', Len(received') - taken')
    BY <2>1, <2>5 DEF o
  <2> QED
    BY <2>6 DEF AckedInv
<1> QED
  BY <1>1, <1>2

(* Each page that the host was told of has been received, whole and in the  *)
(* order of the host's stream: of any number of pages, in commands and      *)
(* transfers of any length, whatever is sent again or given up.             *)
THEOREM AckedIsReceived == PSpec => []AckedReceived
<1>1. PInit => AckedInv
  <2> SUFFICES ASSUME PInit PROVE AckedInv
    OBVIOUS
  <2>1. usb = <<>> /\ Len(usb) = 0 /\ 1..Len(usb) = {}
    BY EmptySeq DEF PInit, Init
  <2>2. PlacedAt([i \in {} |-> 0], usb, received, Len(received) - taken)
    BY <2>1 DEF PlacedAt
  <2> QED
    BY <2>2 DEF AckedInv
<1>2. HostInv /\ StreamInv /\ AckedInv => AckedReceived
  <2> SUFFICES ASSUME HostInv, StreamInv, AckedInv PROVE AckedReceived
    OBVIOUS
  <2>1. PICK at : PlacedAt(at, usb, received, Len(received) - taken)
    BY DEF AckedInv
  <2>2. received \in Seq(Int) /\ taken \in Nat
    BY DEF HostInv, LinkInv, CommandInv, StreamInv
  <2>3. Len(received) \in Nat
    BY <2>2, LenProperties
  <2>4. Len(received) - taken \in Int /\ Len(received) \in Int
        /\ Len(received) - taken <= Len(received)
    BY <2>2, <2>3
  <2>5. PlacedAt(at, usb, received, Len(received))
    BY <2>1, <2>4, PlacedOn
  <2> QED
    BY <2>5 DEF PlacedAt, AckedReceived, FoundIn
<1> QED
  BY <1>1, <1>2, AckedStep, HostInvariance, StreamInvariance, PTL DEF PSpec

(* What such a flush was to send and did not step over is among the pages   *)
(* that the host was told of, so it has been received.                      *)
THEOREM FlushIsReceived == PSpec => []FlushReceived
<1>1. HostInv /\ StreamInv /\ AckedReceived => FlushReceived
  <2> SUFFICES ASSUME HostInv, StreamInv, AckedReceived, FlushReturned, SameLap,
                      UnflushedIntact, NEW p \in start..(end - 1), p \notin SteppedOver
               PROVE  \E q \in 1..Len(received) : received[q] = p
    BY DEF FlushReceived
  <2>1. TypeOK /\ RingInv /\ BioInv
    BY DEF HostInv, RingInv
  <2>2. {x \in start..(end - 1) : x \notin SentBytes} = SteppedOver
    BY <2>1, SentFrom DEF FlushSent
  <2>3. PICK k \in 0..(end - start - 1) : p = Sent(k)
    BY <2>2 DEF SentBytes
  <2> DEFINE j == k \div PAGE
             b == (k % PAGE) + 1
             i == Len(usb) - PagesDone + 1 + j
  <2>4. PagesDone = PagesAdded /\ j \in 0..(PagesAdded - 1) /\ p = DonePage(j)[b]
    BY <2>1, <2>3, SentIs
  <2>5. PagesDone <= Len(usb) /\ PagesDone \in Nat
    <3>1. Flushing /\ consumed % PAGE = 0 /\ PagesDone <= Len(usb)
      BY <2>1 DEF Flushing, BioInv
    <3>2. PagesAdded \in Nat
      BY <2>1, <3>1, WholePages DEF TypeOK, PagesAdded
    <3> QED
      BY <2>4, <3>1, <3>2
  <2>6. b \in 1..PAGE
    <3>1. k \in Nat
      OBVIOUS
    <3>2. k % PAGE \in 0..(PAGE - 1) /\ PAGE \in Nat
      BY <3>1, PageAndByte, PageSizes
    <3> QED
      BY <3>2
  <2>7. Len(usb) \in Nat /\ Len(received) \in Nat
    BY <2>1, LenProperties DEF TypeOK, StreamInv
  <2> HIDE DEF j, b
  <2>8. i \in 1..Len(usb) /\ p = usb[i][b]
    <3>1. i \in 1..Len(usb)
      BY <2>4, <2>5, <2>7
    <3> QED
      BY <2>4, <3>1 DEF DonePage
  <2> HIDE DEF i
  <2>9. PICK at \in [1..Len(usb) -> 0..(Len(received) - PAGE)] :
            \A m \in 1..Len(usb), x \in 1..PAGE : received[at[m] + x] = usb[m][x]
    BY DEF AckedReceived, FoundIn
  <2>10. at[i] \in 0..(Len(received) - PAGE) /\ received[at[i] + b] = p
    BY <2>6, <2>8, <2>9
  <2>11. at[i] + b \in 1..Len(received)
    BY <2>6, <2>7, <2>10, PageSizes
  <2> QED
    BY <2>10, <2>11
<1> QED
  BY <1>1, HostInvariance, StreamInvariance, AckedIsReceived, PTL
-----------------------------------------------------------------------------
(* What is received besides: nothing, unless it is sent again or given up.  *)

(* What the host has added and was not told of only grows, by each bio that *)
(* fails.                                                                   *)
LEMMA GapStep ==
    ASSUME HostInv, sector >= Len(usb) + Len(bio), [PNext]_pvars
    PROVE  /\ sector' >= Len(usb') + Len(bio')
           /\ NoneGivenUp' => NoneGivenUp
           /\ BioFails => ~NoneGivenUp'
<1>1. /\ sector \in Nat /\ bio \in Seq(Entries) /\ usb \in Seq(Page)
      /\ Len(bio) \in Nat /\ Len(usb) \in Nat
  <2>1. sector \in Nat /\ bio \in Seq(Entries) /\ usb \in Seq(Page)
    BY DEF HostInv, TypeOK
  <2> QED
    BY <2>1, LenProperties
<1>2. CASE AddPage /\ FlushStep
  <2>1. sector' = sector + 1 /\ usb' = usb /\ \E e : bio' = Append(bio, e)
    BY <1>2 DEF AddPage, Chunk
  <2>2. Len(bio') = Len(bio) + 1
    <3>1. bio' \in Seq(Entries)
      BY <1>2, AddPageTypeOK DEF HostInv, TypeOK
    <3>2. PICK e : bio' = Append(bio, e)
      BY <2>1
    <3> QED
      BY <1>1, <3>2
  <2>3. ~BioFails
    <3>1. fpc = "chunk"
      BY <1>2 DEF AddPage, Chunk
    <3>2. BioFails => fpc = "submit"
      BY DEF BioFails, BioFailsAs, SubmitFails
    <3> QED
      BY <3>1, <3>2
  <2> QED
    BY <1>1, <2>1, <2>2, <2>3 DEF NoneGivenUp
<1>3. CASE BioFails
  <2>1. bio # <<>> /\ bio' = <<>> /\ UNCHANGED <<sector, usb>>
    BY <1>3 DEF BioFails, BioFailsAs, SubmitFails
  <2>2. Len(bio) > 0 /\ Len(bio') = 0
    BY <1>1, <2>1, EmptySeq
  <2> QED
    BY <1>1, <2>1, <2>2 DEF NoneGivenUp
<1>4. CASE AcceptTold /\ link = "busy"
  <2>1. Told /\ sector' = sector /\ pages \in Seq(Page) /\ TypeOK
    BY <1>4 DEF AcceptTold, Told, HostInv, LinkInv, CommandInv
  <2>2. PICK n \in 1..Len(bio) : Len(pages) <= n
    BY <1>4 DEF HostInv, LinkInv
  <2>3. Len(pages) \in Nat /\ Len(pages) <= Len(bio)
    BY <1>1, <2>1, <2>2, LenProperties
  <2>4. Len(bio') = Len(bio) - Len(pages) /\ Len(usb') = Len(usb) + Len(pages)
    BY <2>1, <2>3, ToldShape
  <2>5. ~BioFails
    <3>1. drpc = "publish" /\ drpc' = "idle"
      BY <1>4 DEF AcceptTold, Accept, D!MoveHead
    <3>2. BioFails => drpc' = drpc
      BY DEF BioFails, BioFailsAs, dvars
    <3> QED
      BY <3>1, <3>2
  <2> QED
    <3>1. Len(usb') + Len(bio') = Len(usb) + Len(bio)
      BY <1>1, <2>3, <2>4
    <3> QED
      BY <2>1, <2>5, <3>1 DEF NoneGivenUp
<1>5. CASE AcceptTold /\ link = "welcome"
  <2>1. UNCHANGED <<sector, usb, bio>>
    BY <1>5, ToldWelcome DEF vars, bioVars
  <2>2. ~BioFails
    BY <1>5 DEF AcceptTold, Accept, D!MoveHead, BioFails, BioFailsAs, SubmitFails,
                HostInv, LinkInv
  <2> QED
    BY <1>1, <2>1, <2>2 DEF NoneGivenUp
<1>6. CASE ThreadStep \/ FlushStarts \/ (FlushStep /\ ~AddPage)
  <2>1. UNCHANGED <<sector, usb, bio>>
    <3>1. ThreadStep => UNCHANGED bioVars
      BY DEF ThreadStep, Producer, Produce, LogEnd, LockProducer, MakeSpace, CopyEvent,
             CopyTo, PublishHead, Publish, WaitFlushed
    <3>2. FlushStarts => UNCHANGED <<sector, usb, bio>>
      BY DEF FlushStarts, Snapshot
    <3>3. FlushStep /\ ~AddPage => UNCHANGED <<sector, usb, bio>>
      BY DEF FlushStep, SubmitDone, AdvanceTail, FlushOver, bioVars
    <3> QED
      BY <1>6, <3>1, <3>2, <3>3 DEF bioVars
  <2>2. ~BioFails \/ UNCHANGED <<sector, usb, bio>>
    BY <2>1
  <2>3. BioFails => bio' # bio
    BY DEF BioFails, BioFailsAs, SubmitFails
  <2> QED
    BY <1>1, <2>1, <2>3 DEF NoneGivenUp
<1>7. CASE SendCommand \/ SendPage \/ FillBuffer \/ GadgetStep \/ AcceptMore
           \/ AcceptInterrupted \/ Abandon \/ DeviceFlush \/ ReaderStep \/ ServeRead
           \/ UNCHANGED pvars
  <2>1. UNCHANGED <<sector, usb, bio>>
    BY <1>7 DEF SendCommand, SendPage, FillBuffer, GadgetStep, AcceptMore,
                AcceptInterrupted, Abandon, DeviceFlush, ReaderStep, ServeRead, pvars,
                vars, bioVars
  <2>2. BioFails => bio' # bio
    BY DEF BioFails, BioFailsAs, SubmitFails
  <2> QED
    BY <1>1, <2>1, <2>2 DEF NoneGivenUp
<1>8. AcceptTold => link \in {"welcome", "busy"}
  BY DEF AcceptTold
<1> QED
  BY <1>2, <1>3, <1>4, <1>5, <1>6, <1>7, <1>8 DEF PNext, Gadget, FlushStep

(* Where the pages of the host's stream are, if none was given up. *)
LEMMA AckedPlaces ==
    ASSUME HostInv, ReceivedAcked, resends = 0, NoneGivenUp
    PROVE  /\ Len(received) = welcomed + Len(usb) * PAGE + begun
           /\ \A p \in 1..welcomed : received[p] = Greeting
           /\ \A i \in 1..Len(usb), k \in 1..PAGE :
                  received[welcomed + (i - 1) * PAGE + k] = usb[i][k]
           /\ \A p \in 0..(begun - 1) :
                  received[welcomed + (Len(usb) + 1 - 1) * PAGE + p + 1] = Byte(p)
  BY DEF ReceivedAcked

(* After a step, what was taken of the command ends the stream. *)
LEMMA StreamEnd ==
    ASSUME StreamInv', CommandInv', NEW B \in Nat,
           Len(received') = welcomed' + B + begun', NEW p \in 0..(begun' - 1)
    PROVE  received'[welcomed' + B + p + 1] = Byte(p)'
<1>1. taken' \in Nat /\ WELCOME \in Nat
  BY PipelineAssumption DEF CommandInv
<1>2. begun' \in Nat /\ welcomed' \in Nat
  BY <1>1 DEF begun, welcomed
<1>3. p \in Nat /\ begun' # 0
  <2>1. \A b \in Nat : p \in 0..(b - 1) => p \in Nat /\ b # 0
    OBVIOUS
  <2> QED
    BY <1>2, <2>1
<1>4. link' # "welcome" /\ begun' = taken'
  BY <1>3 DEF begun
<1>5. received'[Len(received') - taken' + p + 1] = Byte(p)'
  BY <1>4 DEF StreamInv
<1>6. Len(received') - taken' + p + 1 = welcomed' + B + p + 1
  BY <1>1, <1>2, <1>3, <1>4
<1> QED
  BY <1>5, <1>6

(* So it is enough to count what was received and to find the pages. *)
LEMMA AckedFrom ==
    ASSUME StreamInv', CommandInv', Len(usb') \in Nat,
           Len(received') = welcomed' + Len(usb') * PAGE + begun',
           \A p \in 1..welcomed' : received'[p] = Greeting,
           \A i \in 1..Len(usb'), k \in 1..PAGE :
               received'[welcomed' + (i - 1) * PAGE + k] = usb'[i][k]
    PROVE  ReceivedAcked'
<1>1. ASSUME NEW p \in 0..(begun' - 1)
      PROVE  received'[welcomed' + (Len(usb') + 1 - 1) * PAGE + p + 1] = Byte(p)'
  <2>1. Len(usb') * PAGE \in Nat /\ Len(usb') + 1 - 1 = Len(usb')
    BY PageBytes
  <2> QED
    BY <2>1, StreamEnd
<1> QED
  BY <1>1 DEF ReceivedAcked

(* A transfer of the welcome is received as such. *)
LEMMA GreetingAccepted ==
    ASSUME HostInv, StreamInv, ReceivedAcked, resends = 0, NoneGivenUp,
           Accept, link = "welcome"
    PROVE  /\ Len(received') = taken + damount /\ Len(usb) = 0
           /\ \A p \in 1..(taken + damount) : received'[p] = Greeting
<1>1. /\ taken \in Nat /\ damount \in Nat /\ Len(usb) = 0
  BY EmptySeq DEF HostInv, LinkInv, CommandInv
<1>2. Len(received) = taken
  <2>1. welcomed = taken /\ begun = 0 /\ 0 * PAGE = 0
    BY PageSizes DEF welcomed, begun
  <2>2. Len(received) = welcomed + Len(usb) * PAGE + begun
    BY AckedPlaces
  <2> QED
    BY <1>1, <2>1, <2>2
<1>3. /\ Len(received') = Len(received) + damount
      /\ \A p \in 0..(taken + damount - 1) :
             received'[Len(received') - (taken + damount) + p + 1] = Byte(p)
  BY AcceptBytes
<1>4. ASSUME NEW p \in 1..(taken + damount) PROVE received'[p] = Greeting
  <2> DEFINE x == p - 1
  <2>1. x \in 0..(taken + damount - 1)
    BY <1>1
  <2>2. Len(received') - (taken + damount) + x + 1 = p
    BY <1>1, <1>2, <1>3
  <2> HIDE DEF x
  <2>3. received'[p] = Byte(x)
    BY <1>3, <2>1, <2>2
  <2> QED
    BY <2>3 DEF Byte
<1> QED
  BY <1>1, <1>2, <1>3, <1>4

(* The places of the pages do not change. *)
LEMMA PlacesStay ==
    ASSUME HostInv, StreamInv, ReceivedAcked, resends = 0, NoneGivenUp, link # "welcome",
           \A i \in 1..Len(received) : received'[i] = received[i]
    PROVE  /\ Len(received) = WELCOME + Len(usb) * PAGE + taken
           /\ \A p \in 1..WELCOME : received'[p] = Greeting
           /\ \A i \in 1..Len(usb), k \in 1..PAGE :
                  received'[WELCOME + (i - 1) * PAGE + k] = usb[i][k]
<1>1. taken \in Nat /\ usb \in Seq(Page) /\ WELCOME \in Nat /\ PAGE \in Nat
  BY PipelineAssumption, PageSizes DEF HostInv, LinkInv, CommandInv, TypeOK
<1>2. Len(usb) \in Nat /\ Len(usb) * PAGE \in Nat
  BY <1>1, LenProperties, PageBytes
<1>3. welcomed = WELCOME /\ begun = taken
  BY DEF welcomed, begun
<1>4. /\ Len(received) = WELCOME + Len(usb) * PAGE + taken
      /\ \A p \in 1..WELCOME : received[p] = Greeting
      /\ \A i \in 1..Len(usb), k \in 1..PAGE :
             received[WELCOME + (i - 1) * PAGE + k] = usb[i][k]
  BY <1>3, AckedPlaces
<1>5. ASSUME NEW p \in 1..WELCOME PROVE received'[p] = Greeting
  <2>1. p \in 1..Len(received)
    BY <1>1, <1>2, <1>4
  <2> QED
    BY <1>4, <2>1
<1>6. ASSUME NEW i \in 1..Len(usb), NEW k \in 1..PAGE
      PROVE  received'[WELCOME + (i - 1) * PAGE + k] = usb[i][k]
  <2>1. i - 1 \in Nat /\ i - 1 \in Int /\ Len(usb) \in Int /\ i - 1 < Len(usb)
    BY <1>2
  <2>2. (i - 1) * PAGE \in Nat /\ (i - 1) * PAGE + PAGE <= Len(usb) * PAGE
    BY <2>1, PagesApart, PageBytes
  <2> DEFINE x == (i - 1) * PAGE
             B == Len(usb) * PAGE
  <2>3. /\ x \in Nat /\ B \in Nat /\ x + PAGE <= B /\ Len(received) = WELCOME + B + taken
        /\ taken \in Nat /\ WELCOME \in Nat /\ PAGE \in Nat
    BY <1>1, <1>2, <1>4, <2>2
  <2> HIDE DEF x, B
  <2>4. WELCOME + x + k \in 1..Len(received)
    BY <2>3
  <2> QED
    BY <1>4, <2>4 DEF x
<1> QED
  BY <1>4, <1>5, <1>6

(* The pages that the host is told of are received at their places. *)
LEMMA ToldPlaces ==
    ASSUME HostInv, StreamInv, ReceivedAcked, resends = 0, NoneGivenUp,
           AcceptTold, link = "busy"
    PROVE  /\ Len(received') = WELCOME + Len(usb') * PAGE
           /\ \A i \in 1..Len(usb'), k \in 1..PAGE :
                  received'[WELCOME + (i - 1) * PAGE + k] = usb'[i][k]
<1>1. Accept /\ Last /\ Told
  BY DEF AcceptTold
<1> DEFINE L == Len(usb)
           P == Len(pages)
           B == L * PAGE
<1>2. /\ Len(received') = Len(received) + damount
      /\ \A i \in 1..Len(received) : received'[i] = received[i]
      /\ \A p \in 0..(taken + damount - 1) :
             received'[Len(received') - (taken + damount) + p + 1] = Byte(p)
  BY <1>1, AcceptBytes
<1>3. /\ Len(received) = WELCOME + B + taken
      /\ \A i \in 1..L, k \in 1..PAGE : received'[WELCOME + (i - 1) * PAGE + k] = usb[i][k]
  BY <1>2, PlacesStay
<1>4. /\ P \in Nat /\ taken + damount = P * PAGE /\ P * PAGE \in Nat
      /\ \A m \in 1..P, k \in 1..PAGE :
             /\ (m - 1) * PAGE + k - 1 \in 0..(P * PAGE - 1)
             /\ Byte((m - 1) * PAGE + k - 1) = pages[m][k]
  BY <1>1, CommandBytes DEF Last
<1>5. /\ usb \in Seq(Page) /\ pages \in Seq(Page) /\ taken \in Nat /\ damount \in Nat
      /\ WELCOME \in Nat /\ PAGE \in Nat
  BY PipelineAssumption, PageSizes DEF HostInv, LinkInv, CommandInv, TypeOK
<1>6. L \in Nat /\ B \in Nat
  BY <1>5, LenProperties, PageBytes
<1>7. /\ Len(usb') = L + P
      /\ \A m \in 1..(L + P) : usb'[m] = IF m <= L THEN usb[m] ELSE pages[m - L]
  BY <1>1, <1>5, ConcatProperties DEF Told
<1> DEFINE C == P * PAGE
<1>8. (L + P) * PAGE = B + C /\ C \in Nat
  BY <1>4, <1>5, <1>6
<1>9. Len(received') - (taken + damount) = WELCOME + B /\ Len(received') = WELCOME + B + C
  <2>1. /\ Len(received') = Len(received) + damount /\ Len(received) = WELCOME + B + taken
        /\ taken + damount = C
    BY <1>2, <1>3, <1>4
  <2>2. taken \in Nat /\ damount \in Nat /\ WELCOME \in Nat /\ B \in Nat
    BY <1>5, <1>6
  <2> HIDE DEF B, C
  <2> QED
    BY <2>1, <2>2
<1> HIDE DEF L, P, B
<1>10. ASSUME NEW m \in 1..P, NEW k \in 1..PAGE
       PROVE  received'[WELCOME + B + ((m - 1) * PAGE + k - 1) + 1] = pages[m][k]
  <2> DEFINE p == (m - 1) * PAGE + k - 1
  <2>1. p \in 0..(P * PAGE - 1) /\ Byte(p) = pages[m][k]
    BY <1>4
  <2> HIDE DEF p
  <2>2. p \in 0..(taken + damount - 1)
    <3>1. p \in 0..(C - 1)
      BY <2>1
    <3>2. taken + damount = C
      BY <1>4
    <3> HIDE DEF C
    <3>3. taken \in Nat /\ damount \in Nat
      BY <1>5
    <3> QED
      BY <3>1, <3>2, <3>3
  <2>3. received'[Len(received') - (taken + damount) + p + 1] = Byte(p)
    BY <1>2, <2>2
  <2>4. received'[WELCOME + B + p + 1] = pages[m][k]
    BY <1>9, <2>1, <2>3
  <2> QED
    BY <2>4 DEF p
<1>11. ASSUME NEW i \in 1..(L + P), NEW k \in 1..PAGE
       PROVE  received'[WELCOME + (i - 1) * PAGE + k] = usb'[i][k]
  <2>1. CASE i <= L
    <3>1. i \in 1..L /\ usb'[i] = usb[i]
      BY <1>4, <1>6, <1>7, <2>1
    <3> QED
      BY <1>3, <3>1
  <2>2. CASE ~(i <= L)
    <3> DEFINE q == i - L - 1
    <3>1. q \in Nat /\ (q + 1) \in 1..P /\ usb'[i] = pages[q + 1] /\ i - 1 = L + q
      <4>1. P \in Nat /\ L \in Nat
        BY <1>4, <1>6
      <4>2. i - L \in 1..P /\ i - L = q + 1 /\ q \in Nat /\ i - 1 = L + q
        BY <2>2, <4>1
      <4>3. usb'[i] = pages[i - L]
        BY <1>7, <2>2
      <4> QED
        BY <4>2, <4>3
    <3> HIDE DEF q
    <3>2. (L + q) * PAGE = B + q * PAGE /\ q * PAGE \in Nat
      <4>1. L \in Nat /\ q \in Nat /\ PAGE \in Nat
        BY <1>5, <1>6, <3>1
      <4> QED
        BY <4>1 DEF B
    <3>3. received'[WELCOME + B + (((q + 1) - 1) * PAGE + k - 1) + 1] = pages[q + 1][k]
      BY <1>10, <3>1
    <3>4. (q + 1) - 1 = q
      BY <3>1
    <3>5. WELCOME + B + (q * PAGE + k - 1) + 1 = WELCOME + (L + q) * PAGE + k
      <4> DEFINE y == q * PAGE
      <4>1. y \in Nat /\ (L + q) * PAGE = B + y /\ B \in Nat /\ WELCOME \in Nat
        BY <1>5, <1>6, <3>2
      <4> HIDE DEF y
      <4>2. WELCOME + B + (y + k - 1) + 1 = WELCOME + (B + y) + k
        BY <4>1
      <4> QED
        BY <4>1, <4>2 DEF y
    <3> QED
      BY <3>1, <3>3, <3>4, <3>5
  <2> QED
    BY <2>1, <2>2
<1>12. Len(received') = WELCOME + Len(usb') * PAGE
  <2>1. Len(usb') = L + P /\ Len(received') = WELCOME + B + C
        /\ B \in Nat /\ C \in Nat /\ WELCOME \in Nat
    BY <1>5, <1>6, <1>7, <1>8, <1>9
  <2> HIDE DEF C
  <2> QED
    BY <1>8, <2>1
<1> QED
  BY <1>7, <1>11, <1>12

LEMMA ReceivedStep ==
    ASSUME HostInv, StreamInv, GivenInv, [PNext]_pvars, resends' = 0, NoneGivenUp'
    PROVE  ReceivedAcked'
<1>1. /\ NoneGivenUp /\ ~BioFails /\ link # "given" /\ ReceivedAcked
      /\ HostInv' /\ StreamInv'
  <2>1. NoneGivenUp /\ ~BioFails
    BY GapStep DEF GivenInv
  <2> QED
    BY <2>1, HostInvStep, StreamStep DEF GivenInv
<1>2. /\ CommandInv' /\ Len(usb) \in Nat /\ Len(usb') \in Nat
      /\ taken \in Nat /\ damount \in Nat
      /\ WELCOME \in Nat /\ PAGE \in Nat /\ Len(usb) * PAGE \in Nat
      /\ link = "welcome" => usb = <<>> /\ due = WELCOME
      /\ link' = "welcome" => usb' = <<>>
      /\ link \in {"welcome", "free", "busy"}
  <2>1. usb \in Seq(Page) /\ usb' \in Seq(Page)
    BY <1>1 DEF HostInv, TypeOK
  <2>2. Len(usb) \in Nat /\ Len(usb') \in Nat
    BY <2>1, LenProperties
  <2>3. WELCOME \in Nat /\ PAGE \in Nat /\ Len(usb) * PAGE \in Nat
    BY <2>2, PipelineAssumption, PageSizes, PageBytes
  <2>4. CommandInv' /\ (link' = "welcome" => usb' = <<>>)
    BY <1>1 DEF HostInv, LinkInv
  <2>5. taken \in Nat /\ damount \in Nat /\ (link = "welcome" => usb = <<>> /\ due = WELCOME)
        /\ link \in {"welcome", "free", "busy"}
    BY <1>1 DEF HostInv, LinkInv, CommandInv
  <2> QED
    BY <2>2, <2>3, <2>4, <2>5
<1>3. resends = 0 \/ AcceptInterrupted
  BY DEF PNext, ThreadStep, FlushStarts, FlushStep, BioFails, BioFailsAs, SendCommand,
         SendPage, Gadget, FillBuffer, GadgetStep, AcceptMore, AcceptTold, Abandon,
         DeviceFlush, ReaderStep, ServeRead, pvars, linkVars
<1>4. resends = 0 /\ ~AcceptInterrupted
  <2>1. AcceptInterrupted => resends' = resends + 1 /\ resends \in Nat
    BY PipelineAssumption DEF AcceptInterrupted, GivenInv
  <2> QED
    BY <1>3, <2>1
<1>5. ASSUME UNCHANGED <<received, usb, taken>>, (link' = "welcome") <=> (link = "welcome")
      PROVE  ReceivedAcked'
  <2>1. welcomed' = welcomed /\ begun' = begun
    BY <1>5 DEF welcomed, begun
  <2>2. /\ Len(received) = welcomed + Len(usb) * PAGE + begun
        /\ \A p \in 1..welcomed : received[p] = Greeting
        /\ \A i \in 1..Len(usb), k \in 1..PAGE :
               received[welcomed + (i - 1) * PAGE + k] = usb[i][k]
    BY <1>1, <1>4, AckedPlaces
  <2>3. /\ Len(received') = welcomed' + Len(usb') * PAGE + begun'
        /\ \A p \in 1..welcomed' : received'[p] = Greeting
        /\ \A i \in 1..Len(usb'), k \in 1..PAGE :
               received'[welcomed' + (i - 1) * PAGE + k] = usb'[i][k]
    BY <1>5, <2>1, <2>2
  <2> QED
    BY <1>1, <1>2, <2>3, AckedFrom
<1>6. CASE AcceptMore /\ link = "welcome"
  <2>1. Accept /\ taken' = taken + damount /\ link' = "welcome"
    BY <1>6 DEF AcceptMore
  <2>2. /\ Len(received') = taken' /\ Len(usb') = 0
        /\ \A p \in 1..taken' : received'[p] = Greeting
    BY <1>1, <1>2, <1>4, <1>6, <2>1, GreetingAccepted, EmptySeq
  <2>3. welcomed' = taken' /\ begun' = 0 /\ 0 * PAGE = 0
    BY <1>2, <2>1 DEF welcomed, begun
  <2>4. Len(received') = welcomed' + Len(usb') * PAGE + begun'
    BY <1>2, <2>1, <2>2, <2>3
  <2>5. 1..Len(usb') = {}
    BY <2>2
  <2> QED
    BY <1>1, <1>2, <2>2, <2>3, <2>4, <2>5, AckedFrom
<1>7. CASE AcceptTold /\ link = "welcome"
  <2>1. Accept /\ Last /\ taken' = 0 /\ link' = "free" /\ taken + damount = WELCOME
    BY <1>2, <1>7 DEF AcceptTold, Over, Last
  <2>2. /\ Len(received') = WELCOME /\ Len(usb') = 0
        /\ \A p \in 1..WELCOME : received'[p] = Greeting
    <3>1. /\ Len(received') = WELCOME /\ Len(usb) = 0
          /\ \A p \in 1..WELCOME : received'[p] = Greeting
      BY <1>1, <1>4, <1>7, <2>1, GreetingAccepted
    <3>2. usb' = usb
      BY <1>7, ToldWelcome DEF vars, bioVars
    <3> QED
      BY <3>1, <3>2
  <2>3. welcomed' = WELCOME /\ begun' = 0 /\ 0 * PAGE = 0
    BY <1>2, <2>1 DEF welcomed, begun
  <2>4. Len(received') = welcomed' + Len(usb') * PAGE + begun'
    BY <1>2, <2>2, <2>3
  <2>5. 1..Len(usb') = {}
    BY <2>2
  <2> QED
    BY <1>1, <1>2, <2>2, <2>3, <2>4, <2>5, AckedFrom
<1>8. CASE (AcceptMore \/ AcceptTold) /\ link # "welcome"
  <2>1. Accept /\ link # "free" /\ link' # "welcome"
    <3>1. Accept /\ link' \in {link, "free"}
      BY <1>8 DEF AcceptMore, AcceptTold, Over
    <3>2. drpc = "publish"
      BY <3>1 DEF Accept, D!MoveHead
    <3> QED
      BY <1>8, <3>1, <3>2 DEF HostInv, LinkInv
  <2>2. Len(received') = Len(received) + damount
        /\ \A i \in 1..Len(received) : received'[i] = received[i]
    BY <2>1, AcceptBytes
  <2>3. /\ Len(received) = WELCOME + Len(usb) * PAGE + taken
        /\ \A p \in 1..WELCOME : received'[p] = Greeting
        /\ \A i \in 1..Len(usb), k \in 1..PAGE :
               received'[WELCOME + (i - 1) * PAGE + k] = usb[i][k]
    BY <1>1, <1>4, <1>8, <2>2, PlacesStay
  <2>4. welcomed' = WELCOME /\ begun' = taken'
    BY <2>1 DEF welcomed, begun
  <2>5. /\ Len(received') = WELCOME + Len(usb') * PAGE + taken'
        /\ \A i \in 1..Len(usb'), k \in 1..PAGE :
               received'[WELCOME + (i - 1) * PAGE + k] = usb'[i][k]
    <3>1. CASE AcceptMore
      <4>1. usb' = usb /\ taken' = taken + damount
        BY <3>1 DEF AcceptMore, vars, bioVars
      <4>2. Len(received') = WELCOME + Len(usb) * PAGE + taken'
        <5> DEFINE B == Len(usb) * PAGE
        <5>1. /\ Len(received') = Len(received) + damount
              /\ Len(received) = WELCOME + B + taken
          BY <2>2, <2>3
        <5>2. B \in Nat /\ WELCOME \in Nat /\ taken \in Nat /\ damount \in Nat
          BY <1>2
        <5> HIDE DEF B
        <5>3. Len(received') = WELCOME + B + taken'
          BY <4>1, <5>1, <5>2
        <5> QED
          BY <5>3 DEF B
      <4> QED
        BY <2>3, <4>1, <4>2
    <3>2. CASE AcceptTold
      <4>1. link = "busy" /\ taken' = 0
        BY <1>8, <3>2 DEF AcceptTold, Over
      <4>2. /\ Len(received') = WELCOME + Len(usb') * PAGE
            /\ \A i \in 1..Len(usb'), k \in 1..PAGE :
                   received'[WELCOME + (i - 1) * PAGE + k] = usb'[i][k]
        BY <1>1, <1>4, <3>2, <4>1, ToldPlaces
      <4>3. Len(usb') * PAGE \in Nat
        BY <1>2, PageBytes
      <4>4. Len(received') = WELCOME + Len(usb') * PAGE + taken'
        <5> DEFINE B == Len(usb') * PAGE
        <5>1. Len(received') = WELCOME + B /\ B \in Nat /\ WELCOME \in Nat
          BY <1>2, <4>2, <4>3
        <5> HIDE DEF B
        <5>2. Len(received') = WELCOME + B + taken'
          BY <4>1, <5>1
        <5> QED
          BY <5>2 DEF B
      <4> QED
        BY <4>2, <4>4
    <3> QED
      BY <1>8, <3>1, <3>2
  <2> QED
    BY <1>1, <1>2, <2>3, <2>4, <2>5, AckedFrom
<1>9. CASE Abandon
  BY <1>1, <1>9 DEF Abandon
<1>10. CASE SendCommand
  <2>1. UNCHANGED <<received, taken, usb>> /\ link = "free" /\ link' = "busy"
    BY <1>10 DEF SendCommand, vars, bioVars
  <2> QED
    BY <1>5, <2>1
<1>11. CASE ThreadStep \/ FlushStarts \/ FlushStep \/ SendPage \/ FillBuffer \/ GadgetStep
            \/ DeviceFlush \/ ReaderStep \/ ServeRead \/ UNCHANGED pvars
  <2>1. UNCHANGED <<received, taken, link>>
    BY <1>11 DEF ThreadStep, FlushStarts, FlushStep, SendPage, FillBuffer, GadgetStep,
                 DeviceFlush, ReaderStep, ServeRead, pvars, linkVars, command
  <2>2. CASE AcceptTold
    BY <1>6, <1>7, <1>8, <2>2
  <2>3. CASE ~AcceptTold
    <3>1. usb' = usb
      BY <2>3, UsbStep
    <3> QED
      BY <1>5, <2>1, <3>1
  <2> QED
    BY <2>2, <2>3
<1> QED
  BY <1>1, <1>4, <1>6, <1>7, <1>8, <1>9, <1>10, <1>11 DEF PNext, Gadget

LEMMA GivenStep == ASSUME HostInv, StreamInv, GivenInv, [PNext]_pvars PROVE GivenInv'
<1>1. sector' >= Len(usb') + Len(bio') /\ (NoneGivenUp' => NoneGivenUp)
      /\ (BioFails => ~NoneGivenUp')
  BY GapStep DEF GivenInv
<1>2. link' = "given" => ~NoneGivenUp'
  <2>1. BioFails \/ (link' = "given" => link = "given")
    <3>1. ThreadStep \/ FlushStarts \/ FlushStep \/ SendPage \/ FillBuffer \/ GadgetStep
             \/ AcceptMore \/ DeviceFlush \/ ReaderStep \/ ServeRead \/ UNCHANGED pvars
             => link' = link
      BY DEF ThreadStep, FlushStarts, FlushStep, SendPage, FillBuffer, GadgetStep,
             AcceptMore, DeviceFlush, ReaderStep, ServeRead, pvars, linkVars, command
    <3>2. SendCommand \/ AcceptTold \/ AcceptInterrupted \/ Abandon => link' # "given"
      BY DEF SendCommand, AcceptTold, AcceptInterrupted, Abandon, Over
    <3> QED
      BY <3>1, <3>2 DEF PNext, Gadget
  <2> QED
    BY <1>1, <2>1 DEF GivenInv
<1>3. resends' \in 0..MaxResends
  <2>1. resends' = resends \/ (resends < MaxResends /\ resends' = resends + 1)
    BY DEF PNext, ThreadStep, FlushStarts, FlushStep, BioFails, BioFailsAs, SendCommand,
           SendPage, Gadget, FillBuffer, GadgetStep, AcceptMore, AcceptTold,
           AcceptInterrupted, Abandon, DeviceFlush, ReaderStep, ServeRead, pvars, linkVars
  <2> QED
    BY <2>1, PipelineAssumption DEF GivenInv
<1>4. ReceivedAcked'
  <2>1. CASE resends' = 0 /\ NoneGivenUp'
    BY <2>1, ReceivedStep
  <2>2. CASE ~(resends' = 0 /\ NoneGivenUp')
    BY <2>2 DEF ReceivedAcked
  <2> QED
    BY <2>1, <2>2
<1> QED
  BY <1>1, <1>2, <1>3, <1>4 DEF GivenInv

LEMMA GivenInvariance == PSpec => []GivenInv
<1>1. PInit => GivenInv
  <2> SUFFICES ASSUME PInit PROVE GivenInv
    OBVIOUS
  <2>1. /\ usb = <<>> /\ bio = <<>> /\ sector = 0 /\ received = <<>> /\ taken = 0
        /\ resends = 0 /\ link = "welcome"
    BY DEF PInit, Init
  <2>2. /\ Len(usb) = 0 /\ Len(bio) = 0 /\ Len(received) = 0 /\ 0 * PAGE = 0
        /\ 0 \in 0..MaxResends
    BY <2>1, EmptySeq, PageSizes, PipelineAssumption
  <2>3. welcomed = 0 /\ begun = 0
    BY <2>1 DEF welcomed, begun
  <2>4. /\ Len(received) = welcomed + Len(usb) * PAGE + begun
        /\ 1..welcomed = {} /\ 1..Len(usb) = {} /\ 0..(begun - 1) = {}
    BY <2>2, <2>3
  <2>5. ReceivedAcked
    BY <2>4 DEF ReceivedAcked
  <2> QED
    BY <2>1, <2>2, <2>5 DEF GivenInv
<1> QED
  BY <1>1, GivenStep, HostInvariance, StreamInvariance, PTL DEF PSpec

(* Without a resend and without a bio that is given up the gadget's stream  *)
(* is the welcome, the host's pages and the beginning of the command on the *)
(* link, byte by byte.                                                      *)
THEOREM ReceivedIsAcked == PSpec => []ReceivedAcked
<1>1. GivenInv => ReceivedAcked
  BY DEF GivenInv
<1> QED
  BY <1>1, GivenInvariance, PTL
-----------------------------------------------------------------------------
(* The reader of an answer. *)

(* What is left and what was read make up what the client asked for.        *)
ReaderInv ==
    /\ rpc \in {"idle", "test", "submitted"}
    /\ hrsp_size \in {0} \cup Sizes /\ size \in 0..hrsp_size
    /\ sectors \in Nat /\ copied \in BOOLEAN
    /\ rpc # "idle" => ~copied /\ hrsp_size = size + sectors * SECTOR
                       /\ (sectors = 0 \/ size > 0)
    /\ ReadCovers

(* A read that was submitted before the flush began is the one of OneReadAhead. *)
AheadInv ==
    /\ reads \in Nat
    /\ hardlog_logging => reads <= 1 /\ (rpc = "submitted" => reads = 0)

(* One sector more. *)
LEMMA Sectors == ASSUME NEW n \in Nat PROVE /\ n * SECTOR \in Nat /\ 0 * SECTOR = 0
                                            /\ (n + 1) * SECTOR = n * SECTOR + SECTOR
  BY PipelineAssumption

(* The reader's steps keep ReaderInv. *)
LEMMA ReaderInvStep ==
    ASSUME ReaderInv, [PNext]_pvars
    PROVE  ReaderInv'
<1>1. /\ SECTOR \in Nat /\ SECTOR > 0 /\ Sizes \subseteq Nat
      /\ hrsp_size \in Nat /\ size \in Nat /\ size <= hrsp_size /\ sectors \in Nat
  BY PipelineAssumption DEF ReaderInv
<1>2. CASE ReaderStep /\ R!Ask
  <2>1. /\ rpc' = "test" /\ sectors' = 0 /\ copied' = FALSE
        /\ hrsp_size' \in Sizes /\ size' = hrsp_size'
    BY <1>2 DEF R!Ask
  <2>2. sectors' * SECTOR = 0
    BY <2>1, Sectors
  <2>3. PICK n \in Nat : n \in Sizes /\ hrsp_size' = n /\ size' = n
    BY <1>1, <2>1
  <2>4. n \in 0..n /\ n = n + 0
    OBVIOUS
  <2> QED
    BY <2>1, <2>2, <2>3, <2>4 DEF ReaderInv, ReadCovers
<1>3. CASE ReaderStep /\ (R!Submit \/ R!Fail)
  <2>1. /\ rpc \in {"test", "submitted"} /\ rpc' \in {"submitted", "idle"}
        /\ UNCHANGED <<hrsp_size, size, sectors, copied>>
    BY <1>3 DEF R!Submit, R!Fail
  <2> QED
    BY <2>1 DEF ReaderInv, ReadCovers
<1>4. CASE ServeRead
  <2>1. /\ rpc = "submitted" /\ sectors' = sectors + 1 /\ hrsp_size' = hrsp_size
        /\ IF size <= SECTOR THEN rpc' = "idle" /\ copied' = TRUE /\ size' = size
           ELSE rpc' = "test" /\ size' = size - SECTOR /\ copied' = copied
    BY <1>4 DEF ServeRead, R!Serve, R!ServeThen
  <2>2. /\ hrsp_size = size + sectors * SECTOR /\ (sectors = 0 \/ size > 0) /\ ~copied
        /\ hrsp_size \in {0} \cup Sizes
    BY <2>1 DEF ReaderInv
  <2>3. PICK read \in Nat : read = sectors * SECTOR /\ sectors' * SECTOR = read + SECTOR
    BY <1>1, <2>1, Sectors
  <2>4. sectors' \in Nat /\ sectors' - 1 = sectors /\ sectors' >= 1
    BY <1>1, <2>1
  <2>5. CASE size <= SECTOR
    <3>1. rpc' = "idle" /\ copied' = TRUE /\ size' = size
      BY <2>1, <2>5
    <3>2. sectors' * SECTOR >= hrsp_size' /\ size' \in 0..hrsp_size'
      BY <1>1, <2>1, <2>2, <2>3, <2>5, <3>1
    <3>3. (sectors' - 1) * SECTOR < hrsp_size' \/ sectors' = 1
      <4>1. sectors = 0 => sectors' = 1
        BY <2>1
      <4>2. size > 0 => read < hrsp_size
        BY <1>1, <2>2, <2>3
      <4> QED
        BY <2>1, <2>2, <2>3, <2>4, <4>1, <4>2
    <3> QED
      BY <2>1, <2>2, <2>4, <3>1, <3>2, <3>3 DEF ReaderInv, ReadCovers
  <2>6. CASE ~(size <= SECTOR)
    <3>1. rpc' = "test" /\ copied' = FALSE /\ size' = size - SECTOR
      BY <2>1, <2>2, <2>6
    <3>2. /\ size' \in 0..hrsp_size' /\ size' > 0
          /\ hrsp_size' = size' + sectors' * SECTOR
      BY <1>1, <2>1, <2>2, <2>3, <2>6, <3>1
    <3> QED
      BY <2>1, <2>2, <2>4, <3>1, <3>2 DEF ReaderInv, ReadCovers
  <2> QED
    BY <2>5, <2>6
<1>5. CASE UNCHANGED rvars
  BY <1>5 DEF rvars, ReaderInv, ReadCovers
<1>6. PNext => ReaderStep \/ ServeRead \/ UNCHANGED rvars
  BY DEF PNext, Gadget, ThreadStep, FlushStarts, FlushStep, BioFails, BioFailsAs,
         SendCommand, SendPage, FillBuffer, GadgetStep, AcceptMore, AcceptTold,
         AcceptInterrupted, Abandon, Accept, DeviceFlush
<1>7. UNCHANGED pvars => UNCHANGED rvars
  BY DEF pvars
<1> QED
  BY <1>2, <1>3, <1>4, <1>5, <1>6, <1>7 DEF ReaderStep

(* The reader's variables are what they should be. *)
THEOREM ReaderInvariance == PSpec => []ReaderInv
<1>1. PInit => ReaderInv
  <2> SUFFICES ASSUME PInit PROVE ReaderInv
    OBVIOUS
  <2>1. rpc = "idle" /\ hrsp_size = 0 /\ size = 0 /\ sectors = 0 /\ copied = FALSE
    BY DEF PInit, R!Init
  <2>2. size \in 0..hrsp_size
    BY <2>1
  <2> QED
    BY <2>1, <2>2 DEF ReaderInv, ReadCovers
<1> QED
  BY <1>1, ReaderInvStep, PTL DEF PSpec

(* A read that ends without an error covered what was asked for.            *)
THEOREM ReadsCover == PSpec => []ReadCovers
<1>1. ReaderInv => ReadCovers
  BY DEF ReaderInv
<1> QED
  BY <1>1, ReaderInvariance, PTL

(* A flush waits for one sector of an answer at most: the one whose read    *)
(* was submitted before the flag was set.                                   *)
THEOREM OneSectorAhead == PSpec => [](reads \in Nat /\ OneReadAhead)
<1>1. PInit => AheadInv
  BY DEF PInit, AheadInv
<1>2. AheadInv /\ [PNext]_pvars => AheadInv'
  <2> SUFFICES ASSUME AheadInv, [PNext]_pvars PROVE AheadInv'
    OBVIOUS
  <2>1. CASE FlushStarts
    BY <2>1 DEF FlushStarts, AheadInv
  <2>2. CASE ServeRead
    <3>1. /\ rpc = "submitted" /\ rpc' # "submitted" /\ hardlog_logging' = hardlog_logging
          /\ reads' = IF hardlog_logging THEN reads + 1 ELSE 0
      BY <2>2 DEF ServeRead, R!Serve, R!ServeThen
    <3> QED
      BY <3>1 DEF AheadInv
  <2>3. CASE ReaderStep
    <3>1. /\ UNCHANGED <<hardlog_logging, reads>>
          /\ rpc' = "submitted" => ~hardlog_logging
      BY <2>3 DEF ReaderStep, R!Ask, R!Submit, R!Fail
    <3> QED
      BY <3>1 DEF AheadInv
  <2>4. CASE ThreadStep \/ FlushStep \/ BioFails \/ SendCommand \/ SendPage \/ Gadget
             \/ DeviceFlush \/ UNCHANGED pvars
    <3>1. UNCHANGED <<rpc, reads>>
      BY <2>4 DEF ThreadStep, FlushStep, BioFails, BioFailsAs, SendCommand, SendPage,
                  Gadget, FillBuffer, GadgetStep, AcceptMore, AcceptTold, AcceptInterrupted,
                  Abandon, Accept, DeviceFlush, pvars, rvars
    <3>2. hardlog_logging' => hardlog_logging
      <4>1. ThreadStep => UNCHANGED flusherVars
        BY DEF ThreadStep, Producer, Produce, LogEnd, LockProducer, MakeSpace, CopyEvent,
               CopyTo, PublishHead, Publish, WaitFlushed
      <4>2. FlushStep \/ BioFails => (hardlog_logging' => hardlog_logging)
        BY DEF FlushStep, AddPage, Chunk, SubmitDone, AdvanceTail, FlushOver, BioFails,
               BioFailsAs, SubmitFails
      <4>3. AcceptTold => UNCHANGED flusherVars
        BY DEF AcceptTold, Told
      <4>4. SendCommand \/ SendPage \/ (Gadget /\ ~AcceptTold) \/ DeviceFlush
               \/ UNCHANGED pvars => UNCHANGED flusherVars
        BY DEF SendCommand, SendPage, Gadget, FillBuffer, GadgetStep, AcceptMore,
               AcceptInterrupted, Abandon, DeviceFlush, pvars, vars
      <4>5. UNCHANGED flusherVars => (hardlog_logging' => hardlog_logging)
        BY DEF flusherVars
      <4> QED
        BY <2>4, <4>1, <4>2, <4>3, <4>4, <4>5
    <3> QED
      BY <3>1, <3>2 DEF AheadInv
  <2> QED
    BY <2>1, <2>2, <2>3, <2>4 DEF PNext
<1>3. AheadInv => reads \in Nat /\ OneReadAhead
  BY DEF AheadInv, OneReadAhead
<1> QED
  BY <1>1, <1>2, <1>3, PTL DEF PSpec

(* Every variable of the pipeline has its type. *)
THEOREM PTypeCorrect == PSpec => [](TypeOK /\ PTypeOK)
<1>1. HostInv /\ StreamInv /\ GivenInv /\ ReaderInv /\ reads \in Nat => TypeOK /\ PTypeOK
  <2> SUFFICES ASSUME HostInv, StreamInv, GivenInv, ReaderInv, reads \in Nat
               PROVE  TypeOK /\ PTypeOK
    OBVIOUS
  <2>1. /\ link \in {"welcome", "free", "busy", "given"} /\ due \in Nat
        /\ pages \in Seq(Page) /\ taken \in Nat /\ damount \in Nat
        /\ taken + damount <= sent /\ sent <= due
    BY DEF HostInv, LinkInv, CommandInv
  <2>2. sent \in Nat
    <3>1. Len(pages) \in Nat
      BY <2>1, LenProperties
    <3>2. Len(pages) * PAGE \in Nat
      BY <3>1, PageBytes
    <3> QED
      BY <2>1, <3>2 DEF sent
  <2>3. taken \in 0..due
    BY <2>1, <2>2
  <2> QED
    BY <2>1, <2>3 DEF HostInv, StreamInv, GivenInv, ReaderInv, PTypeOK
<1> QED
  BY <1>1, HostInvariance, StreamInvariance, GivenInvariance, ReaderInvariance,
     OneSectorAhead, PTL

=============================================================================
