---------------------------- MODULE HostBufProofs ----------------------------
(* Proofs about HostBuf for every number of threads, size of the ring, the  *)
(* page, the events and the bio, and every failure of the device.           *)
EXTENDS HostBufProperties, SequenceTheorems, TLAPS

(* A position's slot lies in the ring, and its page among the ring's pages. *)
LEMMA SlotInRing ==
    ASSUME NEW p \in Nat
    PROVE  /\ p % CBUFFSIZE \in 0..(CBUFFSIZE - 1)
           /\ (p % CBUFFSIZE) \div PAGE \in 0..(CBUFFSIZE \div PAGE - 1)
<1>1. p % CBUFFSIZE \in 0..(CBUFFSIZE - 1)
  BY HostBufAssumption
<1>2. ASSUME NEW y \in 0..(CBUFFSIZE - 1)
      PROVE  y \div PAGE \in 0..(CBUFFSIZE \div PAGE - 1)
  BY HostBufAssumption
<1> QED
  BY <1>1, <1>2

(* Every byte of a page of the ring has a slot. *)
LEMMA PageInRing ==
    ASSUME NEW n \in 0..(CBUFFSIZE \div PAGE - 1), NEW k \in 1..PAGE
    PROVE  n * PAGE + k - 1 \in Slots
  BY HostBufAssumption DEF Slots
-----------------------------------------------------------------------------
(* Type correctness: HostBuf starts with every variable in its type.       *)
LEMMA InitTypeOK == Init => TypeOK
<1> SUFFICES ASSUME Init PROVE TypeOK
  OBVIOUS
<1>1. bio \in Seq(Entries) /\ usb \in Seq(Page)
  BY EmptySeq DEF Init
<1>2. buffer \in [Slots -> Cells] /\ tmpbuf \in Page
  BY DEF Init, Cells, Page, Blank
<1>3. /\ pc \in [Threads -> {"idle", "lock", "space", "copy", "publish", "wait"}]
      /\ len \in [Threads -> 0..EVENTSIZE]
      /\ cbuff_head \in [Threads -> Nat]
  BY HostBufAssumption DEF Init
<1> QED
  BY <1>1, <1>2, <1>3 DEF Init, TypeOK

(* The producers keep the types. *)
LEMMA ProducerTypeOK ==
    ASSUME TypeOK, NEW t \in Threads, Producer(t)
    PROVE  TypeOK'
<1> USE HostBufAssumption DEF TypeOK, bioVars, flusherVars
<1>1. CASE LogEnd(t)
  BY <1>1 DEF LogEnd
<1>2. CASE LockProducer(t)
  BY <1>2 DEF LockProducer
<1>3. CASE MakeSpace(t)
  BY <1>3 DEF MakeSpace
<1>4. CASE CopyEvent(t)
  <2>1. buffer' \in [Slots -> Cells]
    BY <1>4 DEF CopyEvent, CopyTo, Slots, Cells
  <2> QED
    BY <1>4, <2>1 DEF CopyEvent, CopyTo
<1>5. CASE PublishHead(t)
  <2>1. len[t] \in Nat /\ head + len[t] \in Nat
    OBVIOUS
  <2>2. cbuff_head' \in [Threads -> Nat]
    BY <1>5, <2>1 DEF PublishHead, Publish
  <2>3. len' \in [Threads -> 0..EVENTSIZE]
    BY <1>5 DEF PublishHead, Publish
  <2>4. pc' \in [Threads -> {"idle", "lock", "space", "copy", "publish", "wait"}]
    BY <1>5 DEF PublishHead, Publish
  <2> QED
    BY <1>5, <2>1, <2>2, <2>3, <2>4 DEF PublishHead, Publish
<1>6. CASE WaitFlushed(t)
  BY <1>6 DEF WaitFlushed
<1> QED
  BY <1>1, <1>2, <1>3, <1>4, <1>5, <1>6 DEF Producer, Produce

(* What bio_write adds to the bio is a page of the ring or tmpbuf, and what *)
(* it copies to tmpbuf comes from the ring and its slack.                   *)
LEMMA AddPageTypeOK ==
    ASSUME TypeOK, AddPage
    PROVE  /\ bio' \in Seq(Entries)
           /\ tmpbuf' \in Page
<1>1. start + consumed \in Nat
  BY DEF TypeOK
<1>2. ChunkAt \in 0..(CBUFFSIZE - 1) /\ ChunkAt \div PAGE \in 0..(CBUFFSIZE \div PAGE - 1)
  BY <1>1, SlotInRing DEF ChunkAt
<1>3. remaining \in Int
  BY DEF TypeOK, remaining
<1>4. CASE remaining >= PAGE
  <2>1. ChunkAt \div PAGE \in Entries
    BY <1>2, HostBufAssumption DEF Entries, Tmp
  <2>2. bio' = Append(bio, ChunkAt \div PAGE) /\ tmpbuf' = tmpbuf
    BY <1>4 DEF AddPage, Chunk
  <2>3. bio \in Seq(Entries) /\ tmpbuf \in Page
    BY DEF TypeOK
  <2> QED
    BY <2>1, <2>2, <2>3, AppendProperties
<1>5. CASE ~(remaining >= PAGE)
  <2>1. ASSUME NEW k \in 1..PAGE, k <= remaining
        PROVE  buffer[ChunkAt + k - 1] \in Cells
    <3>1. ChunkAt + k - 1 \in Slots
      BY <1>2, <2>1, HostBufAssumption DEF Slots
    <3> QED
      BY <3>1 DEF TypeOK
  <2>2. CopiedRest(remaining, ChunkAt) \in Page
    BY <2>1 DEF TypeOK, CopiedRest, Page
  <2>3. Tmp \in Entries
    BY <1>2, HostBufAssumption DEF Entries, Tmp
  <2>4. bio' = Append(bio, Tmp) /\ tmpbuf' = CopiedRest(remaining, ChunkAt)
    BY <1>5 DEF AddPage, Chunk
  <2>5. bio \in Seq(Entries)
    BY DEF TypeOK
  <2> QED
    BY <2>2, <2>3, <2>4, <2>5, AppendProperties
<1> QED
  BY <1>4, <1>5

(* The page that a bio's entry stands for is a page of bytes. *)
LEMMA PageAtType ==
    ASSUME TypeOK, NEW n \in Entries
    PROVE  PageAt(n) \in Page
<1>1. CASE n = Tmp
  BY <1>1 DEF TypeOK, PageAt
<1>2. CASE n # Tmp
  <2>1. n \in 0..(CBUFFSIZE \div PAGE - 1)
    BY <1>2, HostBufAssumption DEF Entries, Tmp
  <2>2. ASSUME NEW k \in 1..PAGE
        PROVE  buffer[n * PAGE + k - 1] \in Cells
    BY <2>1, PageInRing DEF TypeOK
  <2> QED
    BY <1>2, <2>2 DEF PageAt, Page
<1> QED
  BY <1>1, <1>2

(* The device takes a page of the bio, whatever it holds. *)
LEMMA TransferTypeOK ==
    ASSUME TypeOK, NEW page \in Page, TransferAs(page)
    PROVE  TypeOK'
<1>1. Tail(bio) \in Seq(Entries)
  BY HeadTailProperties DEF TypeOK, TransferAs
<1>2. usb' \in Seq(Page)
  BY AppendProperties DEF TypeOK, TransferAs
<1> QED
  BY <1>1, <1>2 DEF TypeOK, TransferAs, flusherVars, producerVars

(* The flusher keeps the types. *)
LEMMA FlusherTypeOK ==
    ASSUME TypeOK, Flusher
    PROVE  TypeOK'
<1> USE HostBufAssumption DEF TypeOK, producerVars
<1>1. CASE Snapshot
  BY <1>1 DEF Snapshot
<1>2. CASE AddPage
  <2>1. \E p, rest : Chunk(p, rest)
    BY <1>2 DEF AddPage
  <2>2. /\ fpc' \in {"chunk", "submit"}
        /\ consumed' = consumed + PAGE /\ sector' = sector + 1
    BY <2>1 DEF Chunk
  <2>3. consumed' \in Nat /\ sector' \in Nat
    BY <2>2
  <2> QED
    BY <1>2, <2>1, <2>2, <2>3, AddPageTypeOK DEF Chunk
<1>3. CASE TransferPage
  <2>1. Head(bio) \in Entries
    BY <1>3, HeadTailProperties DEF TransferPage, TransferAs
  <2>2. PageAt(Head(bio)) \in Page
    BY <2>1, PageAtType
  <2> QED
    BY <1>3, <2>2, TransferTypeOK DEF TransferPage
<1>4. CASE SubmitFails
  BY <1>4, EmptySeq DEF SubmitFails
<1>5. CASE SubmitDone
  BY <1>5 DEF SubmitDone
<1>6. CASE AdvanceTail
  BY <1>6 DEF AdvanceTail, FlushOver, bioVars
<1> QED
  BY <1>1, <1>2, <1>3, <1>4, <1>5, <1>6 DEF Flusher

(* HostBuf is type correct. *)
THEOREM TypeCorrect == Spec => []TypeOK
<1>1. TypeOK /\ [Next]_vars => TypeOK'
  <2>1. TypeOK /\ UNCHANGED vars => TypeOK'
    BY DEF TypeOK, vars, producerVars, bioVars, flusherVars
  <2> QED
    BY <2>1, ProducerTypeOK, FlusherTypeOK DEF Next
<1> QED
  BY <1>1, InitTypeOK, PTL DEF Spec
-----------------------------------------------------------------------------
(* The inductive invariant behind the bound on the backlog.                 *)

(* The producers keep it. *)
LEMMA ProducerIndInv ==
    ASSUME TypeOK, IndInv, NEW t \in Threads, Producer(t)
    PROVE  IndInv'
<1> USE HostBufAssumption DEF TypeOK, Locked
<1>0. lock # NoThread => lock \in Threads
  OBVIOUS
<1>1. CASE LogEnd(t)
  <2>1. LenInv'
    BY <1>1 DEF LogEnd, IndInv, LenInv
  <2>2. LockInv' /\ RoomInv' /\ MarkInv'
    BY <1>1 DEF LogEnd, IndInv, LockInv, RoomInv, MarkInv
  <2>3. FlushInv' /\ BoundedBacklog'
    BY <1>1 DEF LogEnd, IndInv, FlushInv, BoundedBacklog, flusherVars
  <2> QED
    BY <2>1, <2>2, <2>3 DEF IndInv
<1>2. CASE LockProducer(t)
  <2>1. LockInv'
    BY <1>2 DEF LockProducer, IndInv, LockInv
  <2>2. LenInv' /\ RoomInv' /\ MarkInv'
    BY <1>2 DEF LockProducer, IndInv, LenInv, RoomInv, MarkInv
  <2>3. FlushInv' /\ BoundedBacklog'
    BY <1>2 DEF LockProducer, IndInv, FlushInv, BoundedBacklog, flusherVars
  <2> QED
    BY <2>1, <2>2, <2>3 DEF IndInv
<1>3. CASE MakeSpace(t)
  <2>1. RoomInv'
    BY <1>3 DEF MakeSpace, IndInv, RoomInv
  <2>2. LockInv' /\ LenInv' /\ MarkInv'
    BY <1>3 DEF MakeSpace, IndInv, LockInv, LenInv, MarkInv
  <2>3. FlushInv' /\ BoundedBacklog'
    BY <1>3 DEF MakeSpace, IndInv, FlushInv, BoundedBacklog, flusherVars
  <2> QED
    BY <2>1, <2>2, <2>3 DEF IndInv
<1>4. CASE CopyEvent(t)
  <2>1. pc[t] = "copy" /\ pc' = [pc EXCEPT ![t] = "publish"]
        /\ UNCHANGED <<head, tail, lock, len, cbuff_head, flusherVars>>
    BY <1>4 DEF CopyEvent, CopyTo
  <2>2. LockInv' /\ LenInv' /\ RoomInv' /\ MarkInv'
    BY <2>1 DEF IndInv, LockInv, LenInv, RoomInv, MarkInv
  <2>3. FlushInv' /\ BoundedBacklog'
    BY <2>1 DEF IndInv, FlushInv, BoundedBacklog, flusherVars
  <2> QED
    BY <2>2, <2>3 DEF IndInv
<1>5. CASE PublishHead(t)
  <2>1. /\ pc[t] = "publish" /\ head' = head + len[t] /\ lock' = NoThread
        /\ len' = [len EXCEPT ![t] = 0]
        /\ \/ /\ pc' = [pc EXCEPT ![t] = "wait"]
              /\ cbuff_head' = [cbuff_head EXCEPT ![t] = head + len[t]]
           \/ pc' = [pc EXCEPT ![t] = "idle"] /\ UNCHANGED cbuff_head
        /\ UNCHANGED <<tail, flusherVars>>
    BY <1>5 DEF PublishHead, Publish
  <2>2. lock = t /\ len[t] \in 1..EVENTSIZE /\ head - tail < CBUFFSIZE
    BY <2>1 DEF IndInv, LockInv, LenInv, RoomInv
  <2>3. \A u \in Threads : u # t => pc[u] \notin Locked
    BY <2>2 DEF IndInv, LockInv
  <2>4. LockInv' /\ LenInv' /\ RoomInv'
    BY <2>1, <2>2, <2>3 DEF IndInv, LockInv, LenInv, RoomInv
  <2>5. MarkInv'
    <3>1. head + len[t] \in Nat /\ head <= head + len[t] /\ head + len[t] \in 1..head'
      BY <2>1, <2>2
    <3>2. ASSUME NEW u \in Threads, u # t
          PROVE  IF pc'[u] = "wait" THEN cbuff_head'[u] \in 1..head' ELSE cbuff_head'[u] = 0
      <4>1. pc'[u] = pc[u] /\ cbuff_head'[u] = cbuff_head[u]
        BY <2>1, <3>2
      <4>2. IF pc[u] = "wait" THEN cbuff_head[u] \in 1..head ELSE cbuff_head[u] = 0
        BY DEF IndInv, MarkInv
      <4> QED
        BY <2>1, <3>1, <4>1, <4>2
    <3>3. IF pc'[t] = "wait" THEN cbuff_head'[t] \in 1..head' ELSE cbuff_head'[t] = 0
      <4>1. cbuff_head[t] = 0
        BY <2>1 DEF IndInv, MarkInv
      <4> QED
        BY <2>1, <3>1, <4>1
    <3> QED
      BY <3>2, <3>3 DEF MarkInv
  <2>6. FlushInv' /\ BoundedBacklog'
    BY <2>1, <2>2 DEF IndInv, FlushInv, BoundedBacklog, flusherVars
  <2> QED
    BY <2>4, <2>5, <2>6 DEF IndInv
<1>6. CASE WaitFlushed(t)
  <2>1. LockInv' /\ LenInv' /\ RoomInv' /\ MarkInv'
    BY <1>6 DEF WaitFlushed, IndInv, LockInv, LenInv, RoomInv, MarkInv
  <2>2. FlushInv' /\ BoundedBacklog'
    BY <1>6 DEF WaitFlushed, IndInv, FlushInv, BoundedBacklog, flusherVars
  <2> QED
    BY <2>1, <2>2 DEF IndInv
<1> QED
  BY <1>1, <1>2, <1>3, <1>4, <1>5, <1>6 DEF Producer, Produce

(* The flusher keeps it: the tail moves to the head of its snapshot, which  *)
(* the head has not fallen behind.                                          *)
LEMMA FlusherIndInv ==
    ASSUME TypeOK, IndInv, Flusher
    PROVE  IndInv'
<1> USE HostBufAssumption DEF TypeOK, IndInv, producerVars
<1>1. CASE Snapshot
  BY <1>1 DEF Snapshot, LockInv, LenInv, RoomInv, MarkInv, FlushInv, BoundedBacklog
<1>2. CASE fpc # "loop" /\ UNCHANGED <<head, tail, producerVars, start, end>>
  BY <1>2 DEF LockInv, LenInv, RoomInv, MarkInv, FlushInv, BoundedBacklog
<1>3. CASE AdvanceTail
  <2>1. /\ tail' = end /\ fpc' = "loop" /\ UNCHANGED <<head, producerVars>>
        /\ end \in tail..head
    BY <1>3 DEF AdvanceTail, FlushOver, FlushInv
  <2>2. LockInv' /\ LenInv' /\ MarkInv'
    BY <2>1 DEF LockInv, LenInv, MarkInv
  <2>3. RoomInv' /\ FlushInv' /\ BoundedBacklog'
    BY <2>1 DEF RoomInv, FlushInv, BoundedBacklog
  <2> QED
    BY <2>2, <2>3
<1>4. AddPage \/ TransferPage \/ SubmitFails \/ SubmitDone
         => fpc # "loop" /\ UNCHANGED <<head, tail, producerVars, start, end>>
  BY DEF AddPage, Chunk, TransferPage, TransferAs, SubmitFails, SubmitDone, flusherVars
<1> QED
  BY <1>1, <1>2, <1>3, <1>4 DEF Flusher

(* It holds before anything is logged.                                     *)
LEMMA InitIndInv == Init => IndInv
  BY HostBufAssumption
  DEF Init, IndInv, Locked, LockInv, LenInv, RoomInv, MarkInv, FlushInv, BoundedBacklog

(* What is in the bio and on the device does not matter to it. *)
LEMMA QuietIndInv ==
    ASSUME IndInv, UNCHANGED <<head, tail, producerVars, fpc, start, end>>
    PROVE  IndInv'
  BY DEF producerVars, IndInv, Locked, LockInv, LenInv, RoomInv, MarkInv, FlushInv,
         BoundedBacklog

(* The invariant holds throughout. *)
THEOREM Invariance == Spec => []IndInv
<1>1. TypeOK /\ IndInv /\ [Next]_vars => IndInv'
  <2>1. IndInv /\ UNCHANGED vars => IndInv'
    BY QuietIndInv DEF vars, flusherVars
  <2> QED
    BY <2>1, ProducerIndInv, FlusherIndInv DEF Next
<1> QED
  BY <1>1, InitIndInv, TypeCorrect, PTL DEF Spec

(* The head is never more than a lap and an event's rest ahead of the tail, *)
(* and never behind it (make_space_in_cbuff).                               *)
THEOREM BacklogIsBounded == Spec => []BoundedBacklog
<1>1. IndInv => BoundedBacklog
  BY DEF IndInv
<1> QED
  BY <1>1, Invariance, PTL
-----------------------------------------------------------------------------
(* HostBuf implements the abstract channel.                                 *)

(* A step of a producer appends an event, lets a waiting thread go on, or   *)
(* shows nothing of itself.                                                 *)
LEMMA ProducerRefines ==
    ASSUME TypeOK, IndInv, NEW t \in Threads, Producer(t)
    PROVE  Channel!Next \/ UNCHANGED Channel!vars
<1> USE HostBufAssumption DEF TypeOK
<1>1. CASE PublishHead(t)
  <2>1. pc[t] = "publish" /\ len[t] \in 1..EVENTSIZE /\ head - tail < CBUFFSIZE
        /\ cbuff_head[t] = 0
    BY <1>1 DEF PublishHead, Publish, IndInv, LenInv, RoomInv, MarkInv, Locked
  <2>2. head' = head + len[t] /\ UNCHANGED tail
        /\ \/ cbuff_head' = [cbuff_head EXCEPT ![t] = head + len[t]]
           \/ UNCHANGED cbuff_head
    BY <1>1 DEF PublishHead, Publish
  <2>3. UNCHANGED cbuff_head => cbuff_head' = [cbuff_head EXCEPT ![t] = 0]
    BY <2>1
  <2>4. \E mark \in {0, head + len[t]} : Channel!Append(t, len[t], mark)
    BY <2>1, <2>2, <2>3 DEF Channel!Append
  <2> QED
    BY <2>1, <2>4 DEF Channel!Next
<1>2. CASE WaitFlushed(t)
  <2>1. Channel!Return(t)
    BY <1>2 DEF WaitFlushed, Channel!Return, IndInv, MarkInv
  <2> QED
    BY <2>1 DEF Channel!Next
<1>3. LogEnd(t) \/ LockProducer(t) \/ MakeSpace(t) \/ CopyEvent(t)
         => UNCHANGED Channel!vars
  BY DEF LogEnd, LockProducer, MakeSpace, CopyEvent, CopyTo, Channel!vars
<1> QED
  BY <1>1, <1>2, <1>3 DEF Producer, Produce

(* A step of the flusher flushes up to its snapshot or shows nothing.       *)
LEMMA FlusherRefines ==
    ASSUME TypeOK, IndInv, Flusher
    PROVE  Channel!Next \/ UNCHANGED Channel!vars
<1>1. CASE AdvanceTail
  <2>1. end \in tail..head
    BY <1>1 DEF AdvanceTail, FlushOver, IndInv, FlushInv
  <2>2. Channel!Flush(end)
    BY <1>1, <2>1 DEF AdvanceTail, FlushOver, producerVars, Channel!Flush
  <2> QED
    BY <2>1, <2>2 DEF Channel!Next
<1>2. Snapshot \/ AddPage \/ TransferPage \/ SubmitFails \/ SubmitDone
         => UNCHANGED Channel!vars
  BY DEF Snapshot, AddPage, Chunk, TransferPage, TransferAs, SubmitFails,
         SubmitDone, producerVars, Channel!vars
<1> QED
  BY <1>1, <1>2 DEF Flusher

(* Every behaviour of HostBuf is one of the abstract channel: a prioritised *)
(* system call returns only once the tail covers its event and all before.  *)
THEOREM Refinement == Spec => ImplementsChannel
<1>1. Init => Channel!Init
  BY DEF Init, Channel!Init
<1>2. TypeOK /\ IndInv /\ [Next]_vars => [Channel!Next]_(Channel!vars)
  <2>1. UNCHANGED vars => UNCHANGED Channel!vars
    BY DEF vars, producerVars, Channel!vars
  <2> QED
    BY <2>1, ProducerRefines, FlusherRefines DEF Next
<1> QED
  BY <1>1, <1>2, TypeCorrect, Invariance, PTL DEF Spec, ImplementsChannel, Channel!Spec
=============================================================================
