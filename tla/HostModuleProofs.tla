--------------------------- MODULE HostModuleProofs ---------------------------
(* Proofs about HostModule for every number of threads, records, fields and *)
(* loads, and every size of the ring and of a record's share of it.         *)
EXTENDS HostModuleProperties, SequenceTheorems, FiniteSetTheorems, TLAPS

(* What is so in each phase of insmod and rmmod: this relates the phase to  *)
(* the flag, the device, the ring, the flusher and the threads inside, each *)
(* of which another step changes.                                           *)
PhaseInv ==
    /\ hardlog_active <=> mpc \in {"in", "stopping", "closed"}
    /\ mpc \in {"opened", "threaded", "made", "in", "stopping"} => device = "open"
    /\ mpc \in {"made", "in", "stopping", "closed", "inactive"} => ring = "ready"
    /\ mpc \in {"opened", "threaded"} => ring = "none"
    /\ mpc \in {"opened", "threaded", "made", "failed"} =>
           head = 0 /\ tail = 0 /\ stream = NoCells /\ asked = {}
    /\ mpc \in {"out", "opened"} => fpc = "none"
    /\ mpc \in {"threaded", "made"} => fpc = "loop"
    /\ mpc \in {"closed", "inactive", "freed", "woken"} => fpc = "done"
    /\ fpc = "final" => mpc = "stopping"
    /\ \A t \in Threads : Inside(t) =>
           mpc \in {"in", "stopping", "closed", "inactive", "freed", "woken"}

(* kauditd, once it sent a record under the flag, is on its way to sleep.   *)
QuietInv == hardlog_active => \/ sentMeanwhile = 0
                              \/ sentMeanwhile = 1 /\ kpc # "queue"

(* usb_write was called for all below the tail while the flusher runs, and  *)
(* its range begins there.                                                  *)
AskedInv ==
    /\ fpc \in {"loop", "write", "final"} => 0..(tail - 1) \subseteq asked
    /\ fpc \in {"write", "final"} => start = tail
    /\ BacklogAsked

(* The first n positions hold records one after the other, each as a whole. *)
Tiled(n) ==
    \A p \in 0..(n - 1) :
        /\ p \in DOMAIN stream
        /\ \E q \in 0..p : /\ p < q + stream[p].len /\ q + stream[p].len <= n
                           /\ WholeAt(q, stream[p])

(* While the mutex is respected, one producer at most is past it; the       *)
(* records below the head are whole, and so is its own once it is copied.   *)
Guarded ==
    /\ \A t \in Threads : InSection(t) => lock = t
    /\ Tiled(head)
    /\ \A t \in Threads : pc[t] \in {"copy", "store"} => cbuff_head[t] = head
    /\ \A t \in Threads : pc[t] \in {"load", "store"} => WholeAt(head, record[t])

(* Until hardlog_logger_teardown unlocks it.  From then on the producers    *)
(* may overwrite each other, but none what lies below the last range of the *)
(* flusher, which has ended.                                                *)
IntactInv ==
    /\ mpc \in {"in", "stopping", "closed"} => Guarded
    /\ mpc \in {"inactive", "freed", "woken"} =>
           \A t \in Threads : pc[t] \in {"copy", "store"} => end <= cbuff_head[t]
    /\ mpc \notin {"opened", "failed"} =>
           end <= head /\ asked \subseteq 0..(end - 1) /\ Tiled(end)

(* As long as its hooks saw one value of the flag, a record has all of its  *)
(* fields so far on that side.                                              *)
Consistent(r) ==
    /\ r.saw # {}
    /\ r.saw = {TRUE} => r.event = [i \in 1..r.fields |-> i]
    /\ r.saw = {FALSE} => r.native = [i \in 1..r.fields |-> i]
Complete(r) == Consistent(r) /\ r.fields = Fields

RecordInv ==
    /\ \A t \in Threads :
           /\ Consistent(record[t])
           /\ pc[t] \in {"lock", "space", "copy", "load", "store"} =>
                  /\ record[t].fields = Fields /\ TRUE \in record[t].saw
                  /\ record[t].len \in 1..EVENTSIZE
    /\ \A p \in DOMAIN stream : Complete(stream[p])
    /\ \A i \in 1..Len(audit_queue) : Complete(audit_queue[i])
    /\ \A i \in 1..Len(sent) : Complete(sent[i])
-----------------------------------------------------------------------------
(* The hooks' updates of a record keep its type.                            *)
LEMMA NewRecordType ==
    ASSUME NEW id \in 0..MaxRecords, NEW b \in BOOLEAN
    PROVE  NewRecord(id, b) \in Record
<1>1. {b} \in SUBSET BOOLEAN
  OBVIOUS
<1>2. <<>> \in Seq(1..Fields) /\ 0 \in 0..Fields /\ 0 \in 0..EVENTSIZE
  BY HostModuleAssumption
<1> QED
  BY <1>1, <1>2 DEF NewRecord, Record

(* So does the record of a thread that has none. *)
LEMMA NothingType == Nothing \in Record
<1>1. 0 \in 0..MaxRecords /\ FALSE \in BOOLEAN
  BY HostModuleAssumption
<1>2. NewRecord(0, FALSE) \in Record
  BY <1>1, NewRecordType
<1> QED
  BY <1>2 DEF Nothing

(* A field printed is the next of the record's. *)
LEMMA PutFieldType ==
    ASSUME TypeOK, NEW t \in Threads, NEW e \in BOOLEAN, NEW n \in BOOLEAN,
           PutField(t, e, n)
    PROVE  TypeOK'
<1> DEFINE r == record[t]
           m == r.fields + 1
           s == [r EXCEPT !.fields = m, !.saw = @ \cup {hardlog_active},
                          !.event = IF e THEN Append(@, m) ELSE @,
                          !.native = IF n THEN Append(@, m) ELSE @]
<1>1. r \in Record /\ m \in 1..Fields
  <2>1. r \in Record
    BY DEF TypeOK
  <2>2. r.fields \in 0..Fields
    BY <2>1 DEF Record
  <2> QED
    BY <2>1, <2>2, HostModuleAssumption DEF PutField
<1>2. Append(r.event, m) \in Seq(1..Fields) /\ Append(r.native, m) \in Seq(1..Fields)
  BY <1>1 DEF Record
<1>3. r.saw \cup {hardlog_active} \in SUBSET BOOLEAN
  BY <1>1 DEF Record, TypeOK
<1>4. s \in Record
  <2>1. m \in 0..Fields
    BY <1>1
  <2>2. r.event \in Seq(1..Fields) /\ r.native \in Seq(1..Fields)
    BY <1>1 DEF Record
  <2>3. /\ (IF e THEN Append(r.event, m) ELSE r.event) \in Seq(1..Fields)
        /\ (IF n THEN Append(r.native, m) ELSE r.native) \in Seq(1..Fields)
    BY <1>2, <2>2
  <2> HIDE DEF m
  <2> QED
    BY <1>1, <1>3, <2>1, <2>3 DEF Record
<1>5. record' = [record EXCEPT ![t] = s]
  BY DEF PutField
<1>6. record' \in [Threads -> Record]
  BY <1>4, <1>5 DEF TypeOK
<1> QED
  BY <1>6 DEF TypeOK, PutField, moduleVars, bufVars, flusherVars, kauditdVars

(* A value of the flag seen is one more of two. *)
LEMMA SawType ==
    ASSUME NEW r \in Record, NEW b \in BOOLEAN, NEW n \in 0..EVENTSIZE
    PROVE  /\ [r EXCEPT !.saw = @ \cup {b}] \in Record
           /\ [r EXCEPT !.saw = @ \cup {b}, !.len = n] \in Record
<1>1. r.saw \cup {b} \in SUBSET BOOLEAN
  BY DEF Record
<1> QED
  BY <1>1 DEF Record

(* The ring without a cell. *)
LEMMA NoCellsType == DOMAIN NoCells = {} /\ NoCells \in [DOMAIN NoCells -> Record]
  BY DEF NoCells

PCs == {"idle", "fields", "lock", "space", "copy", "load", "store", "unlock", "wait", "dead"}
-----------------------------------------------------------------------------
(* Type correctness, from the invariant that bounds the flusher's range.    *)
LEMMA InitTypeOK == Init => TypeOK
<1> SUFFICES ASSUME Init PROVE TypeOK
  OBVIOUS
<1>1. DOMAIN stream \subseteq Nat /\ stream \in [DOMAIN stream -> Record]
  BY NoCellsType DEF Init
<1>2. audit_queue \in Seq(Record) /\ sent \in Seq(Record)
  BY EmptySeq DEF Init
<1>3. record \in [Threads -> Record]
  BY NothingType DEF Init
<1>4. pc \in [Threads -> PCs] /\ cbuff_head \in [Threads -> Nat]
  BY DEF Init, PCs
<1>5. loads \in 0..MaxLoads /\ started \in 0..MaxRecords
  BY HostModuleAssumption DEF Init
<1>6. /\ mpc = "out" /\ device = "closed" /\ ring = "none" /\ hardlog_active \in BOOLEAN
      /\ head \in Nat /\ tail \in Nat /\ asked \subseteq Nat
      /\ fpc = "none" /\ start \in Nat /\ end \in Nat
      /\ lock \in Threads \cup {NoThread} /\ kpc = "queue" /\ sentMeanwhile \in Nat
  BY DEF Init
<1> QED
  BY <1>1, <1>2, <1>3, <1>4, <1>5, <1>6 DEF TypeOK, PCs

(* insmod and rmmod keep the types. *)
LEMMA ModuleTypeOK == TypeOK /\ PhaseInv /\ (Insmod \/ StopThread \/ Rmmod) => TypeOK'
<1> SUFFICES ASSUME TypeOK, PhaseInv, Insmod \/ StopThread \/ Rmmod
             PROVE  TypeOK'
  OBVIOUS
<1> USE DEF TypeOK, moduleVars, bufVars, flusherVars, threadVars, kauditdVars
<1>1. CASE UsbOpen
  <2>1. DOMAIN stream' \subseteq Nat /\ stream' \in [DOMAIN stream' -> Record]
    BY <1>1, NoCellsType DEF UsbOpen
  <2>2. loads' \in 0..MaxLoads
    BY <1>1, HostModuleAssumption DEF UsbOpen
  <2> QED
    BY <1>1, <2>1, <2>2 DEF UsbOpen
<1>2. CASE StartThread
  BY <1>2 DEF StartThread
<1>3. CASE MakeRing
  BY <1>3 DEF MakeRing, PhaseInv
<1>4. CASE Activate
  BY <1>4 DEF Activate, ActivateIn
<1>5. CASE LoadFails
  BY <1>5 DEF LoadFails
<1>6. CASE StopThread
  BY <1>6 DEF StopThread
<1>7. CASE UsbClose
  BY <1>7 DEF UsbClose, UsbCloseWhen
<1>8. CASE Deactivate
  BY <1>8 DEF Deactivate
<1>9. CASE FreeRing
  BY <1>9 DEF FreeRing
<1>10. CASE Wake
  BY <1>10 DEF Wake, Awake
<1>11. CASE Unloaded
  BY <1>11 DEF Unloaded
<1> QED
  BY <1>1, <1>2, <1>3, <1>4, <1>5, <1>6, <1>7, <1>8, <1>9, <1>10, <1>11
     DEF Insmod, Rmmod

(* The hooks keep the types. *)
LEMMA HookTypeOK == ASSUME TypeOK, NEW t \in Threads, Hook(t) PROVE TypeOK'
<1> USE DEF moduleVars, bufVars, flusherVars, kauditdVars
<1>1. CASE Start(t)
  <2>1. started' \in 0..MaxRecords
    BY <1>1, HostModuleAssumption DEF Start, TypeOK
  <2>2. NewRecord(started', hardlog_active) \in Record
    BY <2>1, NewRecordType DEF TypeOK
  <2>3. record' \in [Threads -> Record]
    BY <1>1, <2>2 DEF Start, TypeOK
  <2> QED
    BY <1>1, <2>1, <2>3 DEF Start, To, TypeOK
<1>2. CASE Format(t)
  BY <1>2, PutFieldType DEF Format, TypeOK
<1>3. CASE NHex(t)
  BY <1>3, PutFieldType DEF NHex, TypeOK
<1>4. CASE EndNative(t)
  <2>1. [record[t] EXCEPT !.saw = @ \cup {FALSE}] \in Record
    <3>1. 0 \in 0..EVENTSIZE
      BY HostModuleAssumption
    <3> QED
      BY <3>1, SawType DEF TypeOK
  <2>2. audit_queue' \in Seq(Record)
    BY <1>4, <2>1, AppendProperties DEF EndNative, Queued, TypeOK
  <2>3. record' \in [Threads -> Record]
    BY <1>4, NothingType DEF EndNative, TypeOK
  <2> QED
    BY <1>4, <2>2, <2>3 DEF EndNative, To, TypeOK
<1>5. CASE EndHardlog(t)
  <2>1. PICK n \in 1..EVENTSIZE :
            record' = [record EXCEPT ![t] =
                [record[t] EXCEPT !.saw = @ \cup {TRUE}, !.len = n]]
    BY <1>5 DEF EndHardlog, EndActive
  <2>3. n \in 0..EVENTSIZE
    BY HostModuleAssumption
  <2>4. [record[t] EXCEPT !.saw = @ \cup {TRUE}, !.len = n] \in Record
    BY <2>3, SawType DEF TypeOK
  <2>2. record' \in [Threads -> Record]
    BY <2>1, <2>4 DEF TypeOK
  <2> QED
    BY <1>5, <2>2 DEF EndHardlog, EndActive, To, TypeOK
<1>6. CASE EndShort(t)
  <2>1. record' \in [Threads -> Record]
    BY <1>6, NothingType DEF EndShort, TypeOK
  <2> QED
    BY <1>6, <2>1 DEF EndShort, To, TypeOK
<1> QED
  BY <1>1, <1>2, <1>3, <1>4, <1>5, <1>6 DEF Hook

(* What a record brings to the ring: cells of its own, at positions that     *)
(* are numbers.                                                             *)
LEMMA CellsAdded ==
    ASSUME TypeOK, NEW t \in Threads, CopyEvent(t)
    PROVE  /\ DOMAIN stream' = DOMAIN stream \cup Cells(t)
           /\ \A p \in DOMAIN stream' :
                  stream'[p] = IF p \in Cells(t) THEN record[t] ELSE stream[p]
           /\ Cells(t) \subseteq Nat
           /\ DOMAIN stream' \subseteq Nat
           /\ stream' \in [DOMAIN stream' -> Record]
<1>1. stream' = [p \in DOMAIN stream \cup Cells(t) |->
                    IF p \in Cells(t) THEN record[t] ELSE stream[p]]
  BY DEF CopyEvent
<1>2. Cells(t) \subseteq Nat
  <2>1. cbuff_head[t] \in Nat /\ record[t].len \in Nat
    BY HostModuleAssumption DEF TypeOK, Record
  <2> QED
    BY <2>1 DEF Cells
<1>3. record[t] \in Record /\ \A p \in DOMAIN stream : stream[p] \in Record
  BY DEF TypeOK
<1> QED
  BY <1>1, <1>2, <1>3 DEF TypeOK

(* The producers keep the types. *)
LEMMA ProducerTypeOK == ASSUME TypeOK, NEW t \in Threads, Producer(t) PROVE TypeOK'
<1> USE DEF moduleVars, bufVars, flusherVars, kauditdVars
<1>1. CASE LockProducer(t)
  BY <1>1 DEF LockProducer, LockProducerWhen, To, TypeOK
<1>2. CASE MakeSpace(t)
  BY <1>2 DEF MakeSpace, To, TypeOK
<1>3. CASE CopyEvent(t)
  <2>1. DOMAIN stream' \subseteq Nat /\ stream' \in [DOMAIN stream' -> Record]
    BY <1>3, CellsAdded
  <2> QED
    BY <1>3, <2>1 DEF CopyEvent, To, TypeOK
<1>4. CASE CopyFaults(t)
  BY <1>4 DEF CopyFaults, To, TypeOK
<1>5. CASE LoadHead(t)
  BY <1>5 DEF LoadHead, To, TypeOK
<1>6. CASE StoreHead(t)
  <2>1. cbuff_head[t] \in Nat /\ record[t].len \in Nat
    BY HostModuleAssumption DEF TypeOK, Record
  <2>2. head' \in Nat
    BY <1>6, <2>1 DEF StoreHead
  <2> QED
    BY <1>6, <2>2 DEF StoreHead, To, TypeOK
<1>7. CASE UnlockProducer(t)
  <2>1. record' \in [Threads -> Record]
    BY <1>7, NothingType DEF UnlockProducer, TypeOK
  <2>2. pc \in [Threads -> PCs] /\ cbuff_head \in [Threads -> Nat] /\ head \in Nat
    BY DEF TypeOK, PCs
  <2>3. PICK w \in {"wait", "idle"}, c \in Nat :
            To(t, w) /\ cbuff_head' = [cbuff_head EXCEPT ![t] = c]
    BY <1>7, <2>2 DEF UnlockProducer
  <2>4. w \in PCs
    BY DEF PCs
  <2>5. pc' \in [Threads -> PCs] /\ cbuff_head' \in [Threads -> Nat]
    BY <2>2, <2>3, <2>4 DEF To
  <2> QED
    BY <1>7, <2>1, <2>5 DEF UnlockProducer, TypeOK, PCs
<1>8. CASE WaitFlushed(t)
  BY <1>8 DEF WaitFlushed, To, TypeOK
<1> QED
  BY <1>1, <1>2, <1>3, <1>4, <1>5, <1>6, <1>7, <1>8 DEF Producer

(* A position is its lap's first and its slot. *)
LEMMA SlotType ==
    ASSUME NEW p \in Nat
    PROVE  /\ p % CBUFFSIZE \in 0..(CBUFFSIZE - 1)
           /\ p \div CBUFFSIZE \in Nat
           /\ p = CBUFFSIZE * (p \div CBUFFSIZE) + (p % CBUFFSIZE)
           /\ p % CBUFFSIZE <= p
<1>1. CBUFFSIZE \in Nat /\ CBUFFSIZE > 0
  BY HostModuleAssumption
<1>2. p % CBUFFSIZE \in 0..(CBUFFSIZE - 1) /\ p \div CBUFFSIZE \in Nat
  BY <1>1
<1>3. p = CBUFFSIZE * (p \div CBUFFSIZE) + (p % CBUFFSIZE)
  BY <1>1
<1>4. CBUFFSIZE * (p \div CBUFFSIZE) >= 0
  BY <1>1, <1>2
<1> QED
  BY <1>1, <1>2, <1>3, <1>4

(* The last flush begins at a position and ends before the snapshot of the  *)
(* head.                                                                    *)
LEMMA FinalCellsType ==
    ASSUME TypeOK
    PROVE  /\ endSlot \in Nat /\ endSlot <= end
           /\ finalCells \subseteq 0..(end - 1)
<1>1. /\ endSlot \in 0..(CBUFFSIZE - 1) /\ endSlot <= end
      /\ start % CBUFFSIZE \in 0..(CBUFFSIZE - 1) /\ end \in Nat
  BY SlotType DEF endSlot, TypeOK
<1>2. startSlot \in Nat /\ endSlot \in Nat
  BY <1>1, HostModuleAssumption DEF startSlot
<1> QED
  BY <1>1, <1>2 DEF finalCells

(* The flusher and kauditd keep the types. *)
LEMMA FlusherTypeOK == TypeOK /\ Flusher => TypeOK'
<1> SUFFICES ASSUME TypeOK, Flusher PROVE TypeOK'
  OBVIOUS
<1> USE DEF moduleVars, bufVars, threadVars, kauditdVars
<1>1. CASE Snapshot
  BY <1>1 DEF Snapshot, TypeOK
<1>2. CASE WriteRound
  BY <1>2 DEF WriteRound, Flush, TypeOK
<1>3. CASE LeaveLoop
  BY <1>3 DEF LeaveLoop, LeaveLoopWhen, TypeOK
<1>4. CASE FinalFlush
  <2>1. asked' \subseteq Nat /\ tail' \in Nat
    BY <1>4, FinalCellsType DEF FinalFlush, FlushLast, Flush, TypeOK
  <2> QED
    BY <1>4, <2>1 DEF FinalFlush, FlushLast, Flush, TypeOK
<1> QED
  BY <1>1, <1>2, <1>3, <1>4 DEF Flusher

(* kauditd keeps the types. *)
LEMMA KauditdTypeOK == TypeOK /\ Kauditd => TypeOK'
<1> SUFFICES ASSUME TypeOK, Kauditd PROVE TypeOK'
  OBVIOUS
<1> USE DEF moduleVars, bufVars, flusherVars, threadVars
<1>1. CASE Send
  <2>1. /\ Head(audit_queue) \in Record
        /\ Tail(audit_queue) \in Seq(Record)
    BY <1>1, HeadTailProperties DEF Send, TypeOK
  <2>2. audit_queue' \in Seq(Record) /\ sent' \in Seq(Record)
    BY <1>1, <2>1, AppendProperties DEF Send, TypeOK
  <2> QED
    BY <1>1, <2>2 DEF Send, TypeOK
<1>2. CASE Park
  BY <1>2 DEF Park, ParkWith, TypeOK
<1> QED
  BY <1>1, <1>2 DEF Kauditd
-----------------------------------------------------------------------------
(* What the hooks and the producers leave alone.                            *)
LEMMA HookFrame ==
    ASSUME NEW t \in Threads, Hook(t)
    PROVE  /\ UNCHANGED <<moduleVars, bufVars, flusherVars, lock, kauditdVars>>
           /\ UNCHANGED <<mpc, ring, hardlog_active, device, head, tail, stream,
                          asked, fpc, start, end, sent, kpc, sentMeanwhile>>
<1>1. CASE Start(t)
  BY <1>1 DEF Start, moduleVars, bufVars, flusherVars, kauditdVars
<1>2. CASE Format(t) \/ NHex(t)
  BY <1>2 DEF Format, NHex, PutField, moduleVars, bufVars, flusherVars, kauditdVars
<1>3. CASE EndNative(t)
  BY <1>3 DEF EndNative, moduleVars, bufVars, flusherVars, kauditdVars
<1>4. CASE EndHardlog(t) \/ EndShort(t)
  BY <1>4 DEF EndHardlog, EndActive, EndShort, moduleVars, bufVars, flusherVars,
              kauditdVars
<1> QED
  BY <1>1, <1>2, <1>3, <1>4 DEF Hook

(* A producer touches the head, the copied cells and what threads have.     *)
LEMMA ProducerFrame ==
    ASSUME NEW t \in Threads, Producer(t)
    PROVE  /\ Inside(t)
           /\ UNCHANGED <<mpc, ring, hardlog_active, device, tail, asked, fpc,
                          start, end, audit_queue, sent, kpc, sentMeanwhile>>
<1> USE DEF moduleVars, bufVars, flusherVars, kauditdVars
<1>1. CASE \/ LockProducer(t) \/ MakeSpace(t) \/ CopyEvent(t) \/ CopyFaults(t)
  BY <1>1 DEF LockProducer, LockProducerWhen, MakeSpace, CopyEvent, CopyFaults,
              Inside, InSection
<1>2. CASE LoadHead(t) \/ StoreHead(t) \/ UnlockProducer(t) \/ WaitFlushed(t)
  BY <1>2 DEF LoadHead, StoreHead, UnlockProducer, WaitFlushed, Inside, InSection
<1> QED
  BY <1>1, <1>2 DEF Producer

(* A thread's step leaves the others where they are; the thread gets inside *)
(* only while hardlog is active.                                            *)
LEMMA ThreadsFrame ==
    ASSUME TypeOK, NEW t \in Threads, Hook(t) \/ Producer(t)
    PROVE  /\ \A u \in Threads \ {t} : UNCHANGED <<pc[u], record[u], cbuff_head[u]>>
           /\ Inside(t)' => Inside(t) \/ hardlog_active
<1>0. /\ pc \in [Threads -> PCs] /\ record \in [Threads -> Record]
      /\ cbuff_head \in [Threads -> Nat]
  BY DEF TypeOK, PCs
<1> USE DEF To
<1>1. CASE Hook(t)
  <2>1. CASE Start(t)
    BY <1>0, <2>1 DEF Start, Inside, InSection
  <2>2. CASE Format(t) \/ NHex(t)
    BY <1>0, <2>2 DEF Format, NHex, PutField, Inside, InSection
  <2>3. CASE EndNative(t) \/ EndShort(t)
    BY <1>0, <2>3 DEF EndNative, EndShort, Inside, InSection
  <2>4. CASE EndHardlog(t)
    <3>1. PICK r : record' = [record EXCEPT ![t] = r]
      BY <2>4 DEF EndHardlog, EndActive
    <3> QED
      BY <1>0, <2>4, <3>1 DEF EndHardlog, EndActive
  <2> QED
    BY <1>1, <2>1, <2>2, <2>3, <2>4 DEF Hook
<1>2. CASE Producer(t)
  <2>0. SUFFICES \A u \in Threads \ {t} : UNCHANGED <<pc[u], record[u], cbuff_head[u]>>
    BY <1>2, ProducerFrame
  <2>1. CASE LockProducer(t) \/ MakeSpace(t) \/ CopyFaults(t)
    BY <1>0, <2>1 DEF LockProducer, LockProducerWhen, MakeSpace, CopyFaults
  <2>2. CASE CopyEvent(t)
    BY <1>0, <2>2 DEF CopyEvent
  <2>3. CASE LoadHead(t) \/ StoreHead(t) \/ WaitFlushed(t)
    BY <1>0, <2>3 DEF LoadHead, StoreHead, WaitFlushed
  <2>4. CASE UnlockProducer(t)
    BY <1>0, <2>4 DEF UnlockProducer
  <2> QED
    BY <1>2, <2>1, <2>2, <2>3, <2>4 DEF Producer
<1> QED
  BY <1>1, <1>2
-----------------------------------------------------------------------------
(* The phases.  Only insmod, rmmod and the flusher move one; a thread may   *)
(* move the head, but has no ring to copy to before MakeRing.               *)
LEMMA PhaseStep == TypeOK /\ PhaseInv /\ [Next]_vars => PhaseInv'
<1> SUFFICES ASSUME TypeOK, PhaseInv, [Next]_vars PROVE PhaseInv'
  OBVIOUS
<1> USE DEF PhaseInv, moduleVars, bufVars, flusherVars, threadVars, kauditdVars,
            Inside, InSection
<1>1. CASE Insmod
  <2>1. CASE UsbOpen
    BY <2>1 DEF UsbOpen
  <2>2. CASE StartThread
    BY <2>2 DEF StartThread
  <2>3. CASE MakeRing
    BY <2>3 DEF MakeRing
  <2>4. CASE Activate
    BY <2>4 DEF Activate, ActivateIn
  <2>5. CASE LoadFails
    BY <2>5 DEF LoadFails
  <2> QED
    BY <1>1, <2>1, <2>2, <2>3, <2>4, <2>5 DEF Insmod
<1>2. CASE StopThread \/ Rmmod
  <2>1. CASE StopThread
    BY <2>1 DEF StopThread
  <2>2. CASE UsbClose
    BY <2>2 DEF UsbClose, UsbCloseWhen
  <2>3. CASE Deactivate
    BY <2>3 DEF Deactivate
  <2>4. CASE FreeRing
    BY <2>4 DEF FreeRing
  <2>5. CASE Wake
    BY <2>5 DEF Wake
  <2>6. CASE Unloaded
    BY <2>6 DEF Unloaded
  <2> QED
    BY <1>2, <2>1, <2>2, <2>3, <2>4, <2>5, <2>6 DEF Rmmod
<1>3. CASE Flusher
  <2>1. CASE Snapshot
    BY <2>1 DEF Snapshot, HasCode
  <2>2. CASE WriteRound
    BY <2>2 DEF WriteRound, HasCode, Flush
  <2>3. CASE LeaveLoop
    BY <2>3 DEF LeaveLoop, LeaveLoopWhen
  <2>4. CASE FinalFlush
    BY <2>4 DEF FinalFlush, FlushLast, Flush
  <2> QED
    BY <1>3, <2>1, <2>2, <2>3, <2>4 DEF Flusher
<1>4. CASE Kauditd
  BY <1>4 DEF Kauditd, Send, Park, ParkWith
<1>5. CASE \E t \in Threads : Hook(t) \/ Producer(t)
  <2> PICK t \in Threads : Hook(t) \/ Producer(t)
    BY <1>5
  <2>1. UNCHANGED <<mpc, ring, hardlog_active, device, tail, asked, fpc>>
    BY HookFrame, ProducerFrame
  <2>2. \A u \in Threads : Inside(u)' => Inside(u) \/ hardlog_active
    BY ThreadsFrame
  <2>3. mpc \in {"opened", "threaded", "made", "failed"} => UNCHANGED <<head, stream>>
    <3>1. Inside(t) => mpc \notin {"opened", "threaded", "made", "failed"}
      OBVIOUS
    <3> HIDE DEF PhaseInv, Inside
    <3> QED
      BY <3>1, HookFrame, ProducerFrame
  <2> HIDE DEF Inside
  <2> QED
    BY <2>1, <2>2, <2>3
<1>6. CASE UNCHANGED vars
  BY <1>6 DEF vars
<1> QED
  BY <1>1, <1>2, <1>3, <1>4, <1>5, <1>6 DEF Next

(* kauditd.  It wakes only when the flag is no longer set.                  *)
LEMMA QuietStep == TypeOK /\ PhaseInv /\ QuietInv /\ [Next]_vars => QuietInv'
<1> SUFFICES ASSUME TypeOK, PhaseInv, QuietInv, [Next]_vars PROVE QuietInv'
  OBVIOUS
<1> USE DEF QuietInv, moduleVars, bufVars, flusherVars, threadVars, kauditdVars
<1>1. CASE Insmod
  BY <1>1 DEF Insmod, UsbOpen, StartThread, MakeRing, Activate, ActivateIn, LoadFails
<1>2. CASE StopThread \/ UsbClose \/ Deactivate \/ FreeRing \/ Unloaded
  BY <1>2 DEF StopThread, UsbClose, UsbCloseWhen, Deactivate, FreeRing, Unloaded
<1>3. CASE Wake
  BY <1>3 DEF Wake, PhaseInv
<1>4. CASE Flusher
  BY <1>4 DEF Flusher, Snapshot, WriteRound, LeaveLoop, LeaveLoopWhen, FinalFlush,
              FlushLast, Flush
<1>5. CASE Send
  BY <1>5 DEF Send, TypeOK
<1>6. CASE Park
  BY <1>6 DEF Park, ParkWith
<1>7. CASE \E t \in Threads : Hook(t) \/ Producer(t)
  <2> PICK t \in Threads : Hook(t) \/ Producer(t)
    BY <1>7
  <2>1. UNCHANGED <<hardlog_active, sentMeanwhile, kpc>>
    BY HookFrame, ProducerFrame
  <2> QED
    BY <2>1
<1>8. CASE UNCHANGED vars
  BY <1>8 DEF vars
<1> QED
  BY <1>1, <1>2, <1>3, <1>4, <1>5, <1>6, <1>7, <1>8 DEF Next, Rmmod, Kauditd
-----------------------------------------------------------------------------
(* The last flush covers its range, when that does not pass the end of the  *)
(* ring: slots of one lap are in the order of their positions.              *)
LEMMA FinalCellsCover ==
    ASSUME TypeOK, start \div CBUFFSIZE = end \div CBUFFSIZE
    PROVE  start..(end - 1) \subseteq finalCells
<1> DEFINE lap == CBUFFSIZE * (start \div CBUFFSIZE)
<1>1. start \in Nat /\ end \in Nat
  BY DEF TypeOK
<1>2. /\ start = lap + (start % CBUFFSIZE) /\ start % CBUFFSIZE \in Nat
      /\ end = lap + endSlot /\ endSlot \in Nat
  BY <1>1, SlotType, HostModuleAssumption DEF endSlot
<1>3. lap \in Int
  BY <1>1, SlotType, HostModuleAssumption
<1> HIDE DEF lap
<1>4. end - endSlot + startSlot = IF endSlot < start % CBUFFSIZE THEN lap ELSE start
  BY <1>1, <1>2, <1>3 DEF startSlot
<1> QED
  BY <1>1, <1>2, <1>3, <1>4 DEF finalCells

(* What usb_write was called for.                                           *)
LEMMA AskedStep == TypeOK /\ PhaseInv /\ AskedInv /\ [Next]_vars => AskedInv'
<1> SUFFICES ASSUME TypeOK, PhaseInv, AskedInv, [Next]_vars PROVE AskedInv'
  OBVIOUS
<1> USE DEF AskedInv, BacklogAsked, moduleVars, bufVars, flusherVars,
            threadVars, kauditdVars
<1>1. CASE UsbOpen
  BY <1>1 DEF UsbOpen, PhaseInv
<1>2. CASE StartThread
  BY <1>2 DEF StartThread, PhaseInv
<1>3. CASE MakeRing
  BY <1>3 DEF MakeRing, PhaseInv
<1>4. CASE Activate \/ LoadFails \/ StopThread \/ UsbClose \/ Deactivate \/ FreeRing \/ Wake
  BY <1>4 DEF Activate, ActivateIn, LoadFails, StopThread, UsbClose, UsbCloseWhen,
              Deactivate, FreeRing, Wake
<1>5. CASE Unloaded
  BY <1>5 DEF Unloaded
<1>6. CASE Snapshot
  BY <1>6 DEF Snapshot, TypeOK
<1>7. CASE WriteRound
  BY <1>7 DEF WriteRound, Flush, TypeOK
<1>8. CASE LeaveLoop
  BY <1>8 DEF LeaveLoop, LeaveLoopWhen, TypeOK
<1>9. CASE FinalFlush
  <2>1. /\ fpc = "final" /\ fpc' = "done" /\ start' = start /\ end' = end
        /\ asked' = asked \cup finalCells
    BY <1>9 DEF FinalFlush, FlushLast, Flush
  <2>2. 0..(start - 1) \subseteq asked /\ start \in Nat /\ end \in Nat
    BY <2>1 DEF TypeOK
  <2>3. ASSUME start \div CBUFFSIZE = end \div CBUFFSIZE
        PROVE  0..(end - 1) \subseteq asked'
    <3>1. start..(end - 1) \subseteq finalCells
      BY <2>3, FinalCellsCover
    <3> QED
      BY <2>1, <2>2, <3>1
  <2> QED
    BY <2>1, <2>3
<1>10. CASE Kauditd
  BY <1>10 DEF Kauditd, Send, Park, ParkWith
<1>11. CASE \E t \in Threads : Hook(t) \/ Producer(t)
  <2>1. UNCHANGED <<tail, asked, fpc, start, end>>
    BY <1>11, HookFrame, ProducerFrame
  <2> QED
    BY <2>1
<1>12. CASE UNCHANGED vars
  BY <1>12 DEF vars
<1> QED
  BY <1>1, <1>2, <1>3, <1>4, <1>5, <1>6, <1>7, <1>8, <1>9, <1>10, <1>11, <1>12
     DEF Next, Insmod, Rmmod, Flusher
-----------------------------------------------------------------------------
(* The cells.  A copy at or above n leaves the n below as they are.         *)
LEMMA CopyKeeps ==
    ASSUME TypeOK, NEW t \in Threads, CopyEvent(t), NEW n \in Nat, n <= cbuff_head[t]
    PROVE  Tiled(n) => Tiled(n)'
<1> SUFFICES ASSUME Tiled(n), NEW p \in 0..(n - 1)
             PROVE  /\ p \in DOMAIN stream'
                    /\ \E q \in 0..p : /\ p < q + stream'[p].len
                                       /\ q + stream'[p].len <= n
                                       /\ WholeAt(q, stream[p])' /\ stream'[p] = stream[p]
  BY DEF Tiled, WholeAt
<1>1. \A i \in Int : i < n => i \notin Cells(t)
  <2>1. cbuff_head[t] \in Nat /\ record[t].len \in Nat
    BY HostModuleAssumption DEF TypeOK, Record
  <2> QED
    BY <2>1 DEF Cells
<1>2. \A i \in DOMAIN stream : i < n => i \in DOMAIN stream' /\ stream'[i] = stream[i]
  <2>1. /\ DOMAIN stream' = DOMAIN stream \cup Cells(t) /\ DOMAIN stream \subseteq Nat
        /\ \A i \in DOMAIN stream' :
               stream'[i] = IF i \in Cells(t) THEN record[t] ELSE stream[i]
    BY CellsAdded DEF TypeOK
  <2> QED
    BY <1>1, <2>1
<1>3. p \in DOMAIN stream /\ p \in DOMAIN stream' /\ stream'[p] = stream[p]
  BY <1>2 DEF Tiled
<1>4. PICK q \in 0..p : /\ p < q + stream[p].len /\ q + stream[p].len <= n
                        /\ WholeAt(q, stream[p])
  BY DEF Tiled
<1>5. stream[p].len \in Nat
  BY <1>3, HostModuleAssumption DEF TypeOK, Record
<1>6. ASSUME NEW i \in q..(q + stream[p].len - 1)
      PROVE  i \in DOMAIN stream' /\ stream'[i] = stream[p]
  <2>1. i \in DOMAIN stream /\ stream[i] = stream[p] /\ i < n
    BY <1>4, <1>5, <1>6 DEF WholeAt
  <2> QED
    BY <1>2, <2>1
<1>7. WholeAt(q, stream[p])'
  BY <1>3, <1>6 DEF WholeAt
<1> QED
  BY <1>3, <1>4, <1>7

(* A record that is whole behind whole records is one more of them.         *)
LEMMA TiledGrows ==
    ASSUME TypeOK, NEW n \in Nat, Tiled(n), NEW r \in Record, WholeAt(n, r)
    PROVE  Tiled(n + r.len)
<1>1. r.len \in Nat
  BY HostModuleAssumption DEF Record
<1> DEFINE m == n + r.len
           Held(p) == /\ p \in DOMAIN stream
                      /\ \E q \in 0..p : /\ p < q + stream[p].len
                                         /\ q + stream[p].len <= m
                                         /\ WholeAt(q, stream[p])
<1>a. m \in Nat /\ m = n + r.len
  BY <1>1
<1>b. SUFFICES ASSUME NEW p \in 0..(m - 1) PROVE Held(p)
  BY DEF Tiled
<1> HIDE DEF m
<1>2. CASE p < n
  <2>1. p \in 0..(n - 1)
    BY <1>2
  <2>2. p \in DOMAIN stream
    BY <2>1 DEF Tiled
  <2>3. PICK q \in 0..p : /\ p < q + stream[p].len /\ q + stream[p].len <= n
                          /\ WholeAt(q, stream[p])
    BY <2>1 DEF Tiled
  <2>4. stream[p].len \in Nat
    BY <2>2, HostModuleAssumption DEF TypeOK, Record
  <2>5. q + stream[p].len <= m
    BY <1>1, <1>a, <2>3, <2>4
  <2> QED
    BY <2>2, <2>3, <2>5
<1>3. CASE ~(p < n)
  <2>1. p \in n..(n + r.len - 1) /\ n \in 0..p
    BY <1>1, <1>a, <1>3
  <2>2. p \in DOMAIN stream /\ stream[p] = r
    BY <2>1 DEF WholeAt
  <2>3. p < n + stream[p].len /\ n + stream[p].len <= m /\ WholeAt(n, stream[p])
    BY <1>1, <1>a, <2>1, <2>2
  <2> QED
    BY <2>1, <2>2, <2>3
<1> QED
  BY <1>2, <1>3

(* Where cells, head and range are as before, so is what they hold.         *)
LEMMA CellsFrame ==
    ASSUME UNCHANGED stream
    PROVE  /\ \A n : Tiled(n)' = Tiled(n)
           /\ \A q, r : WholeAt(q, r)' = WholeAt(q, r)
  BY DEF Tiled, WholeAt

(* While the mutex is respected, a producer's step keeps the cells whole.   *)
LEMMA ProducerGuarded ==
    ASSUME TypeOK, RecordInv, Guarded, NEW t \in Threads, Producer(t),
           NEW n \in Nat, n <= head, Tiled(n)
    PROVE  Guarded' /\ n <= head' /\ Tiled(n)'
<1>0. /\ \A u \in Threads \ {t} : UNCHANGED <<pc[u], record[u], cbuff_head[u]>>
      /\ pc \in [Threads -> PCs] /\ record \in [Threads -> Record]
      /\ cbuff_head \in [Threads -> Nat] /\ head \in Nat
  BY ThreadsFrame DEF TypeOK, PCs
<1>a. ASSUME InSection(t)
      PROVE  lock = t /\ \A u \in Threads \ {t} : ~InSection(u) /\ ~InSection(u)'
  <2>1. lock = t /\ \A u \in Threads \ {t} : ~InSection(u)
    BY <1>a DEF Guarded
  <2> QED
    BY <1>0, <2>1 DEF InSection
<1>b. \A u \in Threads : pc[u] \in {"copy", "load", "store"} => InSection(u)
  BY DEF InSection
<1>c. \A u \in Threads : pc'[u] \in {"copy", "load", "store"} => InSection(u)'
  BY DEF InSection
<1>1. CASE LockProducer(t)
  <2>1. /\ lock = NoThread /\ lock' = t /\ pc'[t] = "space" /\ UNCHANGED <<stream, head>>
    BY <1>0, <1>1 DEF LockProducer, LockProducerWhen, To, bufVars
  <2>2. \A u \in Threads : ~InSection(u)
    BY <2>1, HostModuleAssumption DEF Guarded
  <2>3. \A u \in Threads \ {t} : ~InSection(u)'
    BY <1>0, <2>2 DEF InSection
  <2> QED
    BY <1>c, <2>1, <2>3, CellsFrame DEF Guarded
<1>2. CASE MakeSpace(t)
  <2>1. /\ InSection(t) /\ lock' = lock /\ UNCHANGED <<stream, head>>
        /\ pc'[t] = "copy" /\ cbuff_head'[t] = head
    BY <1>0, <1>2 DEF MakeSpace, To, InSection, bufVars
  <2> QED
    BY <1>a, <1>c, <2>1, CellsFrame DEF Guarded
<1>3. CASE CopyEvent(t)
  <2>1. /\ InSection(t) /\ lock' = lock /\ UNCHANGED <<head, record>>
        /\ pc[t] = "copy" /\ pc'[t] = "load"
    BY <1>0, <1>3 DEF CopyEvent, To, InSection
  <2>2. cbuff_head[t] = head
    BY <2>1 DEF Guarded
  <2>3. Tiled(head)' /\ Tiled(n)'
    <3>1. ASSUME NEW m \in Nat, m <= head, Tiled(m) PROVE Tiled(m)'
      BY <1>0, <1>3, <2>2, <3>1, CopyKeeps
    <3>2. Tiled(head)'
      <4>1. PICK m \in Nat : m = head
        BY <1>0
      <4>2. Tiled(m)
        BY <4>1 DEF Guarded
      <4>3. Tiled(m)'
        BY <3>1, <4>1, <4>2
      <4>4. m = head'
        BY <2>1, <4>1
      <4> QED
        BY <4>3, <4>4 DEF Tiled
    <3> QED
      BY <3>1, <3>2
  <2>4. WholeAt(head, record[t])'
    <3>1. \A i \in Cells(t) : i \in DOMAIN stream' /\ stream'[i] = record[t]
      BY <1>3, CellsAdded
    <3> QED
      BY <2>1, <2>2, <3>1 DEF WholeAt, Cells
  <2> QED
    BY <1>a, <1>c, <2>1, <2>3, <2>4 DEF Guarded
<1>4. CASE CopyFaults(t)
  <2>1. /\ InSection(t) /\ lock' = lock /\ UNCHANGED <<head, stream>> /\ pc'[t] = "dead"
    BY <1>0, <1>4 DEF CopyFaults, To, InSection, bufVars
  <2>2. ~InSection(t)'
    BY <2>1 DEF InSection
  <2> QED
    BY <1>a, <1>c, <2>1, <2>2, CellsFrame DEF Guarded
<1>5. CASE LoadHead(t)
  <2>1. /\ InSection(t) /\ lock' = lock /\ UNCHANGED <<head, stream, record>>
        /\ pc[t] = "load" /\ pc'[t] = "store" /\ cbuff_head'[t] = head
    BY <1>0, <1>5 DEF LoadHead, To, InSection, bufVars
  <2>2. WholeAt(head, record[t])'
    BY <2>1, CellsFrame DEF Guarded, WholeAt
  <2> QED
    BY <1>a, <1>c, <2>1, <2>2, CellsFrame DEF Guarded
<1>6. CASE StoreHead(t)
  <2>1. /\ InSection(t) /\ lock' = lock /\ UNCHANGED <<stream, record>>
        /\ pc[t] = "store" /\ pc'[t] = "unlock" /\ head' = cbuff_head[t] + record[t].len
    BY <1>0, <1>6 DEF StoreHead, To, InSection
  <2>2. cbuff_head[t] = head /\ WholeAt(head, record[t]) /\ Tiled(head)
    BY <2>1 DEF Guarded
  <2>3. record[t] \in Record /\ record[t].len \in Nat
    BY <1>0, HostModuleAssumption DEF Record
  <2>4. Tiled(head + record[t].len)
    BY <1>0, <2>2, <2>3, TiledGrows
  <2>5. Tiled(head)' /\ head <= head'
    BY <1>0, <2>1, <2>2, <2>3, <2>4 DEF Tiled, WholeAt
  <2> QED
    BY <1>a, <1>c, <1>0, <2>1, <2>3, <2>5, CellsFrame DEF Guarded
<1>7. CASE UnlockProducer(t)
  <2>1. /\ InSection(t) /\ UNCHANGED <<stream, head>> /\ pc'[t] \in {"wait", "idle"}
    BY <1>0, <1>7 DEF UnlockProducer, To, InSection, bufVars
  <2>2. ~InSection(t)'
    BY <2>1 DEF InSection
  <2> QED
    BY <1>a, <1>c, <2>1, <2>2, CellsFrame DEF Guarded
<1>8. CASE WaitFlushed(t)
  <2>1. /\ UNCHANGED <<stream, head, lock, record>> /\ pc'[t] = "idle"
    BY <1>0, <1>8 DEF WaitFlushed, To, bufVars
  <2>2. ~InSection(t)' /\ \A u \in Threads \ {t} : InSection(u)' = InSection(u)
    BY <1>0, <2>1 DEF InSection
  <2> QED
    BY <1>0, <2>1, <2>2, CellsFrame DEF Guarded
<1> QED
  BY <1>1, <1>2, <1>3, <1>4, <1>5, <1>6, <1>7, <1>8 DEF Producer

(* With the mutex unlocked by hardlog_logger_teardown, producers still      *)
(* leave what lies below n, if each of them began at n or above.            *)
LEMMA ProducerUnguarded ==
    ASSUME TypeOK, RecordInv, NEW t \in Threads, Producer(t),
           NEW n \in Nat, n <= head, Tiled(n),
           \A u \in Threads : pc[u] \in {"copy", "store"} => n <= cbuff_head[u]
    PROVE  /\ n <= head' /\ Tiled(n)'
           /\ \A u \in Threads : pc'[u] \in {"copy", "store"} => n <= cbuff_head'[u]
<1>0. /\ \A u \in Threads \ {t} : UNCHANGED <<pc[u], record[u], cbuff_head[u]>>
      /\ pc \in [Threads -> PCs] /\ record \in [Threads -> Record]
      /\ cbuff_head \in [Threads -> Nat] /\ head \in Nat
  BY ThreadsFrame DEF TypeOK, PCs
<1>1. SUFFICES /\ n <= head' /\ Tiled(n)'
               /\ pc'[t] \in {"copy", "store"} => n <= cbuff_head'[t]
  BY <1>0
<1>2. CASE LockProducer(t) \/ CopyFaults(t) \/ UnlockProducer(t) \/ WaitFlushed(t)
  <2>1. UNCHANGED <<head, stream>> /\ pc'[t] \notin {"copy", "store"}
    BY <1>0, <1>2 DEF LockProducer, LockProducerWhen, CopyFaults, UnlockProducer,
                      WaitFlushed, To, bufVars
  <2> QED
    BY <2>1, CellsFrame
<1>3. CASE MakeSpace(t) \/ LoadHead(t)
  <2>1. UNCHANGED <<head, stream>> /\ cbuff_head'[t] = head
    BY <1>0, <1>3 DEF MakeSpace, LoadHead, To, bufVars
  <2> QED
    BY <2>1, CellsFrame
<1>4. CASE CopyEvent(t)
  <2>1. /\ UNCHANGED head /\ pc[t] = "copy" /\ pc'[t] = "load"
    BY <1>0, <1>4 DEF CopyEvent, To
  <2>2. Tiled(n)'
    BY <1>4, <2>1, CopyKeeps
  <2> QED
    BY <2>1, <2>2
<1>5. CASE StoreHead(t)
  <2>1. /\ UNCHANGED stream /\ pc[t] = "store" /\ pc'[t] = "unlock"
        /\ head' = cbuff_head[t] + record[t].len
    BY <1>0, <1>5 DEF StoreHead, To
  <2>2. record[t].len \in Nat /\ cbuff_head[t] \in Nat /\ n <= cbuff_head[t]
    BY <1>0, <2>1, HostModuleAssumption DEF Record
  <2> QED
    BY <2>1, <2>2, CellsFrame
<1> QED
  BY <1>2, <1>3, <1>4, <1>5 DEF Producer

(* No range of the flusher is touched, in any phase.                        *)
LEMMA IntactStep ==
    TypeOK /\ PhaseInv /\ RecordInv /\ AskedInv /\ IntactInv /\ [Next]_vars => IntactInv'
<1> SUFFICES ASSUME TypeOK, PhaseInv, RecordInv, AskedInv, IntactInv, [Next]_vars
             PROVE  IntactInv'
  OBVIOUS
<1> USE DEF moduleVars, bufVars, flusherVars, threadVars, kauditdVars
<1>0. head \in Nat /\ end \in Nat /\ start \in Nat
  BY DEF TypeOK
<1>t. Tiled(0) /\ Tiled(0)'
  BY DEF Tiled
<1>f. ASSUME UNCHANGED <<stream, head, pc, lock, record, cbuff_head>>
      PROVE  Guarded' = Guarded
  BY <1>f DEF Guarded, InSection, Tiled, WholeAt
<1>1. CASE UsbOpen
  BY <1>1 DEF UsbOpen, IntactInv
<1>2. CASE StartThread
  <2>1. /\ mpc = "opened" /\ mpc' = "threaded" /\ end' = 0 /\ head' = head /\ asked' = asked
    BY <1>2 DEF StartThread
  <2>2. asked = {} /\ Tiled(end)'
    BY <1>t, <2>1 DEF PhaseInv, Tiled
  <2> QED
    BY <1>0, <2>1, <2>2 DEF IntactInv
<1>3. CASE MakeRing
  <2>1. /\ mpc = "threaded" /\ mpc' = "made" /\ head = 0 /\ head' = 0
        /\ UNCHANGED <<end, stream, asked>>
    BY <1>3 DEF MakeRing, PhaseInv
  <2> QED
    BY <2>1, CellsFrame DEF IntactInv, Tiled, WholeAt
<1>4. CASE Activate
  <2>1. /\ mpc = "made" /\ mpc' = "in" /\ head = 0
        /\ UNCHANGED <<head, end, stream, asked, pc, lock, record, cbuff_head>>
    BY <1>4 DEF Activate, ActivateIn, PhaseInv
  <2>2. \A t \in Threads : ~InSection(t) /\ pc[t] \notin {"copy", "load", "store"}
    BY <2>1 DEF PhaseInv, Inside, InSection
  <2>3. Guarded
    BY <1>t, <2>1, <2>2 DEF Guarded
  <2> QED
    BY <1>f, <2>1, <2>3 DEF IntactInv, Tiled, WholeAt
<1>5. CASE LoadFails
  BY <1>5 DEF LoadFails, IntactInv
<1>6. CASE StopThread \/ UsbClose \/ FreeRing \/ Wake
  <2>1. /\ UNCHANGED <<head, end, stream, asked, pc, lock, record, cbuff_head>>
        /\ \/ mpc \in {"in", "stopping"} /\ mpc' \in {"stopping", "closed"}
           \/ mpc \in {"inactive", "freed"} /\ mpc' \in {"freed", "woken"}
    BY <1>6 DEF StopThread, UsbClose, UsbCloseWhen, FreeRing, Wake
  <2> QED
    BY <1>f, <2>1 DEF IntactInv, Tiled, WholeAt
<1>7. CASE Deactivate
  <2>1. /\ mpc = "closed" /\ mpc' = "inactive"
        /\ UNCHANGED <<head, end, stream, asked, pc, record, cbuff_head>>
    BY <1>7 DEF Deactivate
  <2>2. \A t \in Threads : pc[t] \in {"copy", "store"} => end <= cbuff_head[t]
    BY <2>1 DEF IntactInv, Guarded
  <2> QED
    BY <2>1, <2>2 DEF IntactInv, Tiled, WholeAt
<1>8. CASE Unloaded
  <2>1. /\ mpc = "woken" /\ mpc' = "out" /\ UNCHANGED <<head, end, stream, asked>>
    BY <1>8 DEF Unloaded
  <2> QED
    BY <2>1 DEF IntactInv, Tiled, WholeAt
<1>9. CASE Snapshot \/ LeaveLoop
  <2>1. /\ end' = head /\ UNCHANGED <<mpc, head, stream, asked, pc, lock, record, cbuff_head>>
        /\ fpc = "loop" /\ HasCode
        /\ head # tail \/ mpc = "stopping"
    BY <1>9 DEF Snapshot, LeaveLoop, LeaveLoopWhen
  <2>2. mpc \in {"in", "stopping"}
    BY <2>1 DEF PhaseInv, HasCode, TypeOK
  <2>3. Guarded /\ end <= head /\ asked \subseteq 0..(end - 1)
    BY <2>2 DEF IntactInv
  <2>4. asked' \subseteq 0..(end' - 1) /\ end' <= head'
    BY <1>0, <2>1, <2>3
  <2>5. Tiled(end)'
    BY <2>1, <2>3 DEF Guarded, Tiled, WholeAt
  <2> QED
    BY <1>f, <2>1, <2>2, <2>3, <2>4, <2>5 DEF IntactInv
<1>10. CASE WriteRound \/ FinalFlush
  <2>1. /\ UNCHANGED <<mpc, head, end, stream, pc, lock, record, cbuff_head>>
        /\ \/ asked' = asked \cup start..(end - 1)
           \/ asked' = asked \cup finalCells
        /\ HasCode
    BY <1>10 DEF WriteRound, FinalFlush, FlushLast, Flush
  <2>2. start..(end - 1) \subseteq 0..(end - 1) /\ finalCells \subseteq 0..(end - 1)
    BY <1>0, FinalCellsType
  <2> QED
    BY <1>f, <2>1, <2>2 DEF IntactInv, Tiled, WholeAt
<1>11. CASE Kauditd
  <2>1. UNCHANGED <<mpc, head, end, stream, asked, pc, lock, record, cbuff_head>>
    BY <1>11 DEF Kauditd, Send, Park, ParkWith
  <2> QED
    BY <1>f, <2>1 DEF IntactInv, Tiled, WholeAt
<1>12. ASSUME NEW t \in Threads, Hook(t)
       PROVE  IntactInv'
  <2>1. /\ UNCHANGED <<mpc, head, end, stream, asked, lock>>
        /\ UNCHANGED cbuff_head
    BY <1>12, HookFrame DEF Hook, Start, Format, NHex, PutField, EndNative, EndHardlog,
                            EndActive, EndShort
  <2>2. /\ \A u \in Threads \ {t} : UNCHANGED <<pc[u], record[u]>>
        /\ ~InSection(t)'
    <3>1. pc \in [Threads -> PCs]
      BY DEF TypeOK, PCs
    <3> QED
      BY <1>12, <3>1, ThreadsFrame
         DEF Hook, Start, Format, NHex, PutField, EndNative, EndHardlog, EndActive,
             EndShort, Ends, To, InSection
  <2>3. \A u \in Threads : InSection(u)' => InSection(u) /\ UNCHANGED <<pc[u], record[u]>>
    BY <2>2 DEF InSection
  <2>4. \A u \in Threads : pc'[u] \in {"copy", "load", "store"} => InSection(u)'
    BY DEF InSection
  <2>5. Guarded => Guarded'
    BY <2>1, <2>3, <2>4, CellsFrame DEF Guarded
  <2>6. Tiled(end)' = Tiled(end)
    BY <2>1, CellsFrame DEF Tiled, WholeAt
  <2> QED
    BY <2>1, <2>3, <2>4, <2>5, <2>6 DEF IntactInv
<1>13. ASSUME NEW t \in Threads, Producer(t)
       PROVE  IntactInv'
  <2>1. Inside(t) /\ UNCHANGED <<mpc, end, asked>>
    BY <1>13, ProducerFrame
  <2>2. mpc \in {"in", "stopping", "closed", "inactive", "freed", "woken"}
    BY <2>1 DEF PhaseInv
  <2>3. end <= head /\ Tiled(end) /\ asked \subseteq 0..(end - 1)
    BY <2>2 DEF IntactInv
  <2>4. CASE mpc \in {"in", "stopping", "closed"}
    <3>1. Guarded
      BY <2>4 DEF IntactInv
    <3>2. PICK n \in Nat : n = end
      BY <1>0
    <3>3. Guarded' /\ n <= head' /\ Tiled(n)'
      BY <1>13, <2>3, <3>1, <3>2, ProducerGuarded
    <3>4. Tiled(end)' /\ end' <= head'
      BY <2>1, <3>2, <3>3 DEF Tiled
    <3> QED
      BY <2>1, <2>3, <2>4, <3>3, <3>4 DEF IntactInv
  <2>5. CASE mpc \in {"inactive", "freed", "woken"}
    <3>1. \A u \in Threads : pc[u] \in {"copy", "store"} => end <= cbuff_head[u]
      BY <2>5 DEF IntactInv
    <3>2. PICK n \in Nat : n = end
      BY <1>0
    <3>3. /\ n <= head' /\ Tiled(n)'
          /\ \A u \in Threads : pc'[u] \in {"copy", "store"} => n <= cbuff_head'[u]
      BY <1>13, <2>3, <3>1, <3>2, ProducerUnguarded
    <3>4. Tiled(end)' /\ end' <= head'
      BY <2>1, <3>2, <3>3 DEF Tiled
    <3> QED
      BY <2>1, <2>3, <2>5, <3>2, <3>3, <3>4 DEF IntactInv
  <2> QED
    BY <2>2, <2>4, <2>5
<1>14. CASE UNCHANGED vars
  <2>1. UNCHANGED <<mpc, head, end, stream, asked, pc, lock, record, cbuff_head>>
    BY <1>14 DEF vars
  <2> QED
    BY <1>f, <2>1 DEF IntactInv, Tiled, WholeAt
<1> QED
  BY <1>1, <1>2, <1>3, <1>4, <1>5, <1>6, <1>7, <1>8, <1>9, <1>10, <1>11, <1>12, <1>13, <1>14
     DEF Next, Insmod, Rmmod, Flusher
-----------------------------------------------------------------------------
(* The records.                                                             *)
LEMMA NextField ==
    ASSUME NEW n \in Nat
    PROVE  Append([i \in 1..n |-> i], n + 1) = [i \in 1..(n + 1) |-> i]
<1> DEFINE s == [i \in 1..n |-> i]
           u == [i \in 1..(n + 1) |-> i]
<1>1. s \in Seq(Nat) /\ Len(s) = n /\ u \in Seq(Nat) /\ Len(u) = n + 1
  OBVIOUS
<1>2. /\ Append(s, n + 1) \in Seq(Nat) /\ Len(Append(s, n + 1)) = n + 1
      /\ \A i \in 1..(n + 1) : Append(s, n + 1)[i] = u[i]
  BY <1>1, AppendProperties
<1> QED
  BY <1>1, <1>2, SeqEqual

(* The record r with one field more.                                        *)
Printed(r, b, n) ==
    [r EXCEPT !.fields = r.fields + 1, !.saw = @ \cup {b},
              !.event = IF b THEN Append(@, r.fields + 1) ELSE @,
              !.native = IF n THEN Append(@, r.fields + 1) ELSE @]

(* A field printed on the side of the flag's value keeps a record as        *)
(* consistent as it was.                                                    *)
LEMMA FieldConsistent ==
    ASSUME NEW r \in Record, Consistent(r), r.fields < Fields,
           NEW b \in BOOLEAN, NEW n \in BOOLEAN, ~b => n
    PROVE  Consistent(Printed(r, b, n))
<1> DEFINE m == r.fields + 1
           s == Printed(r, b, n)
<1>1. /\ r.fields \in Nat /\ r.saw \in SUBSET BOOLEAN
      /\ s.fields = m /\ s.saw = r.saw \cup {b}
      /\ b => s.event = Append(r.event, m)
      /\ n => s.native = Append(r.native, m)
  BY HostModuleAssumption DEF Record, Printed
<1> HIDE DEF s
<1>2. ASSUME s.saw = {TRUE}
      PROVE  s.event = [i \in 1..m |-> i]
  <2>1. b = TRUE /\ r.saw = {TRUE}
    BY <1>1, <1>2 DEF Consistent
  <2> QED
    BY <1>1, <2>1, NextField DEF Consistent
<1>3. ASSUME s.saw = {FALSE}
      PROVE  s.native = [i \in 1..m |-> i]
  <2>1. b \in s.saw /\ r.saw \subseteq s.saw
    BY <1>1
  <2>2. b = FALSE
    BY <1>3, <2>1
  <2>3. r.saw = {FALSE}
    BY <1>3, <2>1 DEF Consistent
  <2> QED
    BY <1>1, <2>2, <2>3, NextField DEF Consistent
<1>4. s.saw # {}
  BY <1>1
<1> QED
  BY <1>1, <1>2, <1>3, <1>4 DEF Consistent, s

(* So does the flag's value at its end, which prints nothing.               *)
LEMMA SawConsistent ==
    ASSUME NEW r \in Record, Consistent(r), NEW b \in BOOLEAN
    PROVE  /\ Consistent([r EXCEPT !.saw = @ \cup {b}])
           /\ \A n : Consistent([r EXCEPT !.saw = @ \cup {b}, !.len = n])
<1> SUFFICES ASSUME NEW s, s.saw = r.saw \cup {b}, s.fields = r.fields,
                    s.event = r.event, s.native = r.native
             PROVE  Consistent(s)
  BY DEF Record
<1>1. \A c \in BOOLEAN : s.saw = {c} => r.saw = {c}
  BY DEF Consistent
<1>2. s.saw # {}
  OBVIOUS
<1> QED
  BY <1>1, <1>2 DEF Consistent

(* A record starts consistent, with no field. *)
LEMMA NewConsistent ==
    ASSUME NEW id \in 0..MaxRecords, NEW b \in BOOLEAN
    PROVE  Consistent(NewRecord(id, b)) /\ NewRecord(id, b).fields = 0
<1>1. <<>> = [i \in 1..0 |-> i]
  BY EmptySeq
<1> QED
  BY <1>1 DEF NewRecord, Consistent

(* A thread without a record has a consistent one. *)
LEMMA NothingConsistent == Consistent(Nothing)
<1>1. 0 \in 0..MaxRecords /\ FALSE \in BOOLEAN
  BY HostModuleAssumption
<1>2. Consistent(NewRecord(0, FALSE))
  BY <1>1, NewConsistent
<1> QED
  BY <1>2 DEF Nothing

RecordOk(t) == /\ Consistent(record[t])
               /\ pc[t] \in {"lock", "space", "copy", "load", "store"} =>
                      /\ record[t].fields = Fields /\ TRUE \in record[t].saw
                      /\ record[t].len \in 1..EVENTSIZE

(* The record of the thread that takes a step.                              *)
LEMMA HookRecord ==
    ASSUME TypeOK, RecordInv, NEW t \in Threads, Hook(t)
    PROVE  RecordInv'
<1>0. /\ record \in [Threads -> Record] /\ record[t] \in Record /\ hardlog_active \in BOOLEAN
      /\ pc \in [Threads -> PCs]
      /\ audit_queue \in Seq(Record)
      /\ \A u \in Threads : RecordOk(u)
      /\ Consistent(record[t])
  BY DEF TypeOK, RecordInv, RecordOk, PCs
<1>1. SUFFICES /\ RecordOk(t)'
               /\ \A u \in Threads \ {t} : record'[u] = record[u] /\ pc'[u] = pc[u]
               /\ audit_queue' # audit_queue =>
                      \E r : Complete(r) /\ audit_queue' = Append(audit_queue, r)
  <2>1. \A u \in Threads : RecordOk(u)'
    BY <1>0, <1>1 DEF RecordOk
  <2>2. \A i \in 1..Len(audit_queue') : Complete(audit_queue'[i])
    <3>1. ASSUME NEW r, Complete(r), audit_queue' = Append(audit_queue, r)
          PROVE  \A i \in 1..Len(audit_queue') : Complete(audit_queue'[i])
      BY <1>0, <3>1, AppendProperties DEF RecordInv
    <3> QED
      BY <1>1, <3>1 DEF RecordInv
  <2>3. UNCHANGED <<stream, sent>>
    BY HookFrame
  <2> QED
    BY <2>1, <2>2, <2>3 DEF RecordInv, RecordOk
<1>2. CASE Start(t)
  <2>1. started' \in 0..MaxRecords
    BY <1>2, HostModuleAssumption DEF Start, TypeOK
  <2>2. record'[t] = NewRecord(started', hardlog_active) /\ pc'[t] = "fields"
    BY <1>0, <1>2 DEF Start, To
  <2>3. Consistent(record'[t])
    BY <1>0, <2>1, <2>2, NewConsistent
  <2> QED
    BY <1>0, <1>2, <2>2, <2>3 DEF Start, To, RecordOk
<1>3. ASSUME NEW n \in BOOLEAN, ~hardlog_active => n, PutField(t, hardlog_active, n)
      PROVE  /\ RecordOk(t)'
             /\ \A u \in Threads \ {t} : record'[u] = record[u] /\ pc'[u] = pc[u]
             /\ audit_queue' = audit_queue
  <2>1. /\ record'[t] = Printed(record[t], hardlog_active, n)
        /\ record[t].fields < Fields
        /\ pc' = pc /\ pc[t] = "fields" /\ audit_queue' = audit_queue
        /\ \A u \in Threads \ {t} : record'[u] = record[u]
    BY <1>0, <1>3 DEF PutField, Printed
  <2>2. Consistent(record'[t])
    <3>1. record[t].fields < Fields /\ hardlog_active \in BOOLEAN /\ n \in BOOLEAN
      BY <1>0, <1>3, <2>1
    <3> QED
      BY <1>0, <1>3, <2>1, <3>1, FieldConsistent
  <2> QED
    BY <2>1, <2>2 DEF RecordOk
<1>4. CASE Format(t)
  BY <1>0, <1>3, <1>4 DEF Format
<1>5. CASE NHex(t)
  BY <1>3, <1>5 DEF NHex
<1>6. CASE EndNative(t)
  <2> DEFINE r == [record[t] EXCEPT !.saw = @ \cup {FALSE}]
  <2>1. Consistent(r)
    BY <1>0, SawConsistent
  <2>2. r.fields = Fields
    BY <1>0, <1>6 DEF EndNative, Ends, Record
  <2>3. audit_queue' = Append(audit_queue, r) /\ Complete(r)
    BY <1>6, <2>1, <2>2 DEF EndNative, Queued, Complete
  <2>4. record'[t] = Nothing /\ pc'[t] = "idle"
    BY <1>0, <1>6 DEF EndNative, To
  <2>5. RecordOk(t)'
    BY <2>4, NothingConsistent DEF RecordOk
  <2>6. \A u \in Threads \ {t} : record'[u] = record[u] /\ pc'[u] = pc[u]
    BY <1>0, <1>6 DEF EndNative, To
  <2> HIDE DEF r
  <2> QED
    BY <2>3, <2>5, <2>6
<1>7. CASE EndHardlog(t)
  <2>1. PICK n \in 1..EVENTSIZE :
            record'[t] = [record[t] EXCEPT !.saw = @ \cup {TRUE}, !.len = n]
    BY <1>0, <1>7 DEF EndHardlog, EndActive
  <2>2. Consistent(record'[t])
    <3>1. Consistent([record[t] EXCEPT !.saw = @ \cup {TRUE}, !.len = n])
      BY <1>0, SawConsistent
    <3> QED
      BY <2>1, <3>1
  <2>3. /\ record'[t].fields = Fields /\ TRUE \in record'[t].saw
        /\ record'[t].len \in 1..EVENTSIZE
    BY <1>0, <1>7, <2>1 DEF EndHardlog, Ends, Record
  <2>4. UNCHANGED audit_queue /\ \A u \in Threads \ {t} : UNCHANGED <<record[u], pc[u]>>
    BY <1>0, <1>7 DEF EndHardlog, EndActive, To
  <2> QED
    BY <2>2, <2>3, <2>4 DEF RecordOk
<1>8. CASE EndShort(t)
  <2>1. record'[t] = Nothing /\ pc'[t] = "idle"
    BY <1>0, <1>8 DEF EndShort, To
  <2> QED
    BY <1>0, <1>8, <2>1, NothingConsistent DEF EndShort, To, RecordOk
<1> QED
  BY <1>2, <1>4, <1>5, <1>6, <1>7, <1>8 DEF Hook

(* What arrives in the ring has all of its fields. *)
LEMMA ProducerRecord ==
    ASSUME TypeOK, RecordInv, NEW t \in Threads, Producer(t)
    PROVE  RecordInv'
<1>0. /\ record \in [Threads -> Record] /\ record[t] \in Record
      /\ pc \in [Threads -> PCs]
      /\ \A u \in Threads : RecordOk(u)
      /\ UNCHANGED <<audit_queue, sent>>
  BY ProducerFrame DEF TypeOK, RecordInv, RecordOk, PCs
<1>a. \A u \in Threads \ {t} : UNCHANGED <<pc[u], record[u]>>
  BY ThreadsFrame
<1>1. CASE CopyEvent(t)
  <2>1. UNCHANGED record /\ pc[t] = "copy" /\ pc'[t] = "load"
    BY <1>0, <1>1 DEF CopyEvent, To
  <2>2. Complete(record[t])
    BY <1>0, <2>1 DEF RecordOk, Complete
  <2>3. \A p \in DOMAIN stream' : Complete(stream'[p])
    <3>1. /\ DOMAIN stream' = DOMAIN stream \cup Cells(t)
          /\ \A p \in DOMAIN stream' : stream'[p] = IF p \in Cells(t) THEN record[t]
                                                     ELSE stream[p]
      BY <1>1, CellsAdded
    <3>2. \A p \in DOMAIN stream : Complete(stream[p])
      BY DEF RecordInv
    <3> QED
      BY <2>2, <3>1, <3>2
  <2>4. \A u \in Threads : RecordOk(u)'
    BY <1>0, <1>a, <2>1 DEF RecordOk
  <2> QED
    BY <1>0, <2>3, <2>4 DEF RecordInv, RecordOk
<1>2. CASE UnlockProducer(t)
  <2>1. UNCHANGED stream /\ record'[t] = Nothing /\ pc'[t] \in {"wait", "idle"}
    BY <1>0, <1>2 DEF UnlockProducer, To, bufVars
  <2>2. \A u \in Threads : RecordOk(u)'
    BY <1>0, <1>a, <2>1, NothingConsistent DEF RecordOk
  <2> QED
    BY <1>0, <2>1, <2>2 DEF RecordInv, RecordOk
<1>3. CASE \/ LockProducer(t) \/ MakeSpace(t) \/ CopyFaults(t) \/ LoadHead(t)
           \/ StoreHead(t) \/ WaitFlushed(t)
  <2>1. UNCHANGED <<record, stream>>
    BY <1>3 DEF LockProducer, LockProducerWhen, MakeSpace, CopyFaults, LoadHead,
                StoreHead, WaitFlushed, bufVars
  <2>2. pc'[t] \in {"lock", "space", "copy", "load", "store"} =>
            pc[t] \in {"lock", "space", "copy", "load", "store"}
    BY <1>0, <1>3 DEF LockProducer, LockProducerWhen, MakeSpace, CopyFaults, LoadHead,
                      StoreHead, WaitFlushed, To
  <2>3. \A u \in Threads : RecordOk(u)'
    BY <1>0, <1>a, <2>1, <2>2 DEF RecordOk
  <2> QED
    BY <1>0, <2>1, <2>3 DEF RecordInv, RecordOk
<1> QED
  BY <1>1, <1>2, <1>3 DEF Producer

(* No step takes a field from a record or adds one out of turn. *)
LEMMA RecordStep == TypeOK /\ RecordInv /\ [Next]_vars => RecordInv'
<1> SUFFICES ASSUME TypeOK, RecordInv, [Next]_vars PROVE RecordInv'
  OBVIOUS
<1> USE DEF moduleVars, bufVars, flusherVars, threadVars, kauditdVars
<1>1. CASE UsbOpen
  <2>1. UNCHANGED <<record, pc, audit_queue, sent>> /\ stream' = NoCells
    BY <1>1 DEF UsbOpen
  <2>2. \A p \in DOMAIN stream' : Complete(stream'[p])
    BY <2>1, NoCellsType
  <2> QED
    BY <2>1, <2>2 DEF RecordInv
<1>2. CASE \/ StartThread \/ MakeRing \/ Activate \/ LoadFails \/ StopThread
           \/ UsbClose \/ Deactivate \/ FreeRing \/ Wake
  <2>1. UNCHANGED <<record, pc, stream, audit_queue, sent>>
    BY <1>2 DEF StartThread, MakeRing, Activate, ActivateIn, LoadFails, StopThread,
                UsbClose, UsbCloseWhen, Deactivate, FreeRing, Wake
  <2> QED
    BY <2>1 DEF RecordInv
<1>3. CASE Unloaded
  <2>1. UNCHANGED <<record, stream, audit_queue, sent>>
    BY <1>3 DEF Unloaded
  <2>2. \A t \in Threads : pc'[t] \in {pc[t], "dead"}
    BY <1>3 DEF Unloaded
  <2> QED
    BY <2>1, <2>2 DEF RecordInv
<1>4. CASE Flusher
  <2>1. UNCHANGED <<record, pc, stream, audit_queue, sent>>
    BY <1>4 DEF Flusher, Snapshot, WriteRound, LeaveLoop, LeaveLoopWhen, FinalFlush,
                FlushLast, Flush
  <2> QED
    BY <2>1 DEF RecordInv
<1>5. CASE Send
  <2> DEFINE r == Head(audit_queue)
  <2>1. /\ audit_queue' = Tail(audit_queue) /\ sent' = Append(sent, r)
        /\ audit_queue # <<>> /\ UNCHANGED <<record, pc, stream>>
    BY <1>5 DEF Send
  <2>2. /\ audit_queue \in Seq(Record) /\ sent \in Seq(Record)
        /\ r = audit_queue[1] /\ Len(audit_queue) \in Nat \ {0}
    BY <2>1, HeadTailProperties, EmptySeq, LenProperties DEF TypeOK
  <2>3. Complete(r)
    BY <2>2 DEF RecordInv
  <2>4. \A i \in 1..Len(sent') : Complete(sent'[i])
    BY <2>1, <2>2, <2>3, AppendProperties DEF RecordInv
  <2>5. \A i \in 1..Len(audit_queue') : Complete(audit_queue'[i])
    <3>1. ASSUME NEW i \in 1..Len(Tail(audit_queue))
          PROVE  Complete(Tail(audit_queue)[i])
      <4>1. /\ i + 1 \in 1..Len(audit_queue)
            /\ Tail(audit_queue)[i] = audit_queue[i + 1]
        BY <2>1, <2>2, HeadTailProperties
      <4> QED
        BY <4>1 DEF RecordInv
    <3> QED
      BY <2>1, <3>1
  <2> QED
    BY <2>1, <2>4, <2>5 DEF RecordInv
<1>6. CASE Park
  BY <1>6 DEF Park, ParkWith, RecordInv
<1>7. CASE \E t \in Threads : Hook(t) \/ Producer(t)
  BY <1>7, HookRecord, ProducerRecord
<1>8. CASE UNCHANGED vars
  BY <1>8 DEF vars, RecordInv
<1> QED
  BY <1>1, <1>2, <1>3, <1>4, <1>5, <1>6, <1>7, <1>8
     DEF Next, Insmod, Rmmod, Kauditd
-----------------------------------------------------------------------------
(* The numbers of the records.                                              *)
LEMMA IdsAre ==
    ASSUME NEW s \in Seq(Record)
    PROVE  Ids(s) = {s[i].id : i \in 1..Len(s)}
  BY LenProperties DEF Ids, Range

NoDup(s) == \A i, j \in 1..Len(s) : s[i].id = s[j].id => i = j

(* One record more is one number more. *)
LEMMA IdsAppend ==
    ASSUME NEW s \in Seq(Record), NEW r \in Record
    PROVE  /\ Ids(Append(s, r)) = Ids(s) \cup {r.id}
           /\ NoDup(s) /\ r.id \notin Ids(s) => NoDup(Append(s, r))
<1> DEFINE u == Append(s, r)
<1>1. /\ u \in Seq(Record) /\ Len(u) = Len(s) + 1 /\ Len(s) \in Nat
      /\ \A i \in 1..Len(s) : u[i] = s[i]
      /\ u[Len(s) + 1] = r
  BY AppendProperties, LenProperties
<1>2. Ids(u) = {u[i].id : i \in 1..Len(u)} /\ Ids(s) = {s[i].id : i \in 1..Len(s)}
  BY <1>1, IdsAre
<1>3. \A i \in 1..Len(u) : i \in 1..Len(s) \/ i = Len(s) + 1
  BY <1>1
<1> HIDE DEF u
<1>4. Ids(u) = Ids(s) \cup {r.id}
  BY <1>1, <1>2, <1>3
<1>5. ASSUME NoDup(s), r.id \notin Ids(s)
      PROVE  NoDup(u)
  BY <1>1, <1>2, <1>3, <1>5 DEF NoDup
<1> QED
  BY <1>4, <1>5 DEF u

(* The first record's number goes with it. *)
LEMMA IdsTail ==
    ASSUME NEW s \in Seq(Record), s # <<>>
    PROVE  /\ Ids(s) = Ids(Tail(s)) \cup {Head(s).id}
           /\ NoDup(s) => NoDup(Tail(s)) /\ Head(s).id \notin Ids(Tail(s))
<1> DEFINE u == Tail(s)
<1>1. /\ u \in Seq(Record) /\ Len(s) \in Nat \ {0} /\ Len(u) = Len(s) - 1
      /\ \A i \in 1..Len(u) : u[i] = s[i + 1] /\ i + 1 \in 1..Len(s)
      /\ Head(s) = s[1] /\ 1 \in 1..Len(s)
  BY HeadTailProperties, LenProperties, EmptySeq
<1>2. Ids(u) = {u[i].id : i \in 1..Len(u)} /\ Ids(s) = {s[i].id : i \in 1..Len(s)}
  BY <1>1, IdsAre
<1>3. \A i \in 1..Len(s) : i = 1 \/ (i - 1 \in 1..Len(u) /\ s[i] = u[i - 1])
  BY <1>1
<1> HIDE DEF u
<1>4. Ids(s) = Ids(u) \cup {Head(s).id}
  BY <1>1, <1>2, <1>3
<1>5. ASSUME NoDup(s)
      PROVE  NoDup(u) /\ Head(s).id \notin Ids(u)
  <2>1. NoDup(u)
    BY <1>1, <1>5 DEF NoDup
  <2>2. \A i \in 1..Len(u) : u[i].id # s[1].id
    BY <1>1, <1>5 DEF NoDup
  <2> QED
    BY <1>1, <1>2, <2>1, <2>2
<1> QED
  BY <1>4, <1>5 DEF u

(* The cells of a record bring its number only. *)
LEMMA IdsCells ==
    ASSUME TypeOK, NEW t \in Threads, CopyEvent(t)
    PROVE  Ids(stream') \subseteq Ids(stream) \cup {record[t].id}
<1>1. \A p \in DOMAIN stream' : stream'[p].id \in Ids(stream) \cup {record[t].id}
  BY CellsAdded DEF Ids, Range
<1> QED
  BY <1>1 DEF Ids, Range

(* The cells of a concatenation without a number twice are as many as       *)
(* their numbers.                                                           *)
LEMMA IdsConcat ==
    ASSUME NEW s \in Seq(Record), NEW u \in Seq(Record)
    PROVE  /\ Ids(s \o u) = Ids(s) \cup Ids(u)
           /\ NoDup(s) /\ NoDup(u) /\ Ids(s) \cap Ids(u) = {} =>
                  Cardinality(Ids(s \o u)) = Len(s \o u)
<1> DEFINE w == s \o u
<1>1. /\ w \in Seq(Record) /\ Len(s) \in Nat /\ Len(u) \in Nat
      /\ Len(w) = Len(s) + Len(u)
      /\ \A i \in 1..Len(w) : w[i] = IF i <= Len(s) THEN s[i] ELSE u[i - Len(s)]
  BY ConcatProperties, LenProperties
<1>2. /\ Ids(w) = {w[i].id : i \in 1..Len(w)}
      /\ Ids(s) = {s[i].id : i \in 1..Len(s)}
      /\ Ids(u) = {u[i].id : i \in 1..Len(u)}
  BY <1>1, IdsAre
<1> HIDE DEF w
<1>3. /\ \A i \in 1..Len(s) : i \in 1..Len(w) /\ w[i] = s[i]
      /\ \A i \in 1..Len(u) : i + Len(s) \in 1..Len(w) /\ w[i + Len(s)] = u[i]
      /\ \A i \in 1..Len(w) : \/ i \in 1..Len(s)
                              \/ i - Len(s) \in 1..Len(u) /\ w[i] = u[i - Len(s)]
  <2>1. ASSUME NEW i \in 1..Len(s) PROVE i \in 1..Len(w) /\ w[i] = s[i]
    <3>1. i \in 1..Len(w) /\ i <= Len(s)
      BY <1>1
    <3> QED
      BY <1>1, <3>1
  <2>2. ASSUME NEW i \in 1..Len(u)
        PROVE  i + Len(s) \in 1..Len(w) /\ w[i + Len(s)] = u[i]
    <3>1. /\ i + Len(s) \in 1..Len(w) /\ ~(i + Len(s) <= Len(s))
          /\ (i + Len(s)) - Len(s) = i
      BY <1>1
    <3>2. w[i + Len(s)] = u[(i + Len(s)) - Len(s)]
      BY <1>1, <3>1
    <3> QED
      BY <3>1, <3>2
  <2>3. ASSUME NEW i \in 1..Len(w), i \notin 1..Len(s)
        PROVE  i - Len(s) \in 1..Len(u) /\ w[i] = u[i - Len(s)]
    <3>1. ~(i <= Len(s)) /\ i - Len(s) \in 1..Len(u)
      BY <1>1, <2>3
    <3> QED
      BY <1>1, <3>1
  <2> QED
    BY <2>1, <2>2, <2>3
<1>4. Ids(w) = Ids(s) \cup Ids(u)
  <2>1. \A i \in 1..Len(w) : w[i].id \in Ids(s) \cup Ids(u)
    BY <1>2, <1>3
  <2>2. /\ \A i \in 1..Len(s) : s[i].id \in Ids(w)
        /\ \A i \in 1..Len(u) : u[i].id \in Ids(w)
    BY <1>2, <1>3
  <2> QED
    BY <1>2, <2>1, <2>2
<1>5. ASSUME NoDup(s), NoDup(u), Ids(s) \cap Ids(u) = {}
      PROVE  Cardinality(Ids(w)) = Len(w)
  <2>1. \A i, j \in 1..Len(w) : w[i].id = w[j].id => i = j
    <3> SUFFICES ASSUME NEW i \in 1..Len(w), NEW j \in 1..Len(w), w[i].id = w[j].id
                 PROVE  i = j
      OBVIOUS
    <3>1. CASE i \in 1..Len(s) /\ j \in 1..Len(s)
      BY <1>3, <1>5, <3>1 DEF NoDup
    <3>2. CASE i \notin 1..Len(s) /\ j \notin 1..Len(s)
      <4>1. /\ i - Len(s) \in 1..Len(u) /\ w[i] = u[i - Len(s)]
            /\ j - Len(s) \in 1..Len(u) /\ w[j] = u[j - Len(s)]
        BY <1>3, <3>2
      <4>2. i - Len(s) = j - Len(s)
        BY <1>5, <4>1 DEF NoDup
      <4> QED
        BY <1>1, <4>2
    <3>3. ASSUME NEW k \in 1..Len(w), NEW m \in 1..Len(w), w[k].id = w[m].id,
                 k \in 1..Len(s), m \notin 1..Len(s)
          PROVE  FALSE
      <4>1. w[k] = s[k] /\ s[k].id \in Ids(s)
        BY <1>2, <1>3, <3>3
      <4>2. /\ m - Len(s) \in 1..Len(u)
            /\ w[m] = u[m - Len(s)]
        BY <1>3, <3>3
      <4>3. u[m - Len(s)].id \in Ids(u)
        BY <1>2, <4>2
      <4> QED
        BY <1>5, <3>3, <4>1, <4>2, <4>3
    <3> QED
      BY <3>1, <3>2, <3>3
  <2> DEFINE f == [i \in 1..Len(w) |-> w[i].id]
  <2>2. f \in Bijection(1..Len(w), Ids(w))
    BY <1>2, <2>1 DEF Bijection, Injection, Surjection, IsInjective
  <2>3. /\ IsFiniteSet(1..Len(w)) /\ Cardinality(1..Len(w)) = Len(w)
    BY <1>1, FS_Interval
  <2> QED
    BY <2>2, <2>3, FS_Bijection DEF ExistsBijection
<1> QED
  BY <1>4, <1>5 DEF w

Live(t) == pc[t] \in {"fields", "lock", "space", "copy"}
Taken == Ids(stream) \cup Ids(audit_queue) \cup Ids(sent)

(* Every record that is being made has a number of its own, and none of     *)
(* those that arrived; those are on one side, and with kauditd once.        *)
IdInv ==
    /\ \A t \in Threads : Live(t) =>
           /\ record[t].id \in 1..started /\ record[t].id \notin Taken
           /\ \A u \in Threads \ {t} : Live(u) => record[u].id # record[t].id
    /\ \A i \in Taken : i <= started
    /\ Ids(stream) \cap (Ids(audit_queue) \cup Ids(sent)) = {}
    /\ NoDup(audit_queue) /\ NoDup(sent) /\ Ids(audit_queue) \cap Ids(sent) = {}

(* A thread's record goes on or away: nothing arrives but this record.      *)
LEMMA ThreadIds ==
    ASSUME TypeOK, IdInv, NEW t \in Threads,
           \A u \in Threads \ {t} : record'[u] = record[u] /\ pc'[u] = pc[u],
           Live(t)' => Live(t) /\ record'[t].id = record[t].id,
           started' = started,
           UNCHANGED <<stream, audit_queue, sent>>
    PROVE  IdInv'
<1>1. UNCHANGED Taken
  BY DEF Taken, Ids, Range
<1>2. \A u \in Threads : Live(u)' => Live(u) /\ record'[u].id = record[u].id
  BY DEF Live
<1> QED
  BY <1>1, <1>2 DEF IdInv

(* The hooks number records anew, or hand one number to kauditd. *)
LEMMA HookIds == ASSUME TypeOK, IdInv, NEW t \in Threads, Hook(t) PROVE IdInv'
<1>0. /\ record \in [Threads -> Record] /\ record[t] \in Record /\ started \in Nat
      /\ pc \in [Threads -> PCs]
      /\ audit_queue \in Seq(Record)
      /\ UNCHANGED <<stream, sent>>
  BY HostModuleAssumption, HookFrame DEF TypeOK, PCs
<1>1. CASE Start(t)
  <2>1. /\ started' = started + 1 /\ record'[t].id = started'
        /\ UNCHANGED audit_queue /\ pc[t] = "idle"
        /\ \A u \in Threads \ {t} : record'[u] = record[u] /\ pc'[u] = pc[u]
    BY <1>0, <1>1 DEF Start, To, NewRecord
  <2>2. UNCHANGED Taken /\ \A i \in Taken : i < started' /\ i <= started'
    <3>1. \A i \in Taken : i <= started /\ i \in Nat
      <4>2. Ids(stream) \subseteq Nat
        <5>1. \A p \in DOMAIN stream : stream[p].id \in Nat
          BY HostModuleAssumption DEF TypeOK, Record
        <5> QED
          BY <5>1 DEF Ids, Range
      <4>1. ASSUME NEW s \in Seq(Record) PROVE Ids(s) \subseteq Nat
        <5>1. \A i \in 1..Len(s) : s[i] \in Record
          OBVIOUS
        <5>2. \A i \in 1..Len(s) : s[i].id \in Nat
          <6>1. \A r \in Record : r.id \in Nat
            BY HostModuleAssumption DEF Record
          <6> QED
            BY <5>1, <6>1
        <5> QED
          BY <5>2, IdsAre
      <4> QED
        BY <4>1, <4>2 DEF IdInv, Taken, TypeOK
    <3> QED
      BY <1>0, <2>1, <3>1 DEF Taken
  <2>3. \A u \in Threads \ {t} : Live(u)' => Live(u) /\ record'[u].id \in 1..started
    BY <2>1 DEF IdInv, Live
  <2>4. \A u \in Threads : Live(u)' =>
            /\ record'[u].id \in 1..started' /\ record'[u].id \notin Taken
            /\ \A v \in Threads \ {u} : Live(v)' => record'[v].id # record'[u].id
    BY <1>0, <2>1, <2>2, <2>3 DEF IdInv
  <2> QED
    BY <1>0, <2>1, <2>2, <2>4 DEF IdInv
<1>2. CASE Format(t) \/ NHex(t)
  <2>1. PICK b \in BOOLEAN, n \in BOOLEAN : PutField(t, b, n)
    BY <1>2 DEF Format, NHex, TypeOK
  <2>2. /\ record'[t].id = record[t].id /\ pc' = pc /\ started' = started
        /\ UNCHANGED audit_queue
        /\ \A u \in Threads \ {t} : record'[u] = record[u]
    BY <1>0, <2>1 DEF PutField, Record
  <2>3. Live(t)' => Live(t) /\ record'[t].id = record[t].id
    BY <2>2 DEF Live
  <2>4. \A u \in Threads \ {t} : record'[u] = record[u] /\ pc'[u] = pc[u]
    BY <2>2
  <2>5. UNCHANGED <<stream, audit_queue, sent>> /\ started' = started
    BY <1>0, <2>2
  <2> QED
    BY <2>3, <2>4, <2>5, ThreadIds
<1>3. CASE EndNative(t)
  <2> DEFINE r == [record[t] EXCEPT !.saw = @ \cup {FALSE}]
  <2>1. r \in Record /\ r.id = record[t].id
    BY <1>0, SawType DEF Record
  <2>2. audit_queue' = Append(audit_queue, r) /\ started' = started
    BY <1>3 DEF EndNative, Queued
  <2> HIDE DEF r
  <2>3. /\ Live(t) /\ ~Live(t)'
        /\ \A u \in Threads \ {t} : record'[u] = record[u] /\ pc'[u] = pc[u]
    BY <1>0, <1>3 DEF EndNative, Ends, To, Live
  <2>4. record[t].id \notin Taken /\ record[t].id \in 1..started
    BY <2>3 DEF IdInv
  <2>5. /\ Ids(audit_queue') = Ids(audit_queue) \cup {record[t].id}
        /\ NoDup(audit_queue')
    BY <1>0, <2>1, <2>2, <2>4, IdsAppend DEF IdInv, Taken
  <2>6. Taken' = Taken \cup {record[t].id}
    BY <1>0, <2>5 DEF Taken
  <2>7. \A u \in Threads : Live(u)' =>
            /\ record'[u].id \in 1..started' /\ record'[u].id \notin Taken'
            /\ \A v \in Threads \ {u} : Live(v)' => record'[v].id # record'[u].id
    BY <2>2, <2>3, <2>6 DEF IdInv, Live
  <2>8. /\ \A i \in Taken' : i <= started'
        /\ Ids(stream)' \cap (Ids(audit_queue)' \cup Ids(sent)') = {}
        /\ Ids(audit_queue)' \cap Ids(sent)' = {}
    BY <1>0, <2>2, <2>4, <2>5, <2>6 DEF IdInv, Taken
  <2> QED
    BY <1>0, <2>5, <2>7, <2>8 DEF IdInv
<1>4. CASE EndHardlog(t)
  <2>1. /\ record'[t].id = record[t].id /\ started' = started /\ Live(t)
        /\ UNCHANGED audit_queue
        /\ \A u \in Threads \ {t} : record'[u] = record[u] /\ pc'[u] = pc[u]
    BY <1>0, <1>4 DEF EndHardlog, EndActive, Ends, To, Record, Live
  <2> QED
    BY <1>0, <2>1, ThreadIds
<1>5. CASE EndShort(t)
  <2>1. /\ ~Live(t)' /\ started' = started
        /\ UNCHANGED audit_queue
        /\ \A u \in Threads \ {t} : record'[u] = record[u] /\ pc'[u] = pc[u]
    BY <1>0, <1>5 DEF EndShort, To, Live
  <2> QED
    BY <1>0, <2>1, ThreadIds
<1> QED
  BY <1>1, <1>2, <1>3, <1>4, <1>5 DEF Hook

(* A producer hands one number to the ring. *)
LEMMA ProducerIds == ASSUME TypeOK, IdInv, NEW t \in Threads, Producer(t) PROVE IdInv'
<1>0. /\ record \in [Threads -> Record] /\ pc \in [Threads -> PCs]
      /\ UNCHANGED <<audit_queue, sent>>
      /\ \A u \in Threads \ {t} : record'[u] = record[u] /\ pc'[u] = pc[u]
  BY ProducerFrame, ThreadsFrame DEF TypeOK, PCs
<1>1. CASE CopyEvent(t)
  <2>1. Ids(stream') \subseteq Ids(stream) \cup {record[t].id}
    BY <1>1, IdsCells
  <2>2. Live(t) /\ ~Live(t)' /\ started' = started
    BY <1>0, <1>1 DEF CopyEvent, To, Live
  <2>3. record[t].id \notin Taken /\ record[t].id \in 1..started
    BY <2>2 DEF IdInv
  <2>4. Taken' \subseteq Taken \cup {record[t].id}
    BY <1>0, <2>1 DEF Taken
  <2>5. \A u \in Threads : Live(u)' =>
            /\ record'[u].id \in 1..started' /\ record'[u].id \notin Taken'
            /\ \A v \in Threads \ {u} : Live(v)' => record'[v].id # record'[u].id
    BY <1>0, <2>2, <2>4 DEF IdInv, Live
  <2>6. /\ \A i \in Taken' : i <= started'
        /\ Ids(stream)' \cap (Ids(audit_queue)' \cup Ids(sent)') = {}
    BY <1>0, <2>1, <2>2, <2>3, <2>4 DEF IdInv, Taken
  <2> QED
    BY <1>0, <2>5, <2>6 DEF IdInv
<1>2. CASE \/ LockProducer(t) \/ MakeSpace(t) \/ CopyFaults(t) \/ LoadHead(t)
           \/ StoreHead(t) \/ UnlockProducer(t) \/ WaitFlushed(t)
  <2>1. UNCHANGED <<stream, started>>
    BY <1>2 DEF LockProducer, LockProducerWhen, MakeSpace, CopyFaults, LoadHead,
                StoreHead, UnlockProducer, WaitFlushed, bufVars
  <2>2. Live(t)' => Live(t) /\ record'[t].id = record[t].id
    BY <1>0, <1>2 DEF LockProducer, LockProducerWhen, MakeSpace, CopyFaults, LoadHead,
                      StoreHead, UnlockProducer, WaitFlushed, To, Live
  <2> QED
    BY <1>0, <2>1, <2>2, ThreadIds
<1> QED
  BY <1>1, <1>2 DEF Producer

(* kauditd moves numbers from its queue to what it sent. *)
LEMMA IdStep == TypeOK /\ IdInv /\ [Next]_vars => IdInv'
<1> SUFFICES ASSUME TypeOK, IdInv, [Next]_vars PROVE IdInv'
  OBVIOUS
<1> USE DEF moduleVars, bufVars, flusherVars, threadVars, kauditdVars
<1>1. CASE UsbOpen
  <2>1. UNCHANGED <<record, pc, started, audit_queue, sent>> /\ stream' = NoCells
    BY <1>1 DEF UsbOpen
  <2>2. Ids(stream') = {}
    BY <2>1, NoCellsType DEF Ids, Range
  <2>3. Taken' \subseteq Taken
    BY <2>1, <2>2 DEF Taken
  <2> QED
    BY <2>1, <2>2, <2>3 DEF IdInv, Live
<1>2. CASE \/ StartThread \/ MakeRing \/ Activate \/ LoadFails \/ StopThread
           \/ UsbClose \/ Deactivate \/ FreeRing \/ Wake \/ Park
  <2>1. UNCHANGED <<record, pc, started, stream, audit_queue, sent>>
    BY <1>2 DEF StartThread, MakeRing, Activate, ActivateIn, LoadFails, StopThread,
                UsbClose, UsbCloseWhen, Deactivate, FreeRing, Wake, Park, ParkWith
  <2> QED
    BY <2>1 DEF IdInv, Taken, Live
<1>3. CASE Unloaded
  <2>1. UNCHANGED <<record, started, stream, audit_queue, sent>>
    BY <1>3 DEF Unloaded
  <2>2. \A t \in Threads : Live(t)' => Live(t)
    BY <1>3 DEF Unloaded, Live
  <2> QED
    BY <2>1, <2>2 DEF IdInv, Taken
<1>4. CASE Flusher
  <2>1. UNCHANGED <<record, pc, started, stream, audit_queue, sent>>
    BY <1>4 DEF Flusher, Snapshot, WriteRound, LeaveLoop, LeaveLoopWhen, FinalFlush,
                FlushLast, Flush
  <2> QED
    BY <2>1 DEF IdInv, Taken, Live
<1>5. CASE Send
  <2> DEFINE r == Head(audit_queue)
  <2>1. /\ audit_queue' = Tail(audit_queue) /\ sent' = Append(sent, r)
        /\ audit_queue # <<>> /\ UNCHANGED <<record, pc, started, stream>>
    BY <1>5 DEF Send
  <2>2. /\ audit_queue \in Seq(Record) /\ sent \in Seq(Record) /\ r \in Record
    BY <2>1, HeadTailProperties DEF TypeOK
  <2>3. /\ Ids(audit_queue) = Ids(audit_queue') \cup {r.id}
        /\ NoDup(audit_queue') /\ r.id \notin Ids(audit_queue')
    BY <2>1, <2>2, IdsTail DEF IdInv
  <2>4. r.id \notin Ids(sent)
    BY <2>3 DEF IdInv
  <2>5. Ids(sent') = Ids(sent) \cup {r.id} /\ NoDup(sent')
    BY <2>1, <2>2, <2>4, IdsAppend DEF IdInv
  <2> HIDE DEF r
  <2>6. Taken' = Taken
    BY <2>1, <2>3, <2>5 DEF Taken
  <2>7. /\ Ids(stream)' \cap (Ids(audit_queue)' \cup Ids(sent)') = {}
        /\ Ids(audit_queue)' \cap Ids(sent)' = {}
    BY <2>1, <2>3, <2>5 DEF IdInv
  <2> QED
    BY <2>1, <2>3, <2>5, <2>6, <2>7 DEF IdInv, Live
<1>6. CASE \E t \in Threads : Hook(t) \/ Producer(t)
  BY <1>6, HookIds, ProducerIds
<1>7. CASE UNCHANGED vars
  BY <1>7 DEF vars, IdInv, Taken, Live
<1> QED
  BY <1>1, <1>2, <1>3, <1>4, <1>5, <1>6, <1>7
     DEF Next, Insmod, Rmmod, Kauditd
-----------------------------------------------------------------------------
(* The invariant, and what it proves.                                       *)
IInv == TypeOK /\ PhaseInv /\ QuietInv /\ AskedInv /\ IntactInv /\ RecordInv /\ IdInv

(* It holds of the kernel as it boots. *)
LEMMA InitIInv == Init => IInv
<1> SUFFICES ASSUME Init PROVE IInv
  OBVIOUS
<1>1. PhaseInv /\ QuietInv
  BY DEF Init, PhaseInv, QuietInv, Inside, InSection
<1>2. AskedInv /\ IntactInv
  BY DEF Init, AskedInv, BacklogAsked, IntactInv, Tiled
<1>3. RecordInv
  BY NothingConsistent, NoCellsType DEF Init, RecordInv
<1>4. IdInv
  <2>1. Ids(stream) = {} /\ Ids(audit_queue) = {} /\ Ids(sent) = {}
    BY NoCellsType DEF Init, Ids, Range
  <2>2. NoDup(audit_queue) /\ NoDup(sent)
    BY DEF Init, NoDup
  <2>3. \A t \in Threads : ~Live(t)
    BY DEF Init, Live
  <2> QED
    BY <2>1, <2>2, <2>3 DEF IdInv, Taken
<1> QED
  BY <1>1, <1>2, <1>3, <1>4, InitTypeOK DEF IInv

(* Every step keeps the types. *)
LEMMA TypeStep == TypeOK /\ PhaseInv /\ [Next]_vars => TypeOK'
<1> SUFFICES ASSUME TypeOK, PhaseInv, [Next]_vars PROVE TypeOK'
  OBVIOUS
<1>1. CASE UNCHANGED vars
  BY <1>1 DEF vars, moduleVars, bufVars, flusherVars, threadVars, kauditdVars, TypeOK
<1>2. CASE Next
  BY <1>2, ModuleTypeOK, HookTypeOK, ProducerTypeOK, FlusherTypeOK, KauditdTypeOK
     DEF Next
<1> QED
  BY <1>1, <1>2

(* What the module, the hooks and the flusher keep together, in every       *)
(* interleaving of loads, unloads and logging.                              *)
THEOREM Invariance == Spec => []IInv
<1>1. IInv /\ [Next]_vars => IInv'
  BY TypeStep, PhaseStep, QuietStep, AskedStep, IntactStep, RecordStep, IdStep DEF IInv
<1> QED
  BY InitIInv, <1>1, PTL DEF Spec

(* Every variable has its type.                                             *)
THEOREM TypeCorrect == Spec => []TypeOK
<1>1. IInv => TypeOK
  BY DEF IInv
<1> QED
  BY <1>1, Invariance, PTL

(* Records are diverted only to a ring that is there and by a module that   *)
(* is loaded.                                                               *)
THEOREM DivertedOnlyToRing == Spec => []DivertedToRing
<1>1. IInv => DivertedToRing
  BY DEF IInv, PhaseInv, DivertedToRing
<1> QED
  BY <1>1, Invariance, PTL

(* The flusher writes to an open device from a ring that is there.          *)
THEOREM FlusherHasMeans == Spec => []WritesWithMeans
<1>1. IInv => WritesWithMeans
  BY DEF IInv, TypeOK, PhaseInv, WritesWithMeans
<1> QED
  BY <1>1, Invariance, PTL

(* kauditd sends one record at most under the flag.                         *)
THEOREM KauditdIsQuiet == Spec => []KauditdQuiet
<1>1. IInv => KauditdQuiet
  BY DEF IInv, QuietInv, KauditdQuiet
<1> QED
  BY <1>1, Invariance, PTL

(* usb_write was called for all of a backlog that does not pass the end of  *)
(* the ring.                                                                *)
THEOREM BacklogIsAsked == Spec => []BacklogAsked
<1>1. IInv => BacklogAsked
  BY DEF IInv, AskedInv
<1> QED
  BY <1>1, Invariance, PTL

(* What usb_write was called for are whole records that nothing was copied  *)
(* over, whatever unload does to the mutex.                                 *)
THEOREM AskedIsIntact == Spec => []AskedIntact
<1>1. IInv => AskedIntact
  <2> SUFFICES ASSUME IInv PROVE AskedIntact
    OBVIOUS
  <2>1. CASE mpc \in {"opened", "failed"}
    BY <2>1 DEF IInv, PhaseInv, AskedIntact
  <2>2. CASE mpc \notin {"opened", "failed"}
    BY <2>2 DEF IInv, IntactInv, Tiled, AskedIntact
  <2> QED
    BY <2>1, <2>2
<1> QED
  BY <1>1, Invariance, PTL

(* A record of which the hooks saw one value of the flag arrives whole.     *)
THEOREM RecordsAreWhole == Spec => []WholeRecords
<1>1. IInv => WholeRecords
  <2> SUFFICES ASSUME IInv PROVE WholeRecords
    OBVIOUS
  <2>1. audit_queue \in Seq(Record) /\ sent \in Seq(Record)
    BY DEF IInv, TypeOK
  <2>2. /\ \A r \in Range(stream) : Complete(r)
        /\ \A r \in Range(audit_queue) : Complete(r)
        /\ \A r \in Range(sent) : Complete(r)
    BY <2>1, LenProperties DEF IInv, RecordInv, Range
  <2>3. \A r \in Range(audit_queue \o sent) : r \in Range(audit_queue) \cup Range(sent)
    <3> DEFINE w == audit_queue \o sent
    <3>1. /\ w \in Seq(Record) /\ DOMAIN w = 1..Len(w)
          /\ DOMAIN audit_queue = 1..Len(audit_queue) /\ DOMAIN sent = 1..Len(sent)
          /\ Len(audit_queue) \in Nat /\ Len(sent) \in Nat
          /\ Len(w) = Len(audit_queue) + Len(sent)
          /\ \A i \in 1..Len(w) : w[i] = IF i <= Len(audit_queue)
                                         THEN audit_queue[i] ELSE sent[i - Len(audit_queue)]
      BY <2>1, ConcatProperties, LenProperties
    <3> HIDE DEF w
    <3>2. ASSUME NEW i \in 1..Len(w)
          PROVE  w[i] \in Range(audit_queue) \cup Range(sent)
      <4>1. CASE i <= Len(audit_queue)
        <5>1. i \in 1..Len(audit_queue) /\ w[i] = audit_queue[i]
          BY <3>1, <4>1
        <5> QED
          BY <3>1, <5>1 DEF Range
      <4>2. CASE ~(i <= Len(audit_queue))
        <5>1. i - Len(audit_queue) \in 1..Len(sent) /\ w[i] = sent[i - Len(audit_queue)]
          BY <3>1, <4>2
        <5> QED
          BY <3>1, <5>1 DEF Range
      <4> QED
        BY <4>1, <4>2
    <3>3. \A r \in Range(w) : r \in Range(audit_queue) \cup Range(sent)
      BY <3>1, <3>2 DEF Range
    <3> QED
      BY <3>3 DEF w
  <2> QED
    BY <2>2, <2>3 DEF WholeRecords, Whole, Complete, Consistent
<1> QED
  BY <1>1, Invariance, PTL

(* No record arrives on both sides, none twice with kauditd.                *)
THEOREM RecordsOnOneSide == Spec => []OneSide
<1>1. IInv => OneSide
  <2> SUFFICES ASSUME IInv PROVE OneSide
    OBVIOUS
  <2>1. audit_queue \in Seq(Record) /\ sent \in Seq(Record)
    BY DEF IInv, TypeOK
  <2>2. /\ Ids(audit_queue \o sent) = Ids(audit_queue) \cup Ids(sent)
        /\ Cardinality(Ids(audit_queue \o sent)) = Len(audit_queue \o sent)
    BY <2>1, IdsConcat DEF IInv, IdInv
  <2> QED
    BY <2>2 DEF IInv, IdInv, OneSide
<1> QED
  BY <1>1, Invariance, PTL
=============================================================================
