--------------------------- MODULE DeviceBufProofs ---------------------------
(* Proofs about DeviceBuf for every size of the ring and of a transfer, and *)
(* for any length of the stream.                                            *)
EXTENDS DeviceBufProperties, SequenceTheorems, TLAPS

(* One receiver is between the test for room and the head's update; the     *)
(* tail only ever moves to a head seen before.                              *)
BacklogInv ==
    /\ rpc \in {"space", "copy", "publish", "late"} => amount \in 1..BUFLEN
    /\ rpc \in {"copy", "publish"} => head - tail < CBUFFSIZE
    /\ rpc = "late" => ~InOrder /\ amount <= head
    /\ BoundedBacklog

(* The flusher's slots are those of its range, and say which way it writes. *)
RangeInv ==
    /\ fpc # "loop" => /\ real_end \in tail..head
                       /\ start = tail % CBUFFSIZE /\ end = real_end % CBUFFSIZE
                       /\ start # end
    /\ fpc = "write" => start < end
    /\ fpc \in {"first", "second"} => end < start

(* A slot that holds a block of before the snapshot holds what it held when *)
(* it was written: the receiver copies only blocks of after it.             *)
FileInv ==
    InOrder /\ ~FileMayFail =>
        /\ fpc = "second" =>
               /\ Len(file) >= CBUFFSIZE - start
               /\ \A i \in start..(CBUFFSIZE - 1) : buffer[i] < real_end =>
                      file[Len(file) - CBUFFSIZE + i + 1] = buffer[i]
        /\ fpc = "advance" /\ start < end =>
               /\ Len(file) >= end - start
               /\ \A i \in start..(end - 1) : buffer[i] < real_end =>
                      file[Len(file) - end + i + 1] = buffer[i]
        /\ fpc = "advance" /\ end < start =>
               /\ Len(file) >= CBUFFSIZE - start + end
               /\ \A i \in start..(CBUFFSIZE - 1) : buffer[i] < real_end =>
                      file[Len(file) - end - CBUFFSIZE + i + 1] = buffer[i]
               /\ \A i \in 0..(end - 1) : buffer[i] < real_end =>
                      file[Len(file) - end + i + 1] = buffer[i]

IInv == TypeOK /\ BacklogInv /\ RangeInv /\ FileInv
-----------------------------------------------------------------------------
(* A position is its lap's first and its slot. *)
LEMMA SlotType ==
    ASSUME NEW p \in Nat
    PROVE  /\ p % CBUFFSIZE \in 0..(CBUFFSIZE - 1)
           /\ p \div CBUFFSIZE \in Nat
           /\ p = CBUFFSIZE * (p \div CBUFFSIZE) + (p % CBUFFSIZE)
<1>1. CBUFFSIZE \in Nat /\ CBUFFSIZE > 0
  BY DeviceBufAssumption
<1>2. p % CBUFFSIZE \in 0..(CBUFFSIZE - 1) /\ p \div CBUFFSIZE \in Nat
  BY <1>1
<1>3. p = CBUFFSIZE * (p \div CBUFFSIZE) + (p % CBUFFSIZE)
  BY <1>1
<1> QED
  BY <1>2, <1>3

(* The copy of a transfer fills slots of the ring and its slack, with       *)
(* blocks from p on.                                                        *)
LEMMA CopiedType ==
    ASSUME TypeOK, NEW p \in Nat
    PROVE  /\ Copied(p) \in [Slots -> Int]
           /\ \A i \in Slots : Copied(p)[i] = buffer[i] \/ Copied(p)[i] >= p
<1>1. p % CBUFFSIZE \in Nat
  BY SlotType
<1>2. CBUFFSIZE \in Nat /\ BUFLEN \in Nat /\ amount \in Int
  BY DeviceBufAssumption DEF TypeOK
<1>3. ASSUME NEW i \in Slots
      PROVE  /\ Copied(p)[i] \in Int
             /\ Copied(p)[i] = buffer[i] \/ Copied(p)[i] >= p
  <2>1. i \in Int /\ buffer[i] \in Int
    BY <1>2 DEF Slots, TypeOK
  <2>2. Copied(p)[i] = IF i - (p % CBUFFSIZE) \in 0..(amount - 1)
                       THEN p + (i - (p % CBUFFSIZE)) ELSE buffer[i]
    BY DEF Copied
  <2>3. CASE i - (p % CBUFFSIZE) \in 0..(amount - 1)
    BY <1>1, <1>2, <2>1, <2>2, <2>3
  <2>4. CASE i - (p % CBUFFSIZE) \notin 0..(amount - 1)
    BY <2>1, <2>2, <2>4
  <2> QED
    BY <2>3, <2>4
<1>4. Copied(p) = [i \in Slots |-> Copied(p)[i]]
  BY DEF Copied
<1> QED
  BY <1>3, <1>4

(* What fs_write appends: a part, or all, of the slots from..to-1.          *)
LEMMA FsWriteType ==
    ASSUME TypeOK, NEW from \in Nat, NEW to \in Nat, from <= to,
           to <= CBUFFSIZE, FsWrite(to, from)
    PROVE  /\ file' \in Seq(Int) /\ file_end_offset' \in 0..Len(file')
           /\ ~FileMayFail =>
                  /\ Len(file') = Len(file) + (to - from)
                  /\ \A i \in 1..Len(file) : file'[i] = file[i]
                  /\ \A k \in 1..(to - from) :
                         file'[Len(file) + k] = buffer[from + k - 1]
<1>1. PICK n \in (IF FileMayFail THEN 0..(to - from) ELSE {to - from}) :
          /\ file' = file \o [k \in 1..n |-> buffer[from + k - 1]]
          /\ file_end_offset' = IF n > 0 THEN Len(file') ELSE file_end_offset
  BY DEF FsWrite
<1> DEFINE c == [k \in 1..n |-> buffer[from + k - 1]]
<1>2. n \in Nat /\ n <= to - from /\ (~FileMayFail => n = to - from)
  BY <1>1
<1>3. \A k \in 1..n : buffer[from + k - 1] \in Int
  BY <1>2, DeviceBufAssumption DEF TypeOK, Slots
<1>4. c \in Seq(Int) /\ Len(c) = n /\ \A k \in 1..n : c[k] = buffer[from + k - 1]
  BY <1>2, <1>3
<1>5. file \in Seq(Int) /\ Len(file) \in Nat
  BY LenProperties DEF TypeOK
<1>6. file' = file \o c
  BY <1>1
<1> HIDE DEF c
<1>7. /\ file' \in Seq(Int) /\ Len(file') = Len(file) + n
      /\ \A i \in 1..(Len(file) + n) :
             file'[i] = IF i <= Len(file) THEN file[i] ELSE c[i - Len(file)]
  BY <1>4, <1>5, <1>6, ConcatProperties
<1>8. file_end_offset' \in 0..Len(file')
  BY <1>1, <1>2, <1>5, <1>7 DEF TypeOK
<1>9. \A i \in 1..Len(file) : file'[i] = file[i]
  BY <1>2, <1>5, <1>7
<1>10. \A k \in 1..n : file'[Len(file) + k] = buffer[from + k - 1]
  <2> TAKE k \in 1..n
  <2> DEFINE j == Len(file) + k
  <2>1. j \in 1..(Len(file) + n) /\ ~(j <= Len(file)) /\ j - Len(file) = k
    BY <1>2, <1>5
  <2> HIDE DEF j
  <2>2. file'[j] = c[j - Len(file)]
    BY <1>7, <2>1
  <2> QED
    BY <1>4, <2>1, <2>2 DEF j
<1> QED
  BY <1>2, <1>7, <1>8, <1>9, <1>10
-----------------------------------------------------------------------------
(* An empty ring, an empty range, an empty file.                            *)
LEMMA InitIInv == Init => IInv
<1> SUFFICES ASSUME Init PROVE IInv
  OBVIOUS
<1>1. TypeOK
  <2>1. buffer \in [Slots -> Int]
    BY DEF Init, Blank
  <2>2. file \in Seq(Int) /\ file_end_offset \in 0..Len(file)
    BY EmptySeq DEF Init
  <2> QED
    BY <2>1, <2>2, DeviceBufAssumption DEF Init, TypeOK
<1>2. BacklogInv
  BY DeviceBufAssumption DEF Init, BacklogInv, BoundedBacklog
<1> QED
  BY <1>1, <1>2 DEF Init, IInv, RangeInv, FileInv

(* The receiver. *)
LEMMA ReceiverStep == IInv /\ (Receive \/ Receiver) => IInv'
<1> SUFFICES ASSUME IInv, Receive \/ Receiver PROVE IInv'
  OBVIOUS
<1> USE DEF receiverVars, flusherVars
<1>0. CBUFFSIZE \in Nat \ {0} /\ BUFLEN \in Nat \ {0}
  BY DeviceBufAssumption
<1>1. CASE Receive \/ MakeSpace
  <2>1. UNCHANGED <<head, tail, buffer, flusherVars, file, file_end_offset>>
    BY <1>1 DEF Receive, MakeSpace
  <2>2. TypeOK'
    BY <1>0, <1>1, <2>1 DEF Receive, MakeSpace, IInv, TypeOK
  <2>3. BacklogInv'
    BY <1>0, <1>1, <2>1 DEF Receive, MakeSpace, IInv, TypeOK, BacklogInv, BoundedBacklog
  <2>4. RangeInv' /\ FileInv'
    BY <2>1 DEF IInv, RangeInv, FileInv
  <2> QED
    BY <2>2, <2>3, <2>4 DEF IInv
<1>2. CASE MoveHead \/ MoveHeadEarly
  <2>1. /\ UNCHANGED <<tail, buffer, flusherVars, file, file_end_offset>>
        /\ head' = head + amount /\ amount \in 1..BUFLEN
    BY <1>2 DEF MoveHead, MoveHeadEarly, IInv, BacklogInv
  <2>2. TypeOK'
    BY <1>0, <1>2, <2>1 DEF MoveHead, MoveHeadEarly, IInv, TypeOK
  <2>3. BacklogInv'
    BY <1>0, <1>2, <2>1 DEF MoveHead, MoveHeadEarly, IInv, TypeOK, BacklogInv,
                            BoundedBacklog
  <2>4. RangeInv'
    BY <1>0, <2>1 DEF IInv, TypeOK, RangeInv
  <2>5. FileInv'
    BY <2>1 DEF IInv, FileInv
  <2> QED
    BY <2>2, <2>3, <2>4, <2>5 DEF IInv
<1>3. CASE CopyTransfer
  <2>1. buffer' = Copied(head)
        /\ UNCHANGED <<head, tail, amount, fpc, real_end, start, end, file, file_end_offset>>
        /\ rpc = "copy" /\ rpc' = "publish"
    BY <1>3 DEF CopyTransfer
  <2>2. /\ buffer' \in [Slots -> Int]
        /\ \A i \in Slots : buffer'[i] = buffer[i] \/ buffer'[i] >= head
    BY <2>1, CopiedType DEF IInv, TypeOK
  <2>3. TypeOK' /\ BacklogInv' /\ RangeInv'
    BY <2>1, <2>2 DEF IInv, TypeOK, BacklogInv, BoundedBacklog, RangeInv
  <2>4. fpc # "loop" => \A i \in Slots : buffer'[i] < real_end =>
                            buffer'[i] = buffer[i] /\ buffer[i] < real_end
    BY <2>2 DEF IInv, TypeOK, RangeInv
  <2>5. /\ start..(CBUFFSIZE - 1) \subseteq Slots
        /\ 0..(end - 1) \subseteq Slots /\ start..(end - 1) \subseteq Slots
    BY <1>0 DEF IInv, TypeOK, Slots
  <2>6. FileInv'
    BY <2>1, <2>4, <2>5 DEF IInv, FileInv
  <2> QED
    BY <2>3, <2>6 DEF IInv
<1>4. CASE CopyLate
  <2>1. buffer' = Copied(head - amount) /\ head - amount \in Nat /\ ~InOrder
        /\ UNCHANGED <<head, tail, fpc, real_end, start, end, file, file_end_offset>>
        /\ rpc' = "idle" /\ amount' = 0
    BY <1>0, <1>4 DEF CopyLate, IInv, TypeOK, BacklogInv
  <2>2. buffer' \in [Slots -> Int]
    BY <2>1, CopiedType DEF IInv
  <2>3. TypeOK' /\ BacklogInv' /\ RangeInv'
    BY <1>0, <2>1, <2>2 DEF IInv, TypeOK, BacklogInv, BoundedBacklog, RangeInv
  <2> QED
    BY <2>1, <2>3 DEF IInv, FileInv
<1> QED
  BY <1>1, <1>2, <1>3, <1>4 DEF Receiver

(* The flusher. *)
LEMMA FlusherStep == IInv /\ Flusher => IInv'
<1> SUFFICES ASSUME IInv, Flusher PROVE IInv'
  OBVIOUS
<1> USE DEF receiverVars, flusherVars
<1>0. CBUFFSIZE \in Nat \ {0} /\ BUFLEN \in Nat \ {0}
  BY DeviceBufAssumption
<1>1. CASE Snapshot
  <2>1. head % CBUFFSIZE \in 0..(CBUFFSIZE - 1) /\ tail % CBUFFSIZE \in 0..(CBUFFSIZE - 1)
    BY SlotType DEF IInv, TypeOK
  <2>2. TypeOK' /\ BacklogInv'
    BY <1>1, <2>1 DEF Snapshot, IInv, TypeOK, BacklogInv, BoundedBacklog
  <2>3. RangeInv'
    BY <1>1, <2>1 DEF Snapshot, IInv, TypeOK, BacklogInv, BoundedBacklog, RangeInv
  <2> QED
    BY <1>1, <2>2, <2>3 DEF Snapshot, IInv, FileInv
<1>2. CASE WriteRange
  <2>1. /\ fpc = "write" /\ fpc' = "advance" /\ FsWrite(end, start)
        /\ UNCHANGED <<head, tail, buffer, rpc, amount, real_end, start, end>>
        /\ start < end /\ start <= end /\ start \in Nat /\ end \in Nat /\ end <= CBUFFSIZE
    BY <1>0, <1>2 DEF WriteRange, IInv, TypeOK, RangeInv
  <2>2. /\ file' \in Seq(Int) /\ file_end_offset' \in 0..Len(file')
        /\ ~FileMayFail =>
               /\ Len(file') = Len(file) + (end - start)
               /\ \A k \in 1..(end - start) :
                      file'[Len(file) + k] = buffer[start + k - 1]
    <3>1. TypeOK
      BY DEF IInv
    <3> QED
      BY <2>1, <3>1, FsWriteType
  <2>3. TypeOK' /\ BacklogInv' /\ RangeInv'
    BY <2>1, <2>2 DEF IInv, TypeOK, BacklogInv, BoundedBacklog, RangeInv
  <2>4. Len(file) \in Nat
    BY LenProperties DEF IInv, TypeOK
  <2>5. ASSUME ~FileMayFail, NEW i \in start..(end - 1)
        PROVE  file'[Len(file') - end + i + 1] = buffer[i]
    <3>1. /\ i - start + 1 \in 1..(end - start)
          /\ Len(file') - end + i + 1 = Len(file) + (i - start + 1)
          /\ start + (i - start + 1) - 1 = i
      <4>1. i \in Int /\ start <= i /\ i < end /\ start \in Int /\ end \in Int
        BY <2>1
      <4>2. Len(file') = Len(file) + (end - start) /\ Len(file) \in Int
        BY <2>2, <2>4, <2>5
      <4> QED
        BY <4>1, <4>2
    <3> QED
      BY <2>2, <2>5, <3>1
  <2>6. FileInv'
    <3>1. ~FileMayFail => Len(file') >= end - start
      BY <2>1, <2>2, <2>4
    <3>2. fpc' = "advance" /\ start' < end' /\ ~(end' < start')
      BY <2>1
    <3> QED
      BY <2>1, <2>5, <3>1, <3>2 DEF FileInv
  <2> QED
    BY <2>3, <2>6 DEF IInv
<1>3. CASE WriteToRingEnd
  <2>1. /\ fpc = "first" /\ fpc' = "second" /\ FsWrite(CBUFFSIZE, start)
        /\ UNCHANGED <<head, tail, buffer, rpc, amount, real_end, start, end>>
        /\ end < start /\ start \in Nat /\ end \in Nat /\ start <= CBUFFSIZE
    BY <1>0, <1>3 DEF WriteToRingEnd, IInv, TypeOK, RangeInv
  <2>2. /\ file' \in Seq(Int) /\ file_end_offset' \in 0..Len(file')
        /\ ~FileMayFail =>
               /\ Len(file') = Len(file) + (CBUFFSIZE - start)
               /\ \A k \in 1..(CBUFFSIZE - start) :
                      file'[Len(file) + k] = buffer[start + k - 1]
    <3>1. TypeOK /\ CBUFFSIZE \in Nat /\ CBUFFSIZE <= CBUFFSIZE
      BY <1>0 DEF IInv
    <3> QED
      BY <2>1, <3>1, FsWriteType
  <2>3. TypeOK' /\ BacklogInv' /\ RangeInv'
    BY <2>1, <2>2 DEF IInv, TypeOK, BacklogInv, BoundedBacklog, RangeInv
  <2>4. Len(file) \in Nat
    BY LenProperties DEF IInv, TypeOK
  <2>5. ASSUME ~FileMayFail, NEW i \in start..(CBUFFSIZE - 1)
        PROVE  file'[Len(file') - CBUFFSIZE + i + 1] = buffer[i]
    <3>1. /\ i - start + 1 \in 1..(CBUFFSIZE - start)
          /\ Len(file') - CBUFFSIZE + i + 1 = Len(file) + (i - start + 1)
          /\ start + (i - start + 1) - 1 = i
      BY <1>0, <2>1, <2>2, <2>4, <2>5
    <3> QED
      BY <2>2, <2>5, <3>1
  <2>6. FileInv'
    BY <1>0, <2>1, <2>2, <2>4, <2>5 DEF FileInv
  <2> QED
    BY <2>3, <2>6 DEF IInv
<1>4. CASE WriteFromRingStart
  <2>1. /\ fpc = "second" /\ fpc' = "advance" /\ FsWrite(end, 0)
        /\ UNCHANGED <<head, tail, buffer, rpc, amount, real_end, start, end>>
        /\ end < start /\ start \in Nat /\ end \in Nat /\ start <= CBUFFSIZE
        /\ end <= CBUFFSIZE /\ 0 \in Nat /\ 0 <= end
    BY <1>0, <1>4 DEF WriteFromRingStart, IInv, TypeOK, RangeInv
  <2>2. /\ file' \in Seq(Int) /\ file_end_offset' \in 0..Len(file')
        /\ ~FileMayFail =>
               /\ Len(file') = Len(file) + (end - 0)
               /\ \A i \in 1..Len(file) : file'[i] = file[i]
               /\ \A k \in 1..(end - 0) : file'[Len(file) + k] = buffer[0 + k - 1]
    <3>1. TypeOK
      BY DEF IInv
    <3> QED
      BY <2>1, <3>1, FsWriteType
  <2>3. TypeOK' /\ BacklogInv' /\ RangeInv'
    BY <2>1, <2>2 DEF IInv, TypeOK, BacklogInv, BoundedBacklog, RangeInv
  <2>4. Len(file) \in Nat
    BY LenProperties DEF IInv, TypeOK
  <2>5. ASSUME ~FileMayFail, NEW i \in 0..(end - 1)
        PROVE  file'[Len(file') - end + i + 1] = buffer[i]
    <3>0. Len(file') = Len(file) + (end - 0)
      BY <2>2, <2>5
    <3>1. /\ i + 1 \in 1..(end - 0) /\ Len(file') - end + i + 1 = Len(file) + (i + 1)
          /\ 0 + (i + 1) - 1 = i
      BY <2>1, <2>4, <3>0
    <3> QED
      BY <2>2, <2>5, <3>1
  <2>6. ASSUME InOrder, ~FileMayFail, NEW i \in start..(CBUFFSIZE - 1), buffer[i] < real_end
        PROVE  file'[Len(file') - end - CBUFFSIZE + i + 1] = buffer[i]
    <3>1. /\ Len(file) >= CBUFFSIZE - start
          /\ file[Len(file) - CBUFFSIZE + i + 1] = buffer[i]
      BY <2>1, <2>6 DEF IInv, FileInv
    <3>0. Len(file') = Len(file) + (end - 0)
      BY <2>2, <2>6
    <3>2. /\ Len(file) - CBUFFSIZE + i + 1 \in 1..Len(file)
          /\ Len(file') - end - CBUFFSIZE + i + 1 = Len(file) - CBUFFSIZE + i + 1
      BY <1>0, <2>1, <2>4, <3>0, <3>1
    <3> QED
      BY <2>2, <2>6, <3>1, <3>2
  <2>7. InOrder /\ ~FileMayFail => Len(file') >= CBUFFSIZE - start + end
    BY <1>0, <2>1, <2>2, <2>4 DEF IInv, FileInv
  <2>8. FileInv'
    BY <2>1, <2>5, <2>6, <2>7 DEF FileInv
  <2> QED
    BY <2>3, <2>8 DEF IInv
<1>5. CASE AdvanceTail
  <2>1. /\ tail' = real_end /\ fpc' = "loop" /\ fpc = "advance"
        /\ UNCHANGED <<head, buffer, rpc, amount, real_end, start, end, file, file_end_offset>>
    BY <1>5 DEF AdvanceTail, FlushOver
  <2>2. BacklogInv'
    BY <1>0, <2>1 DEF IInv, TypeOK, BacklogInv, BoundedBacklog, RangeInv
  <2> QED
    BY <2>1, <2>2 DEF IInv, TypeOK, RangeInv, FileInv
<1> QED
  BY <1>1, <1>2, <1>3, <1>4, <1>5 DEF Flusher

(* Both sides of the ring keep this, whatever order they run in.            *)
THEOREM Invariance == Spec => []IInv
<1>1. IInv /\ [Next]_vars => IInv'
  <2> SUFFICES ASSUME IInv, [Next]_vars PROVE IInv'
    OBVIOUS
  <2>1. CASE UNCHANGED vars
    BY <2>1 DEF vars, receiverVars, flusherVars, IInv, TypeOK, BacklogInv,
                BoundedBacklog, RangeInv, FileInv
  <2> QED
    BY <2>1, ReceiverStep, FlusherStep DEF Next
<1> QED
  BY InitIInv, <1>1, PTL DEF Spec

(* Every variable has its type: the library is never told of more than the  *)
(* file holds, though writes fail or are short.                             *)
THEOREM TypeCorrect == Spec => []TypeOK
<1>1. IInv => TypeOK
  BY DEF IInv
<1> QED
  BY <1>1, Invariance, PTL

(* Less than a lap and a transfer waits for its flush.                      *)
THEOREM BacklogIsBounded == Spec => []BoundedBacklog
<1>1. IInv => BoundedBacklog
  BY DEF IInv, BacklogInv
<1> QED
  BY <1>1, Invariance, PTL
-----------------------------------------------------------------------------
(* A number's slot is what is left of it above a multiple of the ring.      *)
LEMMA SlotUnique ==
    ASSUME NEW q \in Int, NEW r \in 0..(CBUFFSIZE - 1)
    PROVE  (CBUFFSIZE * q + r) % CBUFFSIZE = r
<1>1. CBUFFSIZE \in Nat /\ CBUFFSIZE > 0
  BY DeviceBufAssumption
<1>2. \A x \in Int : /\ x = CBUFFSIZE * (x \div CBUFFSIZE) + (x % CBUFFSIZE)
                     /\ x % CBUFFSIZE \in 0..(CBUFFSIZE - 1) /\ x \div CBUFFSIZE \in Int
  BY <1>1
<1> DEFINE x == CBUFFSIZE * q + r
           d == q - (x \div CBUFFSIZE)
<1>3. x \in Int /\ r \in Int
  BY <1>1
<1>4. /\ x = CBUFFSIZE * (x \div CBUFFSIZE) + (x % CBUFFSIZE)
      /\ x % CBUFFSIZE \in 0..(CBUFFSIZE - 1) /\ x \div CBUFFSIZE \in Int
  BY <1>2, <1>3
<1>5. d \in Int /\ CBUFFSIZE * d = (x % CBUFFSIZE) - r
  BY <1>1, <1>4
<1> HIDE DEF d, x
<1>6. d = 0
  <2>1. d >= 1 => CBUFFSIZE * d >= CBUFFSIZE
    BY <1>1, <1>5
  <2>2. d <= -1 => CBUFFSIZE * d <= -CBUFFSIZE
    BY <1>1, <1>5
  <2> QED
    BY <1>1, <1>4, <1>5, <2>1, <2>2
<1>7. x % CBUFFSIZE = r
  <2>1. CBUFFSIZE * d = 0
    BY <1>1, <1>6
  <2> QED
    BY <1>3, <1>4, <1>5, <2>1
<1> QED
  BY <1>7 DEF x

(* Less than a lap from start's slot to end's: forward, or once around.     *)
LEMMA RangeSlots ==
    ASSUME TypeOK, RangeInv, fpc # "loop", real_end - tail < CBUFFSIZE
    PROVE  /\ real_end - tail = IF start < end THEN end - start ELSE CBUFFSIZE - start + end
           /\ \A j \in 0..(real_end - tail - 1) :
                  (tail + j) % CBUFFSIZE = IF start + j < CBUFFSIZE THEN start + j
                                           ELSE start + j - CBUFFSIZE
<1>1. CBUFFSIZE \in Nat /\ CBUFFSIZE > 0
  BY DeviceBufAssumption
<1>2. /\ tail \in Nat /\ real_end \in Nat /\ tail <= real_end
      /\ start = tail % CBUFFSIZE /\ end = real_end % CBUFFSIZE /\ start # end
      /\ start \in 0..(CBUFFSIZE - 1) /\ end \in 0..(CBUFFSIZE - 1)
  BY DEF TypeOK, RangeInv
<1> DEFINE a == tail \div CBUFFSIZE
           b == real_end \div CBUFFSIZE
<1>3. /\ a \in Nat /\ tail = CBUFFSIZE * a + start
      /\ b \in Nat /\ real_end = CBUFFSIZE * b + end
  BY <1>2, SlotType
<1> HIDE DEF a, b
<1>4. real_end - tail = CBUFFSIZE * (b - a) + (end - start)
  BY <1>1, <1>2, <1>3
<1>5. b - a \in {0, 1}
  <2>1. b - a >= 2 => CBUFFSIZE * (b - a) >= CBUFFSIZE + CBUFFSIZE
    BY <1>1, <1>3
  <2>2. b - a <= -1 => CBUFFSIZE * (b - a) <= -CBUFFSIZE
    BY <1>1, <1>3
  <2>3. CBUFFSIZE * (b - a) \in Int /\ b - a \in Int
    BY <1>1, <1>3
  <2> QED
    BY <1>1, <1>2, <1>4, <2>1, <2>2, <2>3
<1>6. real_end - tail = IF start < end THEN end - start ELSE CBUFFSIZE - start + end
  <2>1. CASE b - a = 0
    BY <1>1, <1>2, <1>4, <2>1
  <2>2. CASE b - a = 1
    BY <1>1, <1>2, <1>4, <2>2
  <2> QED
    BY <1>5, <2>1, <2>2
<1>7. ASSUME NEW j \in 0..(real_end - tail - 1)
      PROVE  (tail + j) % CBUFFSIZE = IF start + j < CBUFFSIZE THEN start + j
                                      ELSE start + j - CBUFFSIZE
  <2>1. CASE start + j < CBUFFSIZE
    <3>1. start + j \in 0..(CBUFFSIZE - 1) /\ tail + j = CBUFFSIZE * a + (start + j)
      BY <1>1, <1>2, <1>3, <2>1
    <3> QED
      BY <1>3, <2>1, <3>1, SlotUnique
  <2>2. CASE ~(start + j < CBUFFSIZE)
    <3>1. /\ start + j - CBUFFSIZE \in 0..(CBUFFSIZE - 1)
          /\ tail + j = CBUFFSIZE * (a + 1) + (start + j - CBUFFSIZE)
      BY <1>1, <1>2, <1>3, <2>2
    <3> QED
      BY <1>3, <2>2, <3>1, SlotUnique
  <2> QED
    BY <2>1, <2>2
<1> QED
  BY <1>6, <1>7

(* A flush of less than a lap of blocks that lie where they belong extends  *)
(* the log file by exactly them, in order.                                  *)
THEOREM FlushIsExact == Spec => []FlushExact
<1>1. IInv => FlushExact
  <2> SUFFICES ASSUME IInv, InOrder, ~FileMayFail, fpc = "advance",
                      real_end - tail < CBUFFSIZE, RangeInPlace
               PROVE  LastWritten(real_end - tail) =
                          [k \in 1..(real_end - tail) |-> tail + k - 1]
    BY DEF FlushExact
  <2> DEFINE n == real_end - tail
  <2>0. CBUFFSIZE \in Nat /\ CBUFFSIZE > 0
    BY DeviceBufAssumption
  <2>1. /\ tail \in Nat /\ real_end \in Nat /\ n \in Nat /\ start # end
        /\ start \in 0..(CBUFFSIZE - 1) /\ end \in 0..(CBUFFSIZE - 1)
        /\ file \in Seq(Int) /\ Len(file) \in Nat
    BY LenProperties DEF IInv, TypeOK, RangeInv
  <2>2. n = IF start < end THEN end - start ELSE CBUFFSIZE - start + end
    BY RangeSlots DEF IInv
  <2>3. n <= Len(file)
    BY <2>1, <2>2 DEF IInv, FileInv
  <2>4. ASSUME NEW k \in 1..n
        PROVE  file[Len(file) - n + k] = tail + k - 1
    <3> DEFINE j == k - 1
               s == (tail + j) % CBUFFSIZE
    <3>1. j \in 0..(n - 1) /\ tail + j \in tail..(real_end - 1) /\ j \in Int
      BY <2>1
    <3>2. s = IF start + j < CBUFFSIZE THEN start + j ELSE start + j - CBUFFSIZE
      BY <3>1, RangeSlots DEF IInv
    <3>3. buffer[s] = tail + j /\ buffer[s] < real_end
      BY <2>1, <3>1 DEF RangeInPlace
    <3> HIDE DEF j, s
    <3>4. CASE start < end
      <4>1. /\ s = start + j /\ s \in start..(end - 1)
            /\ Len(file) - end + s + 1 = Len(file) - n + (j + 1)
        BY <2>0, <2>1, <2>2, <3>1, <3>2, <3>4
      <4>2. file[Len(file) - end + s + 1] = buffer[s]
        BY <3>3, <3>4, <4>1 DEF IInv, FileInv
      <4> QED
        BY <2>1, <3>3, <4>1, <4>2 DEF j
    <3>5. CASE end < start /\ start + j < CBUFFSIZE
      <4>1. /\ s = start + j /\ s \in start..(CBUFFSIZE - 1)
            /\ Len(file) - end - CBUFFSIZE + s + 1 = Len(file) - n + (j + 1)
        BY <2>0, <2>1, <2>2, <3>1, <3>2, <3>5
      <4>2. file[Len(file) - end - CBUFFSIZE + s + 1] = buffer[s]
        BY <3>3, <3>5, <4>1 DEF IInv, FileInv
      <4> QED
        BY <2>1, <3>3, <4>1, <4>2 DEF j
    <3>6. CASE end < start /\ ~(start + j < CBUFFSIZE)
      <4>1. /\ s = start + j - CBUFFSIZE /\ s \in 0..(end - 1)
            /\ Len(file) - end + s + 1 = Len(file) - n + (j + 1)
        BY <2>0, <2>1, <2>2, <3>1, <3>2, <3>6
      <4>2. file[Len(file) - end + s + 1] = buffer[s]
        BY <3>3, <3>6, <4>1 DEF IInv, FileInv
      <4> QED
        BY <2>1, <3>3, <4>1, <4>2 DEF j
    <3> QED
      BY <2>1, <3>4, <3>5, <3>6
  <2> DEFINE w == SubSeq(file, Len(file) - n + 1, Len(file))
             v == [k \in 1..n |-> tail + k - 1]
  <2>5. /\ w \in Seq(Int) /\ Len(w) = n
        /\ \A k \in 1..n : w[k] = file[Len(file) - n + k]
    <3> DEFINE m == Len(file) - n + 1
               l == Len(file)
    <3>1. /\ m \in 1..(l + 1) /\ l \in Nat /\ n \in Nat /\ l = m + n - 1
          /\ \A i \in m..l : file[i] \in Int
      BY <2>1, <2>3
    <3>2. /\ \A k \in 1..n : m + k - 1 = Len(file) - n + k
          /\ \A k \in 1..n : m + k - 1 \in m..l
      BY <2>1, <3>1
    <3>3. w = SubSeq(file, m, l)
      OBVIOUS
    <3> HIDE DEF m, l, n, w
    <3>4. /\ SubSeq(file, m, l) \in Seq(Int)
          /\ Len(SubSeq(file, m, l)) = n
          /\ \A k \in 1..n : SubSeq(file, m, l)[k] = file[m + k - 1]
      BY <2>1, <3>1, SubSeqProperties
    <3> QED
      BY <3>2, <3>3, <3>4
  <2>6. v \in Seq(Int) /\ Len(v) = n /\ \A k \in 1..n : v[k] = tail + k - 1
    BY <2>1
  <2>7. w = v
    <3> HIDE DEF w, v
    <3>1. \A k \in 1..Len(w) : w[k] = v[k]
      BY <2>4, <2>5, <2>6
    <3> QED
      BY <2>5, <2>6, <3>1, SeqEqual
  <2> QED
    BY <2>7 DEF LastWritten
<1> QED
  BY <1>1, Invariance, PTL
=============================================================================
