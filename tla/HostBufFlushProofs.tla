-------------------------- MODULE HostBufFlushProofs --------------------------
(* Proofs about what HostBuf's ring holds and what a flush hands to the      *)
(* audit device, for every value of the constants.                           *)
EXTENDS HostBufProofs

(* Arithmetic of slots and pages. *)

(* Quotient and remainder. *)
LEMMA DivMod ==
    ASSUME NEW x \in Int, NEW n \in Nat \ {0}
    PROVE  /\ x \div n \in Int /\ x % n \in 0..(n - 1)
           /\ x = n * (x \div n) + (x % n)
           /\ x \in Nat => x \div n \in Nat
  OBVIOUS

(* They are the only ones. *)
LEMMA DivModUnique ==
    ASSUME NEW n \in Nat \ {0}, NEW q \in Int, NEW r \in 0..(n - 1),
           NEW x, x = n * q + r
    PROVE  x % n = r /\ x \div n = q
<1> DEFINE d == q - (x \div n)
<1>1. x \in Int /\ r \in Int /\ n \in Nat /\ n > 0
  OBVIOUS
<1>2. /\ x = n * (x \div n) + (x % n)
      /\ x % n \in 0..(n - 1) /\ x \div n \in Int
  BY <1>1, DivMod
<1>3. d \in Int /\ n * d = (x % n) - r
  BY <1>1, <1>2
<1> HIDE DEF d
<1>4. d = 0
  <2>1. d >= 1 => n * d >= n
    BY <1>1, <1>3
  <2>2. d <= -1 => n * d <= -n
    BY <1>1, <1>3
  <2> QED
    BY <1>1, <1>2, <1>3, <2>1, <2>2
<1>5. n * d = 0
  BY <1>1, <1>4
<1>6. x % n = r
  BY <1>1, <1>2, <1>3, <1>5
<1>7. x \div n = q
  BY <1>2, <1>4 DEF d
<1> QED
  BY <1>6, <1>7

(* The ring has at least a page, and a whole number of them. *)
LEMMA PageSizes ==
    /\ PAGE \in Nat \ {0} /\ CBUFFSIZE \in Nat \ {0} /\ PAGE <= CBUFFSIZE
    /\ CBUFFSIZE \div PAGE \in Nat /\ CBUFFSIZE = PAGE * (CBUFFSIZE \div PAGE)
<1>1. PAGE \in Nat \ {0} /\ CBUFFSIZE \in Nat \ {0} /\ CBUFFSIZE % PAGE = 0
  BY HostBufAssumption
<1>2. CBUFFSIZE \div PAGE \in Nat /\ CBUFFSIZE = PAGE * (CBUFFSIZE \div PAGE)
  BY <1>1, DivMod
<1>3. CBUFFSIZE \div PAGE >= 1
  BY <1>1, <1>2
<1>4. PAGE * (CBUFFSIZE \div PAGE) >= PAGE
  BY <1>1, <1>2, <1>3
<1> QED
  BY <1>1, <1>2, <1>4

(* A position's lap and slot. *)
LEMMA LapAndSlot ==
    ASSUME NEW p \in Int
    PROVE  /\ p \div CBUFFSIZE \in Int /\ p % CBUFFSIZE \in 0..(CBUFFSIZE - 1)
           /\ p = CBUFFSIZE * (p \div CBUFFSIZE) + (p % CBUFFSIZE)
<1>1. CBUFFSIZE \in Nat \ {0}
  BY PageSizes
<1> QED
  BY <1>1, DivMod

(* Positions at the same slot are a lap apart. *)
LEMMA LapApart ==
    ASSUME NEW p \in Int, NEW v \in Int, p < v, p % CBUFFSIZE = v % CBUFFSIZE
    PROVE  v >= p + CBUFFSIZE
<1> DEFINE a == p \div CBUFFSIZE
           b == v \div CBUFFSIZE
           r == p % CBUFFSIZE
<1>1. /\ CBUFFSIZE \in Nat /\ CBUFFSIZE > 0 /\ a \in Int /\ b \in Int /\ r \in Int
      /\ p = CBUFFSIZE * a + r /\ v = CBUFFSIZE * b + r
  BY PageSizes, DivMod
<1> HIDE DEF a, b, r
<1>2. v - p = CBUFFSIZE * (b - a) /\ b - a \in Int
  BY <1>1
<1>3. b - a >= 1
  BY <1>1, <1>2
<1>4. CBUFFSIZE * (b - a) >= CBUFFSIZE
  BY <1>1, <1>2, <1>3
<1> QED
  BY <1>1, <1>2, <1>4

(* The form in which it is used: a slot, and the lap it is in. *)
LEMMA SlotUnique ==
    ASSUME NEW x \in Int, NEW q \in Int, NEW r \in 0..(CBUFFSIZE - 1),
           x = CBUFFSIZE * q + r
    PROVE  x % CBUFFSIZE = r
<1>1. CBUFFSIZE \in Nat \ {0}
  BY PageSizes
<1> QED
  BY <1>1, DivModUnique

(* A position's slot moves with it as long as it stays in the ring, and is   *)
(* counted anew behind the ring's end.                                       *)
LEMMA SlotMoves ==
    ASSUME NEW p \in Int, NEW d \in Int, NEW s \in 0..(2 * CBUFFSIZE - 1),
           s = (p % CBUFFSIZE) + d
    PROVE  (p + d) % CBUFFSIZE = IF s < CBUFFSIZE THEN s ELSE s - CBUFFSIZE
<1> DEFINE a == p \div CBUFFSIZE
           r == p % CBUFFSIZE
           x == p + d
<1>1. /\ CBUFFSIZE \in Nat \ {0} /\ a \in Int /\ r \in Int
      /\ p = CBUFFSIZE * a + r /\ x \in Int /\ x = p + d
  <2>1. CBUFFSIZE \in Nat \ {0}
    BY PageSizes
  <2>2. a \in Int /\ r \in Int /\ p = CBUFFSIZE * a + r
    BY LapAndSlot
  <2>3. x \in Int /\ x = p + d
    OBVIOUS
  <2> QED
    BY <2>1, <2>2, <2>3
<1>2. s = r + d
  OBVIOUS
<1> HIDE DEF a, r, x
<1>3. ASSUME s < CBUFFSIZE PROVE x % CBUFFSIZE = s
  <2>1. x = CBUFFSIZE * a + s /\ s \in 0..(CBUFFSIZE - 1)
    BY <1>1, <1>2, <1>3
  <2> QED
    BY <1>1, <2>1, SlotUnique
<1>4. ASSUME ~(s < CBUFFSIZE) PROVE x % CBUFFSIZE = s - CBUFFSIZE
  <2>1. /\ x = CBUFFSIZE * (a + 1) + (s - CBUFFSIZE)
        /\ s - CBUFFSIZE \in 0..(CBUFFSIZE - 1) /\ a + 1 \in Int
    BY <1>1, <1>2, <1>4
  <2> QED
    BY <1>1, <2>1, SlotUnique
<1> QED
  BY <1>3, <1>4 DEF x

(* A slot's remainder: itself, or its place in the slack. *)
LEMMA SlotMod ==
    ASSUME NEW i \in Slots
    PROVE  i % CBUFFSIZE = IF i < CBUFFSIZE THEN i ELSE i - CBUFFSIZE
<1>1. i \in Int /\ i >= 0 /\ i <= 2 * CBUFFSIZE - 1 /\ CBUFFSIZE \in Nat \ {0}
  BY PageSizes DEF Slots
<1>2. CASE i < CBUFFSIZE
  <2>1. i = CBUFFSIZE * 0 + i /\ i \in 0..(CBUFFSIZE - 1)
    BY <1>1, <1>2
  <2>2. i % CBUFFSIZE = i
    BY <1>1, <2>1, SlotUnique
  <2> QED
    BY <1>2, <2>2
<1>3. CASE ~(i < CBUFFSIZE)
  <2>1. i = CBUFFSIZE * 1 + (i - CBUFFSIZE) /\ i - CBUFFSIZE \in 0..(CBUFFSIZE - 1)
    BY <1>1, <1>3
  <2>2. i % CBUFFSIZE = i - CBUFFSIZE
    BY <1>1, <2>1, SlotUnique
  <2> QED
    BY <1>3, <2>2
<1> QED
  BY <1>2, <1>3

(* The pages' boundaries run on from lap to lap. *)
LEMMA PageOffset ==
    ASSUME NEW x \in Int
    PROVE  (x % CBUFFSIZE) % PAGE = x % PAGE
<1> DEFINE q == x \div CBUFFSIZE
           r == x % CBUFFSIZE
           a == r \div PAGE
           s == r % PAGE
           c == CBUFFSIZE \div PAGE
<1>1. /\ PAGE \in Nat \ {0} /\ c \in Int /\ CBUFFSIZE = PAGE * c
      /\ q \in Int /\ r \in Int /\ x = CBUFFSIZE * q + r
      /\ a \in Int /\ s \in 0..(PAGE - 1) /\ r = PAGE * a + s
  BY PageSizes, DivMod
<1> HIDE DEF q, r, a, s, c
<1>2. x = (PAGE * c) * q + (PAGE * a + s)
  BY <1>1
<1>3. (PAGE * c) * q + (PAGE * a + s) = PAGE * (c * q + a) + s /\ c * q + a \in Int
  BY <1>1
<1>4. x % PAGE = s
  BY <1>1, <1>2, <1>3, DivModUnique
<1> QED
  BY <1>4 DEF s, r
-----------------------------------------------------------------------------
(* What the ring holds. *)

(* A step that leaves the ring and its indices alone, and does not take a   *)
(* thread to or from the head's update, changes nothing that is said of it. *)
LEMMA QuietBuffer ==
    ASSUME TypeOK, BufferInv, UNCHANGED <<head, tail, buffer>>,
           \A u \in Threads : /\ pc'[u] = "publish" <=> pc[u] = "publish"
                              /\ pc[u] = "publish" => len'[u] = len[u],
           fpc' # "loop" => fpc # "loop" /\ end' = end
    PROVE  BufferInv'
<1>1. SlotInv' /\ SlackInv'
  BY DEF BufferInv, SlotInv, SlackInv
<1>2. CopiedInv'
  <2> SUFFICES ASSUME NEW u \in Threads, pc'[u] = "publish", NEW i \in Slots
               PROVE  IF i - (head' % CBUFFSIZE) \in 0..(len'[u] - 1)
                      THEN buffer'[i] = head' + (i - (head' % CBUFFSIZE))
                      ELSE buffer'[i] < head'
    BY DEF CopiedInv
  <2>1. pc[u] = "publish" /\ len'[u] = len[u]
    OBVIOUS
  <2>2. IF i - (head % CBUFFSIZE) \in 0..(len[u] - 1)
        THEN buffer[i] = head + (i - (head % CBUFFSIZE)) ELSE buffer[i] < head
    BY <2>1 DEF BufferInv, CopiedInv
  <2> QED
    BY <2>1, <2>2
<1>3. PublishedInv'
  BY DEF BufferInv, PublishedInv
<1>4. InFlight' = InFlight
  <2> DEFINE T == {u \in Threads : pc[u] = "publish"}
             U == {u \in Threads : pc'[u] = "publish"}
  <2>1. T = U
    OBVIOUS
  <2>2. T # {} => (CHOOSE u \in T : TRUE) \in T
    OBVIOUS
  <2>3. \A u \in T : len'[u] = len[u]
    OBVIOUS
  <2>4. /\ InFlight = IF T = {} THEN 0 ELSE len[CHOOSE u \in T : TRUE]
        /\ InFlight' = IF U = {} THEN 0 ELSE len'[CHOOSE u \in U : TRUE]
    BY DEF InFlight
  <2> HIDE DEF T, U
  <2> QED
    BY <2>1, <2>2, <2>3, <2>4
<1>5. RingHoldsLastLap'
  BY <1>4 DEF BufferInv, RingHoldsLastLap, InRing
<1> QED
  BY <1>1, <1>2, <1>3, <1>5 DEF BufferInv

(* One thread at a time is between the copy and the head's update. *)
LEMMA Alone ==
    ASSUME TypeOK, IndInv, NEW t \in Threads, pc[t] \in {"copy", "publish"}
    PROVE  /\ \A u \in Threads : u # t => pc[u] # "publish"
           /\ len[t] \in 1..EVENTSIZE /\ len[t] <= CBUFFSIZE /\ head - tail < CBUFFSIZE
<1>1. \A u \in Threads : pc[u] \in Locked <=> lock = u
  BY DEF IndInv, LockInv
<1>2. len[t] \in 1..EVENTSIZE /\ head - tail < CBUFFSIZE
  BY DEF IndInv, LenInv, RoomInv, Locked
<1>3. EVENTSIZE \in Nat /\ len[t] <= EVENTSIZE /\ EVENTSIZE <= PAGE
  BY <1>2, HostBufAssumption
<1>4. len[t] <= CBUFFSIZE
  BY <1>2, <1>3, PageSizes
<1> QED
  BY <1>1, <1>2, <1>4 DEF Locked

(* The head's slot lies in the ring. *)
LEMMA HeadSlot ==
    ASSUME TypeOK
    PROVE  head \in Nat /\ CBUFFSIZE \in Nat \ {0} /\ head % CBUFFSIZE \in 0..(CBUFFSIZE - 1)
<1>1. head \in Nat /\ CBUFFSIZE \in Nat \ {0}
  BY PageSizes DEF TypeOK
<1> QED
  BY <1>1, DivMod

(* The byte of an event that is copied to slot i belongs there. *)
LEMMA CopySlot ==
    ASSUME TypeOK, NEW i \in Slots, i >= head % CBUFFSIZE
    PROVE  (head + (i - (head % CBUFFSIZE))) % CBUFFSIZE = i % CBUFFSIZE
<1> DEFINE d == i - (head % CBUFFSIZE)
<1>1. /\ head \in Int /\ head % CBUFFSIZE \in Int
      /\ i \in Int /\ i \in 0..(2 * CBUFFSIZE - 1)
  BY PageSizes, HeadSlot DEF Slots
<1>2. d \in Int /\ i = (head % CBUFFSIZE) + d
  BY <1>1
<1> HIDE DEF d
<1>3. (head + d) % CBUFFSIZE = IF i < CBUFFSIZE THEN i ELSE i - CBUFFSIZE
  BY <1>1, <1>2, SlotMoves
<1>4. i % CBUFFSIZE = IF i < CBUFFSIZE THEN i ELSE i - CBUFFSIZE
  BY SlotMod
<1> QED
  BY <1>3, <1>4 DEF d

(* The copy writes over no byte of the last lap. *)
LEMMA CopyBuffer ==
    ASSUME TypeOK, IndInv, BufferInv, NEW t \in Threads, CopyEvent(t)
    PROVE  BufferInv'
<1> DEFINE at == head % CBUFFSIZE
           n == len[t]
           New(i) == i - at \in 0..(n - 1)
<1>1. /\ pc[t] = "copy" /\ pc' = [pc EXCEPT ![t] = "publish"]
      /\ buffer' = [i \in Slots |-> IF New(i) THEN head + (i - at) ELSE buffer[i]]
      /\ UNCHANGED <<head, tail, len, flusherVars>>
  BY DEF CopyEvent, CopyTo
<1>2. /\ \A u \in Threads : u # t => pc[u] # "publish"
      /\ n \in 1..EVENTSIZE /\ n <= CBUFFSIZE /\ n \in Nat
  BY <1>1, Alone, HostBufAssumption
<1>3. \A i \in Slots : buffer[i] < head
  BY <1>1, <1>2 DEF BufferInv, PublishedInv
<1>4. /\ head \in Nat /\ at \in 0..(CBUFFSIZE - 1) /\ CBUFFSIZE \in Nat
      /\ \A i \in Slots : i \in Nat /\ buffer[i] \in Int
  <2>1. head \in Nat /\ CBUFFSIZE \in Nat \ {0}
    BY HeadSlot
  <2>2. at \in 0..(CBUFFSIZE - 1)
    BY HeadSlot
  <2>3. ASSUME NEW i \in Slots PROVE i \in Nat /\ buffer[i] \in Int
    BY HostBufAssumption DEF TypeOK, Slots, Cells
  <2> QED
    BY <2>1, <2>2, <2>3
<1>5. \A u \in Threads : pc'[u] = "publish" <=> u = t
  BY <1>1, <1>2 DEF TypeOK
<1>6. /\ tail \in Nat /\ tail <= head
      /\ fpc # "loop" => end <= head
  BY DEF TypeOK, IndInv, BoundedBacklog, FlushInv
<1>7. \A i \in Slots : buffer'[i] = IF New(i) THEN head + (i - at) ELSE buffer[i]
  BY <1>1
<1>8. \A i \in Slots : New(i) => (head + (i - at)) % CBUFFSIZE = i % CBUFFSIZE
  BY <1>2, <1>4, CopySlot
<1> HIDE DEF at, n
<1>9. SlotInv'
  <2> SUFFICES ASSUME NEW i \in Slots, buffer'[i] # Blank
               PROVE  buffer'[i] \in Nat /\ buffer'[i] % CBUFFSIZE = i % CBUFFSIZE
    BY DEF SlotInv
  <2>1. CASE New(i)
    <3>1. head + (i - at) \in Nat
      BY <1>2, <1>4, <2>1
    <3> QED
      BY <1>7, <1>8, <2>1, <3>1
  <2>2. CASE ~New(i)
    BY <1>7, <2>2 DEF BufferInv, SlotInv
  <2> QED
    BY <2>1, <2>2
<1>10. CopiedInv'
  <2> SUFFICES ASSUME NEW i \in Slots
               PROVE  IF New(i) THEN buffer'[i] = head + (i - at) ELSE buffer'[i] < head
    BY <1>1, <1>5 DEF CopiedInv, at, n
  <2> QED
    BY <1>3, <1>7
<1>11. PublishedInv'
  BY <1>5 DEF PublishedInv
<1>12. SlackInv'
  <2> SUFFICES ASSUME NEW i \in Slots, i >= CBUFFSIZE, buffer'[i] # Blank
               PROVE  /\ tail \notin (buffer'[i] - (i - CBUFFSIZE))..buffer'[i]
                      /\ fpc # "loop" => end \notin (buffer'[i] - (i - CBUFFSIZE))..buffer'[i]
    BY <1>1 DEF SlackInv, flusherVars
  <2>1. CASE New(i)
    <3>1. buffer'[i] = head + (i - at)
      BY <1>7, <2>1
    <3> DEFINE lo == buffer'[i] - (i - CBUFFSIZE)
               hi == buffer'[i]
    <3>2. lo > head /\ lo \in Int /\ hi \in Int
      BY <1>4, <3>1
    <3>3. head \in Int /\ tail \in Int /\ end \in Int
      BY DEF TypeOK
    <3> HIDE DEF lo, hi
    <3>4. tail \notin lo..hi /\ (fpc # "loop" => end \notin lo..hi)
      BY <1>6, <3>2, <3>3
    <3> QED
      BY <3>4 DEF lo, hi
  <2>2. CASE ~New(i)
    BY <1>7, <2>2 DEF BufferInv, SlackInv
  <2> QED
    BY <2>1, <2>2
<1>13. RingHoldsLastLap'
  <2>1. InFlight' = n
    BY <1>1, <1>5 DEF InFlight, n
  <2>2. InFlight = 0
    BY <1>1, <1>2 DEF InFlight
  <2> SUFFICES ASSUME NEW p \in 0..(head - 1), p >= head + n - CBUFFSIZE
               PROVE  InRing(p)'
    BY <1>1, <2>1 DEF RingHoldsLastLap
  <2>3. PICK i \in {p % CBUFFSIZE, CBUFFSIZE + (p % CBUFFSIZE)} \cap Slots : buffer[i] = p
    BY <1>2, <1>4, <2>2 DEF BufferInv, RingHoldsLastLap, InRing
  <2>4. p \in Nat /\ p < head /\ p # Blank
    BY <1>4 DEF Blank
  <2>5. i \in Slots /\ p % CBUFFSIZE = i % CBUFFSIZE
    BY <2>3, <2>4 DEF BufferInv, SlotInv
  <2>6. ~New(i)
    <3> SUFFICES ASSUME New(i) PROVE FALSE
      OBVIOUS
    <3> DEFINE q == head + (i - at)
    <3>1. q \in Int /\ p < q /\ q <= head + n - 1
      BY <1>2, <1>4, <2>4, <2>5
    <3>2. q % CBUFFSIZE = p % CBUFFSIZE
      BY <1>8, <2>5
    <3> HIDE DEF q
    <3>3. q >= p + CBUFFSIZE
      BY <2>4, <3>1, <3>2, LapApart
    <3> QED
      BY <1>2, <1>4, <2>4, <3>1, <3>3
  <2>7. buffer'[i] = p
    BY <1>7, <2>3, <2>5, <2>6
  <2> QED
    BY <2>3, <2>7 DEF InRing
<1> QED
  BY <1>9, <1>10, <1>11, <1>12, <1>13 DEF BufferInv

(* The head's update turns the event that was copied into the ring's last   *)
(* bytes.                                                                   *)
LEMMA PublishBuffer ==
    ASSUME TypeOK, IndInv, BufferInv, NEW t \in Threads, PublishHead(t)
    PROVE  BufferInv'
<1> DEFINE at == head % CBUFFSIZE
           n == len[t]
           New(i) == i - at \in 0..(n - 1)
<1>1. /\ pc[t] = "publish" /\ head' = head + n
      /\ \A u \in Threads : u # t => pc'[u] = pc[u]
      /\ pc'[t] # "publish"
      /\ UNCHANGED <<tail, buffer, flusherVars>>
  BY DEF PublishHead, Publish, TypeOK
<1>2. /\ \A u \in Threads : u # t => pc[u] # "publish"
      /\ n \in 1..EVENTSIZE /\ n <= CBUFFSIZE /\ n \in Nat
  BY <1>1, Alone, HostBufAssumption
<1>3. \A i \in Slots : IF New(i) THEN buffer[i] = head + (i - at) ELSE buffer[i] < head
  BY <1>1 DEF BufferInv, CopiedInv
<1>4. /\ head \in Nat /\ at \in 0..(CBUFFSIZE - 1) /\ CBUFFSIZE \in Nat
      /\ PAGE \in Nat /\ EVENTSIZE <= PAGE /\ EVENTSIZE \in Nat
      /\ \A i \in Slots : i \in Nat /\ buffer[i] \in Int
  <2>1. head \in Nat /\ CBUFFSIZE \in Nat \ {0} /\ PAGE \in Nat
    BY PageSizes, HeadSlot
  <2>2. at \in 0..(CBUFFSIZE - 1)
    BY HeadSlot
  <2>3. ASSUME NEW i \in Slots PROVE i \in Nat /\ buffer[i] \in Int
    BY HostBufAssumption DEF TypeOK, Slots, Cells
  <2> QED
    BY <2>1, <2>2, <2>3, HostBufAssumption
<1>5. \A u \in Threads : pc'[u] # "publish"
  BY <1>1, <1>2
<1>6. \A i \in Slots : New(i) => (head + (i - at)) % CBUFFSIZE = i % CBUFFSIZE
  BY <1>2, <1>4, CopySlot
<1> HIDE DEF at, n
<1>7. SlotInv' /\ SlackInv' /\ CopiedInv'
  BY <1>1, <1>5 DEF BufferInv, SlotInv, SlackInv, CopiedInv, flusherVars
<1>8. PublishedInv'
  <2>1. ASSUME NEW i \in Slots PROVE buffer[i] < head + n
    BY <1>2, <1>3, <1>4
  <2> QED
    BY <1>1, <2>1 DEF PublishedInv
<1>9. RingHoldsLastLap'
  <2>1. InFlight = n
    BY <1>1, <1>2 DEF InFlight, n
  <2>2. InFlight' = 0
    BY <1>5 DEF InFlight
  <2> SUFFICES ASSUME NEW p \in 0..(head + n - 1), p >= head + n - CBUFFSIZE
               PROVE  InRing(p)'
    BY <1>1, <1>2, <1>4, <2>2 DEF RingHoldsLastLap
  <2>3. CASE p < head
    <3>1. p \in 0..(head - 1) /\ p >= head + InFlight - CBUFFSIZE
      BY <1>4, <2>1, <2>3
    <3>2. InRing(p)
      BY <3>1 DEF BufferInv, RingHoldsLastLap
    <3> QED
      BY <1>1, <3>2 DEF InRing
  <2>4. CASE ~(p < head)
    <3> DEFINE i == at + (p - head)
    <3>1. i \in Slots /\ New(i) /\ i \in Nat /\ p = head + (i - at)
      BY <1>2, <1>4, <2>4 DEF Slots
    <3> HIDE DEF i
    <3>2. buffer[i] = p
      BY <1>3, <3>1
    <3>3. p % CBUFFSIZE = i % CBUFFSIZE
      BY <1>6, <3>1
    <3>4. i = p % CBUFFSIZE \/ i = CBUFFSIZE + (p % CBUFFSIZE)
      <4>1. i % CBUFFSIZE = IF i < CBUFFSIZE THEN i ELSE i - CBUFFSIZE
        BY <3>1, SlotMod
      <4> QED
        BY <1>4, <3>1, <3>3, <4>1
    <3> QED
      BY <1>1, <3>1, <3>2, <3>4 DEF InRing
  <2> QED
    BY <2>3, <2>4
<1> QED
  BY <1>7, <1>8, <1>9 DEF BufferInv

(* A flush begins where the next one will end: at a head, which is never    *)
(* among an event's bytes in the slack.                                     *)
LEMMA HeadNotInSlack ==
    ASSUME TypeOK, IndInv, BufferInv, NEW i \in Slots, i >= CBUFFSIZE, buffer[i] # Blank
    PROVE  head \notin (buffer[i] - (i - CBUFFSIZE))..buffer[i]
<1> DEFINE at == head % CBUFFSIZE
<1>1. /\ head \in Nat /\ at \in 0..(CBUFFSIZE - 1) /\ CBUFFSIZE \in Nat
      /\ i \in Nat /\ buffer[i] \in Int
  <2>1. head \in Nat /\ CBUFFSIZE \in Nat \ {0}
    BY HeadSlot
  <2>2. at \in 0..(CBUFFSIZE - 1)
    BY HeadSlot
  <2> QED
    BY <2>1, <2>2, HostBufAssumption DEF TypeOK, Slots, Cells
<1>2. buffer[i] < head \/ buffer[i] = head + (i - at)
  BY DEF BufferInv, CopiedInv, PublishedInv
<1> DEFINE lo == buffer[i] - (i - CBUFFSIZE)
           hi == buffer[i]
<1>3. hi < head \/ lo = head + CBUFFSIZE - at
  BY <1>1, <1>2
<1>4. lo \in Int /\ hi \in Int
  BY <1>1
<1> HIDE DEF at, lo, hi
<1>5. head \notin lo..hi
  BY <1>1, <1>3, <1>4
<1> QED
  BY <1>5 DEF lo, hi

(* No step writes over what lies in the ring of the last lap. *)
LEMMA BufferStep ==
    ASSUME TypeOK, IndInv, BufferInv, [Next]_vars
    PROVE  BufferInv'
<1>1. CASE UNCHANGED vars
  BY <1>1, QuietBuffer DEF vars, producerVars, flusherVars
<1>2. ASSUME NEW t \in Threads, Producer(t)
      PROVE  BufferInv'
  <2>1. CASE LogEnd(t) \/ LockProducer(t) \/ MakeSpace(t) \/ WaitFlushed(t)
    <3>1. UNCHANGED <<head, tail, buffer, fpc, end>>
      BY <2>1 DEF LogEnd, LockProducer, MakeSpace, WaitFlushed, flusherVars
    <3>2. \A u \in Threads : /\ pc'[u] = "publish" <=> pc[u] = "publish"
                             /\ pc[u] = "publish" => len'[u] = len[u]
      BY <2>1 DEF LogEnd, LockProducer, MakeSpace, WaitFlushed, TypeOK
    <3> QED
      BY <3>1, <3>2, QuietBuffer
  <2> QED
    BY <1>2, <2>1, CopyBuffer, PublishBuffer DEF Producer, Produce
<1>3. CASE AddPage \/ TransferPage \/ SubmitFails \/ SubmitDone
  <2>1. fpc # "loop" /\ UNCHANGED <<head, tail, buffer, pc, len, end>>
    BY <1>3 DEF AddPage, Chunk, TransferPage, TransferAs, SubmitFails, SubmitDone,
                producerVars, flusherVars
  <2> QED
    BY <2>1, QuietBuffer
<1>4. CASE Snapshot
  <2>1. end' = head /\ UNCHANGED <<head, tail, buffer, producerVars>>
    BY <1>4 DEF Snapshot
  <2>2. SlackInv'
    BY <2>1, HeadNotInSlack DEF BufferInv, SlackInv
  <2> QED
    BY <2>1, <2>2
    DEF BufferInv, SlotInv, CopiedInv, PublishedInv, RingHoldsLastLap, InRing, InFlight,
        producerVars
<1>5. CASE AdvanceTail
  <2>1. /\ fpc # "loop" /\ fpc' = "loop" /\ tail' = end
        /\ UNCHANGED <<head, buffer, producerVars>>
    BY <1>5 DEF AdvanceTail, FlushOver
  <2>2. SlackInv'
    BY <2>1 DEF BufferInv, SlackInv
  <2> QED
    BY <2>1, <2>2
    DEF BufferInv, SlotInv, CopiedInv, PublishedInv, RingHoldsLastLap, InRing, InFlight,
        producerVars
<1> QED
  BY <1>1, <1>2, <1>3, <1>4, <1>5 DEF Next, Flusher

(* Nothing lies in the ring at first. *)
LEMMA InitBufferInv == Init => BufferInv
<1> SUFFICES ASSUME Init PROVE BufferInv
  OBVIOUS
<1>1. \A i \in Slots : buffer[i] = Blank
  BY DEF Init
<1>2. \A t \in Threads : pc[t] # "publish"
  BY DEF Init
<1>3. head = 0 /\ Blank < 0
  BY DEF Init, Blank
<1> QED
  BY <1>1, <1>2, <1>3
  DEF BufferInv, SlotInv, CopiedInv, PublishedInv, SlackInv, RingHoldsLastLap
(* The ring is what BufferInv says throughout. *)
THEOREM BufferInvariance == Spec => []BufferInv
  BY InitBufferInv, BufferStep, TypeCorrect, Invariance, PTL DEF Spec

(* Each of the last CBUFFSIZE bytes logged is in its place, but for those   *)
(* under the event that is being copied (audit_log_end_hardlog).            *)
THEOREM LastLapIsHeld == Spec => []RingHoldsLastLap
<1>1. BufferInv => RingHoldsLastLap
  BY DEF BufferInv
<1> QED
  BY <1>1, BufferInvariance, PTL
-----------------------------------------------------------------------------
(* What the pages of a flush hold. *)

(* Pages do not overlap. *)
LEMMA PagesApart ==
    ASSUME NEW a \in Int, NEW b \in Int, a < b
    PROVE  a * PAGE \in Int /\ b * PAGE \in Int /\ a * PAGE + PAGE <= b * PAGE
<1>1. PAGE \in Nat
  BY PageSizes
<1>2. b - a - 1 \in Nat
  OBVIOUS
<1>3. (b - a - 1) * PAGE \in Nat
  BY <1>1, <1>2
<1>4. (b - a - 1) * PAGE = b * PAGE - a * PAGE - PAGE
  BY <1>1
<1> QED
  BY <1>1, <1>3, <1>4

(* A position's page and byte. *)
LEMMA PageAndByte ==
    ASSUME NEW x \in Nat
    PROVE  /\ x \div PAGE \in Nat /\ x % PAGE \in 0..(PAGE - 1)
           /\ x = PAGE * (x \div PAGE) + (x % PAGE)
<1>1. PAGE \in Nat \ {0} /\ x \in Int
  BY PageSizes
<1>2. x % PAGE \in 0..(PAGE - 1) /\ x = PAGE * (x \div PAGE) + (x % PAGE)
  BY <1>1, DivMod
<1>3. x \div PAGE \in Nat
  BY <1>1
<1> QED
  BY <1>2, <1>3

(* Nothing else is a position's page and byte. *)
LEMMA PageUnique ==
    ASSUME NEW x \in Int, NEW q \in Int, NEW r \in 0..(PAGE - 1), x = PAGE * q + r
    PROVE  x % PAGE = r /\ x \div PAGE = q
<1>1. PAGE \in Nat \ {0}
  BY PageSizes
<1> QED
  BY <1>1, DivModUnique

(* A whole number of pages, and one more. *)
LEMMA WholePages ==
    ASSUME NEW x \in Nat, x % PAGE = 0
    PROVE  /\ x \div PAGE \in Nat /\ x = (x \div PAGE) * PAGE
           /\ (x + PAGE) % PAGE = 0 /\ (x + PAGE) \div PAGE = (x \div PAGE) + 1
<1> DEFINE q == x \div PAGE
           y == x + PAGE
<1>1. PAGE \in Nat \ {0} /\ q \in Nat /\ x = PAGE * q
  <2>1. PAGE \in Nat \ {0}
    BY PageSizes
  <2> QED
    BY <2>1, DivMod
<1> HIDE DEF q
<1>2. y = PAGE * (q + 1) + 0 /\ q + 1 \in Int /\ 0 \in 0..(PAGE - 1)
  BY <1>1
<1> HIDE DEF y
<1>3. y % PAGE = 0 /\ y \div PAGE = q + 1
  BY <1>1, <1>2, PageUnique
<1>4. x = q * PAGE
  BY <1>1
<1> QED
  BY <1>1, <1>3, <1>4 DEF q, y

(* Before the first page. *)
LEMMA NoPages == 0 % PAGE = 0 /\ 0 \div PAGE = 0
<1>1. PAGE \in Nat \ {0} /\ 0 = PAGE * 0 + 0 /\ 0 \in 0..(PAGE - 1)
  BY PageSizes
<1> QED
  BY <1>1, DivModUnique

(* A full piece is sent as a page of the ring. *)
LEMMA EntrySlot ==
    ASSUME TypeOK, NEW j \in Nat, Full(j)
    PROVE  /\ Entry(j) # Tmp
           /\ \A b \in 0..(PAGE - 1) : /\ Entry(j) * PAGE + b \in Slots
                                       /\ Entry(j) * PAGE + b < CBUFFSIZE
<1> DEFINE n == PieceAt(j) \div PAGE
           c == CBUFFSIZE \div PAGE
<1>1. Entry(j) = n
  BY DEF Entry
<1>2. start + j * PAGE \in Nat
  <2>1. j * PAGE \in Nat
    BY PageSizes
  <2> QED
    BY <2>1 DEF TypeOK
<1>3. n \in 0..(c - 1)
  BY <1>2, SlotInRing DEF PieceAt
<1>4. c \in Nat /\ CBUFFSIZE = c * PAGE /\ PAGE \in Nat
  BY PageSizes
<1> HIDE DEF n, c
<1>5. n \in Int /\ n >= 0 /\ n < c
  BY <1>3, <1>4
<1>6. n * PAGE \in Int /\ n * PAGE + PAGE <= CBUFFSIZE
  BY <1>4, <1>5, PagesApart
<1>7. n * PAGE >= 0
  BY <1>4, <1>5
<1> QED
  BY <1>1, <1>4, <1>5, <1>6, <1>7 DEF Slots, Tmp

(* What is copied to tmpbuf lies in the ring or in the slack. *)
LEMMA RestSlot ==
    ASSUME NEW x \in Int, NEW b \in 0..(PAGE - 1)
    PROVE  (x % CBUFFSIZE) + b \in Slots
<1>1. CBUFFSIZE \in Nat \ {0} /\ PAGE \in Nat
  BY PageSizes
<1>2. x % CBUFFSIZE \in 0..(CBUFFSIZE - 1)
  BY <1>1, DivMod
<1> HIDE DEF Slots
<1> DEFINE s == x % CBUFFSIZE
<1> HIDE DEF s
<1>3. s \in 0..(CBUFFSIZE - 1)
  BY <1>2 DEF s
<1>4. s + b \in Slots
  BY <1>1, <1>3 DEF Slots
<1> QED
  BY <1>4 DEF s

(* A step of a producer: no byte of the ring changes but to one that is     *)
(* behind the flush, where one lay that was published.                      *)
LEMMA QuietFlush ==
    ASSUME TypeOK, BioInv, RestInv, SentInv, UNCHANGED <<bioVars, flusherVars>>,
           head' \in Nat, head' >= head,
           fpc # "loop" => \A i \in Slots :
               \/ buffer'[i] = buffer[i]
               \/ buffer'[i] \in Int /\ buffer'[i] >= end /\ buffer[i] < head
    PROVE  BioInv' /\ RestInv' /\ SentInv'
<1>1. /\ UNCHANGED <<consumed, bio, tmpbuf, ret, usb, fpc, start, end>>
  BY DEF bioVars, flusherVars
<1>2. /\ \A j : (Full(j)' <=> Full(j)) /\ Entry(j)' = Entry(j) /\ DonePage(j)' = DonePage(j)
      /\ PagesAdded' = PagesAdded /\ PagesDone' = PagesDone
      /\ Flushing' = Flushing /\ remaining' = remaining
  BY <1>1 DEF Full, Entry, PieceAt, DonePage, PagesDone, PagesAdded, Flushing, FlushReturned,
              remaining
<1>3. BioInv'
  BY <1>1, <1>2 DEF BioInv
<1>4. RestInv'
  <2> SUFFICES ASSUME Flushing, remaining < 0, NEW b \in 0..(remaining + PAGE - 1)
               PROVE  LET byte == buffer'[((start + consumed - PAGE) % CBUFFSIZE) + b]
                      IN  /\ byte < end => tmpbuf[b + 1] = byte
                          /\ tmpbuf[b + 1] < head' \/ tmpbuf[b + 1] = byte
    BY <1>1, <1>2 DEF RestInv
  <2> DEFINE i == ((start + consumed - PAGE) % CBUFFSIZE) + b
  <2>1. b \in 0..(PAGE - 1) /\ start + consumed - PAGE \in Int /\ b + 1 \in 1..PAGE
    BY PageSizes DEF TypeOK, remaining
  <2>2. i \in Slots
    BY <2>1, RestSlot
  <2>3. /\ buffer[i] < end => tmpbuf[b + 1] = buffer[i]
        /\ tmpbuf[b + 1] < head \/ tmpbuf[b + 1] = buffer[i]
    BY DEF RestInv
  <2> HIDE DEF i
  <2>4. buffer[i] \in Int /\ tmpbuf[b + 1] \in Int /\ head \in Nat /\ end \in Nat
    BY <2>1, <2>2 DEF TypeOK, Page, Cells
  <2>5. \/ buffer'[i] = buffer[i]
        \/ buffer'[i] \in Int /\ buffer'[i] >= end /\ buffer[i] < head
    BY <2>2 DEF Flushing, FlushReturned
  <2>6. /\ buffer'[i] < end => tmpbuf[b + 1] = buffer'[i]
        /\ tmpbuf[b + 1] < head' \/ tmpbuf[b + 1] = buffer'[i]
    BY <2>3, <2>4, <2>5
  <2> QED
    BY <2>6 DEF i
<1>5. SentInv'
  <2> SUFFICES ASSUME Flushing, NEW j \in 0..(PagesDone - 1), Full(j), NEW b \in 0..(PAGE - 1),
                      buffer'[Entry(j) * PAGE + b] < end
               PROVE  DonePage(j)[b + 1] = buffer'[Entry(j) * PAGE + b]
    BY <1>1, <1>2 DEF SentInv
  <2> DEFINE i == Entry(j) * PAGE + b
  <2>1. i \in Slots
    BY EntrySlot
  <2>2. buffer[i] < end => DonePage(j)[b + 1] = buffer[i]
    BY DEF SentInv
  <2> HIDE DEF i
  <2>3. end \in Nat /\ buffer'[i] < end
    BY DEF TypeOK, i
  <2>4. buffer'[i] = buffer[i]
    BY <2>1, <2>3 DEF Flushing, FlushReturned
  <2> QED
    BY <2>2, <2>3, <2>4 DEF i
<1> QED
  BY <1>3, <1>4, <1>5

(* bio_write adds the next piece of the range; what does not fill a page is *)
(* copied as it stands in the ring.                                         *)
LEMMA AddPageFlush ==
    ASSUME TypeOK, BioInv, RestInv, SentInv, AddPage
    PROVE  BioInv' /\ RestInv' /\ SentInv'
<1> DEFINE A == PagesAdded
           D == PagesDone
<1>1. /\ fpc = "chunk" /\ Flushing
      /\ start < end /\ consumed - PAGE < end - start /\ consumed % PAGE = 0
      /\ Len(bio) <= A /\ D <= Len(usb)
      /\ \A m \in 1..Len(bio) : bio[m] = Entry(D + m - 1)
      /\ remaining > 0
  BY DEF AddPage, Chunk, Flushing, BioInv
<1>2. /\ A \in Nat /\ consumed = A * PAGE /\ (consumed + PAGE) % PAGE = 0
      /\ (consumed + PAGE) \div PAGE = A + 1
  BY <1>1, WholePages DEF TypeOK, PagesAdded
<1>3. /\ bio \in Seq(Entries) /\ Len(bio) \in Nat /\ D = A - Len(bio) /\ D \in Nat
      /\ start \in Nat /\ end \in Nat /\ consumed \in Nat /\ PAGE \in Nat \ {0}
      /\ Len(usb) \in Nat
      /\ remaining = end - start - consumed
  <2>1. bio \in Seq(Entries) /\ Len(bio) \in Nat /\ D = A - Len(bio) /\ Len(usb) \in Nat
    BY LenProperties DEF TypeOK, PagesDone
  <2> QED
    BY <1>1, <1>2, <2>1, PageSizes DEF TypeOK, remaining
<1>4. PICK page, rest : Chunk(page, rest) /\ page = Entry(A)
                        /\ rest = IF Full(A) THEN tmpbuf ELSE CopiedRest(remaining, ChunkAt)
  <2>1. remaining >= PAGE <=> Full(A)
    BY <1>2, <1>3 DEF Full
  <2>2. PieceAt(A) = ChunkAt
    BY <1>2 DEF PieceAt, ChunkAt
  <2>3. CASE Full(A)
    BY <2>1, <2>2, <2>3 DEF AddPage, Entry
  <2>4. CASE ~Full(A)
    BY <2>1, <2>2, <2>4 DEF AddPage, Entry
  <2> QED
    BY <2>3, <2>4
<1>5. /\ bio' = Append(bio, Entry(A)) /\ tmpbuf' = rest /\ consumed' = consumed + PAGE
      /\ fpc' \in {"chunk", "submit"}
      /\ fpc' = "chunk" => ~(remaining <= PAGE)
      /\ UNCHANGED <<head, buffer, ret, usb, start, end>>
  BY <1>4 DEF Chunk
<1>6. /\ Len(bio') = Len(bio) + 1
      /\ \A m \in 1..Len(bio) : bio'[m] = bio[m]
      /\ bio'[Len(bio) + 1] = Entry(A)
  <2>1. Entry(A) \in Entries
    <3>1. CASE Full(A)
      <4>1. start + A * PAGE \in Nat
        BY <1>2, <1>3
      <4>2. PieceAt(A) \div PAGE \in 0..(CBUFFSIZE \div PAGE - 1)
        BY <4>1, SlotInRing DEF PieceAt
      <4> QED
        BY <3>1, <4>2, PageSizes DEF Entry, Entries, Tmp
    <3>2. CASE ~Full(A)
      BY <3>2, PageSizes DEF Entry, Entries, Tmp
    <3> QED
      BY <3>1, <3>2
  <2> QED
    BY <1>3, <1>5, <2>1, AppendProperties
<1>7. PagesAdded' = A + 1 /\ PagesDone' = D /\ Flushing'
  <2>1. PagesAdded' = A + 1
    BY <1>2, <1>5 DEF PagesAdded
  <2>2. PagesDone' = D
    BY <1>2, <1>3, <1>6, <2>1 DEF PagesDone
  <2> QED
    BY <1>5, <2>1, <2>2 DEF Flushing
<1>8. /\ \A j : Entry(j)' = Entry(j) /\ (Full(j)' <=> Full(j))
      /\ \A j : DonePage(j)' = DonePage(j)
  BY <1>5, <1>7 DEF Entry, Full, PieceAt, DonePage
<1>9. remaining' = remaining - PAGE /\ remaining' \in Int
  BY <1>3, <1>5 DEF remaining
<1> HIDE DEF A, D
<1>10. BioInv'
  <2>1. \A m \in 1..Len(bio') : bio'[m] = Entry(D + m - 1)
    <3> SUFFICES ASSUME NEW m \in 1..Len(bio') PROVE bio'[m] = Entry(D + m - 1)
      OBVIOUS
    <3>1. CASE m \in 1..Len(bio)
      BY <1>1, <1>6, <3>1
    <3>2. CASE m = Len(bio) + 1
      <4>1. D + m - 1 = A
        BY <1>2, <1>3, <3>2
      <4> QED
        BY <1>6, <3>2, <4>1
    <3> QED
      BY <1>3, <1>6, <3>1, <3>2
  <2>2. /\ consumed' - PAGE < end - start /\ Len(bio') <= A + 1
        /\ fpc' = "chunk" => remaining' > 0
    <3>1. consumed' - PAGE = consumed /\ consumed < end - start
      BY <1>1, <1>3, <1>5
    <3>2. Len(bio') <= A + 1
      BY <1>1, <1>2, <1>3, <1>6
    <3>3. fpc' = "chunk" => remaining' > 0
      BY <1>3, <1>5, <1>9
    <3> QED
      BY <3>1, <3>2, <3>3
  <2>3. consumed' % PAGE = 0 /\ start' < end' /\ PagesDone' <= Len(usb')
        /\ fpc' \notin {"loop", "advance"}
    BY <1>1, <1>2, <1>5, <1>7
  <2> QED
    BY <1>5, <1>7, <1>8, <2>1, <2>2, <2>3 DEF BioInv
<1>11. RestInv'
  <2> SUFFICES ASSUME remaining' < 0, NEW b \in 0..(remaining' + PAGE - 1)
               PROVE  tmpbuf'[b + 1]
                        = buffer[((start + consumed' - PAGE) % CBUFFSIZE) + b]
    BY <1>5 DEF RestInv
  <2>1. /\ b + 1 \in 1..PAGE /\ b + 1 <= remaining /\ ~Full(A)
        /\ start + consumed' - PAGE = start + consumed /\ b \in Int
    BY <1>2, <1>3, <1>5, <1>9 DEF Full
  <2>2. tmpbuf'[b + 1] = buffer[ChunkAt + (b + 1) - 1]
    BY <1>4, <1>5, <2>1 DEF CopiedRest
  <2>3. ChunkAt \in Int
    BY <1>3, LapAndSlot DEF ChunkAt
  <2>4. ChunkAt + (b + 1) - 1 = ChunkAt + b
    BY <2>1, <2>3
  <2> QED
    BY <2>1, <2>2, <2>4 DEF ChunkAt
<1>12. SentInv'
  <2>1. ASSUME NEW j \in 0..(D - 1) PROVE Full(j)
    <3>1. j \in Int /\ j < A
      BY <1>2, <1>3
    <3>2. j * PAGE \in Int /\ j * PAGE + PAGE <= A * PAGE
      BY <1>2, <3>1, PagesApart
    <3>3. A * PAGE < end - start
      BY <1>1, <1>2, <1>3
    <3>4. end - start - j * PAGE >= PAGE
      BY <1>2, <1>3, <3>2, <3>3
    <3> QED
      BY <3>4 DEF Full
  <2> QED
    BY <1>1, <1>5, <1>7, <1>8, <2>1 DEF SentInv, D
<1> QED
  BY <1>10, <1>11, <1>12

(* A page shows entry n of a bio: bytes of before the flush's end are as    *)
(* the ring has them, all are of that page's slots; or it is tmpbuf.        *)
Shows(page, n) ==
    IF n = Tmp THEN page = tmpbuf
    ELSE \A b \in 0..(PAGE - 1) :
             LET i == n * PAGE + b
             IN  /\ buffer[i] < end => page[b + 1] = buffer[i]
                 /\ page[b + 1] # Blank => page[b + 1] % CBUFFSIZE = i

(* The device is handed the next page of the bio. *)
LEMMA TransferFlush ==
    ASSUME TypeOK, BioInv, RestInv, SentInv,
           NEW page \in Page, TransferAs(page), Shows(page, Head(bio))
    PROVE  BioInv' /\ RestInv' /\ SentInv'
<1> DEFINE A == PagesAdded
           D == PagesDone
           L == Len(usb)
<1>1. /\ fpc = "submit" /\ Flushing /\ bio # <<>>
      /\ start < end /\ consumed - PAGE < end - start /\ consumed % PAGE = 0
      /\ Len(bio) <= A /\ D <= L
      /\ \A m \in 1..Len(bio) : bio[m] = Entry(D + m - 1)
  BY DEF TransferAs, Flushing, BioInv
<1>2. /\ bio' = Tail(bio) /\ usb' = Append(usb, page)
      /\ UNCHANGED <<head, buffer, fpc, start, end, consumed, tmpbuf, ret>>
  BY DEF TransferAs, flusherVars
<1>3. A \in Nat
  BY <1>1, WholePages DEF TypeOK, PagesAdded
<1>4. /\ bio \in Seq(Entries) /\ Len(bio) \in Nat \ {0} /\ usb \in Seq(Page) /\ L \in Nat
      /\ D = A - Len(bio) /\ D \in Nat
  <2>1. bio \in Seq(Entries) /\ usb \in Seq(Page) /\ D = A - Len(bio)
    BY DEF TypeOK, PagesDone
  <2>2. Len(bio) \in Nat /\ L \in Nat /\ Len(bio) # 0
    BY <1>1, <2>1, LenProperties, EmptySeq
  <2> QED
    BY <1>1, <1>3, <2>1, <2>2
<1>5. /\ Len(bio') = Len(bio) - 1 /\ \A m \in 1..Len(bio') : bio'[m] = bio[m + 1]
      /\ Head(bio) = Entry(D)
  <2>1. Head(bio) = bio[1] /\ bio[1] = Entry(D + 1 - 1) /\ D + 1 - 1 = D
    BY <1>1, <1>4, HeadTailProperties
  <2>2. /\ Len(Tail(bio)) = Len(bio) - 1
        /\ \A m \in 1..Len(Tail(bio)) : Tail(bio)[m] = bio[m + 1]
    BY <1>1, <1>4, HeadTailProperties
  <2> QED
    BY <1>2, <2>1, <2>2
<1>6. /\ Len(usb') = L + 1 /\ \A m \in 1..L : usb'[m] = usb[m]
      /\ usb'[L + 1] = page
  BY <1>2, <1>4, AppendProperties
<1>7. PagesAdded' = A /\ PagesDone' = D + 1 /\ Flushing' /\ remaining' = remaining
  BY <1>1, <1>2, <1>3, <1>4, <1>5 DEF PagesAdded, PagesDone, Flushing, remaining
<1>8. \A j : Entry(j)' = Entry(j) /\ (Full(j)' <=> Full(j))
  BY <1>2 DEF Entry, Full, PieceAt
<1>9. \A j : /\ DonePage(j) = usb[L - D + 1 + j]
            /\ DonePage(j)' = usb'[(L + 1) - (D + 1) + 1 + j]
  BY <1>6, <1>7 DEF DonePage
<1> HIDE DEF A, D, L
<1>10. BioInv'
  <2>1. \A m \in 1..Len(bio') : bio'[m] = Entry((D + 1) + m - 1)
    <3> SUFFICES ASSUME NEW m \in 1..Len(bio') PROVE bio'[m] = Entry((D + 1) + m - 1)
      OBVIOUS
    <3>1. m + 1 \in 1..Len(bio) /\ D + (m + 1) - 1 = (D + 1) + m - 1
      BY <1>4, <1>5
    <3> QED
      BY <1>1, <1>5, <3>1
  <2>2. Len(bio') <= A /\ D + 1 <= L + 1
    BY <1>1, <1>3, <1>4, <1>5
  <2> QED
    BY <1>1, <1>2, <1>6, <1>7, <1>8, <2>1, <2>2 DEF BioInv
<1>11. RestInv'
  BY <1>1, <1>2, <1>7 DEF RestInv
<1>12. SentInv'
  <2> SUFFICES ASSUME NEW j \in 0..D
               PROVE  IF Full(j)
                      THEN \A b \in 0..(PAGE - 1) :
                             LET i == Entry(j) * PAGE + b
                             IN  /\ buffer[i] < end => DonePage(j)'[b + 1] = buffer[i]
                                 /\ DonePage(j)'[b + 1] # Blank
                                      => DonePage(j)'[b + 1] % CBUFFSIZE = i
                      ELSE DonePage(j)' = tmpbuf
    <3>1. 0..(PagesDone' - 1) = 0..D
      BY <1>4, <1>7
    <3> QED
      BY <1>2, <1>8, <3>1 DEF SentInv
  <2>1. CASE j \in 0..(D - 1)
    <3>0. D \in Nat /\ L \in Nat /\ D <= L /\ j \in Int
      BY <1>1, <1>4, <2>1 DEF D, L
    <3> HIDE DEF D, L
    <3>1. L - D + 1 + j \in 1..L /\ (L + 1) - (D + 1) + 1 + j = L - D + 1 + j
      BY <2>1, <3>0
    <3>2. DonePage(j)' = DonePage(j)
      BY <1>6, <1>9, <3>1
    <3> QED
      BY <1>1, <2>1, <3>2 DEF SentInv, D
  <2>2. CASE j = D
    <3>1. (L + 1) - (D + 1) + 1 + j = L + 1
      BY <1>4, <2>2
    <3>2. DonePage(j)' = page /\ Shows(page, Entry(j))
      BY <1>5, <1>6, <1>9, <2>2, <3>1
    <3>3. Full(j) => Entry(j) # Tmp
      BY <1>4, <2>2, EntrySlot
    <3>4. ~Full(j) => Entry(j) = Tmp
      BY DEF Entry
    <3> QED
      BY <3>2, <3>3, <3>4 DEF Shows
  <2> QED
    BY <1>4, <2>1, <2>2
<1> QED
  BY <1>10, <1>11, <1>12

(* A page that is read while it is in the bio shows its entry. *)
LEMMA ReadAt ==
    ASSUME TypeOK, SlotInv, BioInv, fpc = "submit", NEW m \in 1..Len(bio)
    PROVE  /\ bio[m] \in Entries /\ PageAt(bio[m]) \in Page
           /\ Shows(PageAt(bio[m]), bio[m])
<1> DEFINE D == PagesDone + m - 1
<1>1. /\ Flushing /\ start < end /\ consumed % PAGE = 0 /\ Len(bio) <= PagesAdded
      /\ bio[m] = Entry(D)
  BY DEF Flushing, BioInv
<1>2. bio \in Seq(Entries) /\ Len(bio) \in Nat
  BY LenProperties DEF TypeOK
<1>3. PagesAdded \in Nat
  BY <1>1, WholePages DEF TypeOK, PagesAdded
<1>4. D \in Nat
  BY <1>1, <1>2, <1>3 DEF PagesDone
<1> HIDE DEF D
<1>5. bio[m] = Entry(D) /\ bio[m] \in Entries
  BY <1>1, <1>2, LenProperties
<1>6. PageAt(bio[m]) \in Page
  BY <1>5, PageAtType
<1>7. CASE Full(D)
  <2>1. Entry(D) # Tmp /\ Entry(D) \in Int
    <3>1. start + D * PAGE \in Nat
      <4>1. start \in Nat /\ PAGE \in Nat
        BY PageSizes DEF TypeOK
      <4>2. D * PAGE \in Nat
        BY <1>4, <4>1
      <4> HIDE DEF TypeOK
      <4> QED
        BY <4>1, <4>2
    <3>2. PieceAt(D) \div PAGE \in 0..(CBUFFSIZE \div PAGE - 1)
      BY <3>1, SlotInRing DEF PieceAt
    <3>3. Entry(D) \in Int
      BY <1>7, <3>2, PageSizes DEF Entry
    <3> QED
      BY <1>4, <1>7, <3>3, EntrySlot
  <2> SUFFICES ASSUME NEW b \in 0..(PAGE - 1)
               PROVE  LET i == Entry(D) * PAGE + b
                      IN  /\ PageAt(Entry(D))[b + 1] = buffer[i]
                          /\ buffer[i] # Blank => buffer[i] % CBUFFSIZE = i
    BY <1>5, <1>6, <2>1 DEF Shows
  <2> DEFINE i == Entry(D) * PAGE + b
  <2>2. i \in Slots /\ i < CBUFFSIZE
    BY <1>4, <1>7, EntrySlot
  <2>3. buffer[i] # Blank => buffer[i] % CBUFFSIZE = i
    BY <2>2, SlotMod DEF SlotInv
  <2>4. b + 1 \in 1..PAGE /\ b \in Int
    BY PageSizes
  <2>5. PageAt(Entry(D))[b + 1] = buffer[Entry(D) * PAGE + (b + 1) - 1]
    BY <2>1, <2>4 DEF PageAt
  <2>6. Entry(D) * PAGE \in Int
    BY <2>1, PageSizes
  <2>7. Entry(D) * PAGE + (b + 1) - 1 = i
    BY <2>4, <2>6
  <2> QED
    BY <2>3, <2>5, <2>7
<1>8. CASE ~Full(D)
  <2>1. Entry(D) = Tmp
    BY <1>8 DEF Entry
  <2> QED
    BY <1>5, <1>6, <2>1 DEF Shows, PageAt
<1> QED
  BY <1>7, <1>8

(* So does the one that is handed over. *)
LEMMA ReadNow ==
    ASSUME TypeOK, SlotInv, BioInv, fpc = "submit", bio # <<>>
    PROVE  /\ Head(bio) \in Entries /\ PageAt(Head(bio)) \in Page
           /\ Shows(PageAt(Head(bio)), Head(bio))
<1>1. bio \in Seq(Entries) /\ Len(bio) \in Nat \ {0} /\ Head(bio) = bio[1]
  BY LenProperties, EmptySeq, HeadTailProperties DEF TypeOK
<1>2. 1 \in 1..Len(bio)
  BY <1>1
<1> QED
  BY <1>1, <1>2, ReadAt

(* The other steps of the flusher. *)
LEMMA FlusherFlush ==
    ASSUME TypeOK, IndInv, BufferInv, BioInv, RestInv, SentInv, Flusher
    PROVE  BioInv' /\ RestInv' /\ SentInv'
<1>1. CASE Snapshot
  <2>1. /\ fpc = "loop" /\ start' = tail /\ end' = head /\ consumed' = 0
        /\ fpc' = (IF head = tail THEN "advance" ELSE "chunk")
        /\ ret' = (IF head = tail THEN "err" ELSE "none")
        /\ UNCHANGED <<bio, usb, tmpbuf, buffer, head>>
    BY <1>1 DEF Snapshot
  <2>2. bio' = <<>> /\ Len(bio') = 0
    BY <2>1 DEF BioInv
  <2>3. CASE head = tail
    <3>1. ~Flushing'
      BY <2>1, <2>3 DEF Flushing, FlushReturned
    <3> QED
      BY <2>2, <3>1 DEF BioInv, RestInv, SentInv
  <2>4. CASE head # tail
    <3>1. head \in Nat /\ tail \in Nat /\ tail < head /\ PAGE \in Nat \ {0}
      BY <2>4, PageSizes DEF TypeOK, IndInv, BoundedBacklog
    <3>2. /\ PagesAdded' = 0 /\ PagesDone' = 0 /\ remaining' = head - tail
          /\ consumed' % PAGE = 0
      BY <2>1, <2>2, <3>1, NoPages DEF PagesAdded, PagesDone, remaining
    <3>3. Len(usb') \in Nat
      BY <2>1, LenProperties DEF TypeOK
    <3>4. BioInv'
      <4>1. start' < end' /\ consumed' - PAGE < end' - start' /\ remaining' > 0
        BY <2>1, <3>1, <3>2
      <4>2. Len(bio') <= PagesAdded' /\ PagesDone' <= Len(usb') /\ 1..Len(bio') = {}
        BY <2>2, <3>2, <3>3
      <4>3. fpc' = "chunk"
        BY <2>1, <2>4
      <4> QED
        BY <3>2, <4>1, <4>2, <4>3 DEF BioInv
    <3>5. ~(remaining' < 0) /\ 0..(PagesDone' - 1) = {}
      BY <3>1, <3>2
    <3> QED
      BY <3>4, <3>5 DEF RestInv, SentInv
  <2> QED
    BY <2>3, <2>4
<1>2. CASE AddPage
  BY <1>2, AddPageFlush
<1>3. CASE TransferPage
  <2>1. fpc = "submit" /\ bio # <<>> /\ TransferAs(PageAt(Head(bio)))
    BY <1>3 DEF TransferPage, TransferAs
  <2> QED
    BY <2>1, ReadNow, TransferFlush DEF BufferInv
<1>4. CASE SubmitFails
  <2>1. bio' = <<>> /\ fpc' = "advance" /\ ret' = "err"
    BY <1>4 DEF SubmitFails
  <2>2. ~Flushing'
    BY <2>1 DEF Flushing, FlushReturned
  <2> QED
    BY <2>1, <2>2 DEF BioInv, RestInv, SentInv
<1>5. CASE SubmitDone
  <2>1. /\ fpc = "submit" /\ bio = <<>> /\ Flushing
        /\ \/ remaining > 0 /\ fpc' = "chunk"
           \/ ~(remaining > 0) /\ fpc' = "advance" /\ ret' = "ok"
        /\ UNCHANGED <<head, buffer, consumed, bio, tmpbuf, usb, start, end>>
    BY <1>5 DEF SubmitDone, Flushing
  <2>2. /\ \A j : /\ (Full(j)' <=> Full(j)) /\ Entry(j)' = Entry(j)
                  /\ DonePage(j)' = DonePage(j)
        /\ PagesAdded' = PagesAdded /\ PagesDone' = PagesDone
        /\ Flushing' /\ remaining' = remaining /\ remaining \in Int
    BY <2>1 DEF Full, Entry, PieceAt, DonePage, PagesDone, PagesAdded, Flushing,
                FlushReturned, remaining, TypeOK
  <2>3. BioInv'
    <3>1. /\ fpc' = "chunk" => remaining > 0
          /\ fpc' = "advance" => remaining <= 0
      BY <2>1, <2>2
    <3> QED
      BY <2>1, <2>2, <3>1 DEF BioInv
  <2>4. RestInv' /\ SentInv'
    BY <2>1, <2>2 DEF RestInv, SentInv
  <2> QED
    BY <2>3, <2>4
<1>6. CASE AdvanceTail
  <2>1. fpc = "advance" /\ fpc' = "loop" /\ UNCHANGED bio
    BY <1>6 DEF AdvanceTail, FlushOver, bioVars
  <2>2. bio' = <<>> /\ ~Flushing'
    BY <2>1 DEF BioInv, Flushing, FlushReturned
  <2> QED
    BY <2>1, <2>2 DEF BioInv, RestInv, SentInv
<1> QED
  BY <1>1, <1>2, <1>3, <1>4, <1>5, <1>6 DEF Flusher

(* No thread writes over what a flush has still to read. *)
LEMMA ProducerCopies ==
    ASSUME TypeOK, IndInv, BufferInv, NEW t \in Threads, Producer(t)
    PROVE  /\ UNCHANGED <<bioVars, flusherVars>>
           /\ fpc # "loop" => \A i \in Slots :
                  \/ buffer'[i] = buffer[i]
                  \/ buffer'[i] \in Int /\ buffer'[i] >= end /\ buffer[i] < head
<1>1. UNCHANGED <<bioVars, flusherVars>>
  BY DEF Producer, Produce, LogEnd, LockProducer, MakeSpace, CopyEvent, CopyTo, PublishHead,
         Publish, WaitFlushed
<1>2. CASE CopyEvent(t)
  <2>1. /\ pc[t] = "copy" /\ head' = head
        /\ buffer' = [i \in Slots |-> IF i - (head % CBUFFSIZE) \in 0..(len[t] - 1)
                                      THEN head + (i - (head % CBUFFSIZE)) ELSE buffer[i]]
    BY <1>2 DEF CopyEvent, CopyTo
  <2>2. \A i \in Slots : buffer[i] < head
    <3>1. \A u \in Threads : pc[u] # "publish"
      BY <2>1, Alone
    <3> QED
      BY <3>1 DEF BufferInv, PublishedInv
  <2>3. head \in Nat /\ head % CBUFFSIZE \in Int /\ end \in Nat /\ len[t] \in Nat
    BY PageSizes, HeadSlot, HostBufAssumption DEF TypeOK
  <2>4. fpc # "loop" => end <= head
    BY DEF TypeOK, IndInv, FlushInv
  <2>5. ASSUME fpc # "loop", NEW i \in Slots
        PROVE  \/ buffer'[i] = buffer[i]
               \/ buffer'[i] \in Int /\ buffer'[i] >= end /\ buffer[i] < head
    <3>1. CASE i - (head % CBUFFSIZE) \in 0..(len[t] - 1)
      <4> DEFINE d == i - (head % CBUFFSIZE)
      <4>1. d \in Nat
        BY <2>3, <3>1
      <4>2. buffer'[i] = head + d
        BY <2>1, <3>1
      <4> HIDE DEF d
      <4> QED
        BY <2>2, <2>3, <2>4, <2>5, <4>1, <4>2
    <3>2. CASE ~(i - (head % CBUFFSIZE) \in 0..(len[t] - 1))
      BY <2>1, <3>2
    <3> QED
      BY <3>1, <3>2
  <2> QED
    BY <1>1, <2>5
<1>3. CASE ~CopyEvent(t)
  <2>1. UNCHANGED buffer
    BY <1>3 DEF Producer, Produce, LogEnd, LockProducer, MakeSpace, PublishHead, Publish,
                WaitFlushed
  <2> QED
    BY <1>1, <2>1
<1> QED
  BY <1>2, <1>3

(* A producer writes over published bytes only, and nothing but what is     *)
(* behind the flush.                                                        *)
LEMMA ProducerFlush ==
    ASSUME TypeOK, IndInv, BufferInv, BioInv, RestInv, SentInv,
           NEW t \in Threads, Producer(t)
    PROVE  BioInv' /\ RestInv' /\ SentInv'
<1>1. head' \in Nat /\ head' >= head
  <2>1. CASE PublishHead(t)
    <3>1. head' = head + len[t] /\ head \in Nat /\ len[t] \in Nat
      BY <2>1, HostBufAssumption DEF PublishHead, Publish, TypeOK
    <3> QED
      BY <3>1
  <2>2. CASE ~PublishHead(t)
    <3>1. head' = head /\ head \in Nat
      BY <2>2 DEF Producer, Produce, LogEnd, LockProducer, MakeSpace, CopyEvent, CopyTo,
                  WaitFlushed, TypeOK
    <3> QED
      BY <3>1
  <2> QED
    BY <2>1, <2>2
<1> QED
  BY <1>1, ProducerCopies, QuietFlush

(* What the flush has added, copied and sent stays what BioInv, RestInv and *)
(* SentInv say it is. *)
LEMMA FlusherKeeps ==
    ASSUME TypeOK, IndInv, BufferInv, BioInv, RestInv, SentInv, [Next]_vars
    PROVE  BioInv' /\ RestInv' /\ SentInv'
<1>1. CASE UNCHANGED vars
  <2>1. head' \in Nat /\ head' >= head /\ UNCHANGED <<buffer, bioVars, flusherVars>>
    BY <1>1 DEF vars, TypeOK
  <2> QED
    BY <2>1, QuietFlush
<1> QED
  BY <1>1, ProducerFlush, FlusherFlush DEF Next


(* So do all that RingInv says and the types. *)
LEMMA RingStep ==
    ASSUME TypeOK, RingInv, [Next]_vars
    PROVE  TypeOK' /\ RingInv'
<1>1. IndInv /\ BufferInv /\ BioInv /\ RestInv /\ SentInv
  BY DEF RingInv
<1>2. CASE UNCHANGED vars
  <2>1. TypeOK' /\ IndInv'
    BY <1>1, <1>2, QuietIndInv DEF TypeOK, vars, producerVars, bioVars, flusherVars
  <2> QED
    BY <1>1, <2>1, BufferStep, FlusherKeeps DEF RingInv
<1>3. CASE Next
  <2>1. TypeOK' /\ IndInv'
    BY <1>1, <1>3, ProducerTypeOK, FlusherTypeOK, ProducerIndInv, FlusherIndInv DEF Next
  <2> QED
    BY <1>1, <2>1, BufferStep, FlusherKeeps DEF RingInv
<1> QED
  BY <1>2, <1>3

(* And all of it holds at first. *)
LEMMA InitRingInv == Init => RingInv
<1>1. Init => BioInv /\ RestInv /\ SentInv
  BY DEF Init, BioInv, RestInv, SentInv, Flushing, FlushReturned
<1> QED
  BY <1>1, InitIndInv, InitBufferInv DEF RingInv

(* Ring and flush are what RingInv says throughout. *)
THEOREM RingInvariance == Spec => []RingInv
  BY InitTypeOK, InitRingInv, RingStep, PTL DEF Spec

(* A page that shows its entry may be handed over though the ring has       *)
(* changed since it was read. *)
LEMMA TransferRing ==
    ASSUME TypeOK, RingInv, NEW page \in Page, TransferAs(page), Shows(page, Head(bio))
    PROVE  TypeOK' /\ RingInv'
<1>1. IndInv /\ BufferInv /\ BioInv /\ RestInv /\ SentInv
  BY DEF RingInv
<1>2. /\ fpc # "loop" /\ fpc' = fpc /\ end' = end /\ start' = start
      /\ UNCHANGED <<head, tail, buffer, producerVars>>
  BY DEF TransferAs, flusherVars
<1>3. IndInv'
  BY <1>1, <1>2, QuietIndInv
<1>4. BufferInv'
  BY <1>1, <1>2, QuietBuffer DEF producerVars
<1> QED
  BY <1>1, <1>3, <1>4, TransferFlush, TransferTypeOK DEF RingInv
-----------------------------------------------------------------------------
(* What leaves the host. *)

(* An event that is being copied has written over the tail's byte before    *)
(* any other that waits for its flush.                                      *)
LEMMA TailFirst ==
    ASSUME TypeOK, IndInv, BufferInv, UnflushedIntact,
           NEW i \in 0..(CBUFFSIZE - 1), buffer[i] >= head
    PROVE  buffer[i] - CBUFFSIZE < tail
<1> SUFFICES ASSUME buffer[i] - CBUFFSIZE >= tail PROVE FALSE
  <2>1. i \in Slots
    BY HostBufAssumption DEF Slots
  <2>2. buffer[i] \in Int /\ tail \in Int /\ CBUFFSIZE \in Int
    BY <2>1, PageSizes DEF TypeOK, Cells
  <2> QED
    BY <2>2
<1> DEFINE at == head % CBUFFSIZE
           v == buffer[i]
           j == at + (tail + CBUFFSIZE - head)
<1>1. /\ head \in Nat /\ tail \in Nat /\ CBUFFSIZE \in Nat \ {0} /\ at \in 0..(CBUFFSIZE - 1)
      /\ tail <= head /\ i \in Slots /\ v \in Int /\ i \in Int
  <2>1. i \in Slots /\ i \in Int
    BY HostBufAssumption DEF Slots
  <2> QED
    BY <2>1, HeadSlot DEF TypeOK, Cells, IndInv, BoundedBacklog
<1>2. PICK t \in Threads : pc[t] = "publish"
  <2>1. ~(buffer[i] < head)
    BY <1>1
  <2> QED
    BY <1>1, <2>1 DEF BufferInv, PublishedInv
<1>3. head - tail < CBUFFSIZE /\ len[t] \in Nat
  BY <1>2, Alone, HostBufAssumption
<1>4. \A s \in Slots : IF s - at \in 0..(len[t] - 1) THEN buffer[s] = head + (s - at)
                                                     ELSE buffer[s] < head
  BY <1>2 DEF BufferInv, CopiedInv
<1> HIDE DEF at
<1>5. v = head + (i - at) /\ i - at \in 0..(len[t] - 1)
  BY <1>1, <1>4
<1>6. tail < head /\ j \in Slots /\ j \in 0..(CBUFFSIZE - 1) /\ j - at \in 0..(len[t] - 1)
  <2>1. v - CBUFFSIZE >= tail
    OBVIOUS
  <2> HIDE DEF v
  <2>2. tail < head /\ j \in Int /\ j <= i /\ j > at
    BY <1>1, <1>3, <1>5, <2>1
  <2>3. j \in 0..(CBUFFSIZE - 1) /\ j - at \in 0..(len[t] - 1)
    BY <1>1, <1>3, <1>5, <2>2
  <2>4. j \in Slots
    BY <1>1, <2>3, PageSizes DEF Slots
  <2> QED
    BY <2>2, <2>3, <2>4
<1>7. buffer[j] = tail + CBUFFSIZE
  BY <1>1, <1>4, <1>6
<1>8. tail % CBUFFSIZE = j
  <2>1. (head + (j - at)) % CBUFFSIZE = j % CBUFFSIZE /\ j % CBUFFSIZE = j
    BY <1>1, <1>6, CopySlot, SlotMod DEF at
  <2>2. head + (j - at) = tail + CBUFFSIZE
    BY <1>1
  <2>3. (tail + CBUFFSIZE) % CBUFFSIZE = tail % CBUFFSIZE
    <3> DEFINE q == tail \div CBUFFSIZE
               r == tail % CBUFFSIZE
               x == tail + CBUFFSIZE
    <3>1. q \in Int /\ r \in 0..(CBUFFSIZE - 1) /\ tail = CBUFFSIZE * q + r
      BY <1>1, LapAndSlot
    <3> HIDE DEF q, r, x
    <3>2. x \in Int /\ q + 1 \in Int /\ x = CBUFFSIZE * (q + 1) + r
      BY <1>1, <3>1 DEF x
    <3>3. x % CBUFFSIZE = r
      BY <3>1, <3>2, SlotUnique
    <3> QED
      BY <3>3 DEF x, r
  <2> QED
    BY <2>1, <2>2, <2>3
<1>9. PICK s \in {tail % CBUFFSIZE, CBUFFSIZE + (tail % CBUFFSIZE)} \cap Slots : buffer[s] = tail
  <2>1. tail \in tail..(head - 1)
    BY <1>1, <1>6
  <2> QED
    BY <2>1 DEF UnflushedIntact, InRing
<1>10. s = CBUFFSIZE + j /\ s >= CBUFFSIZE
  BY <1>1, <1>6, <1>7, <1>8, <1>9
<1>11. buffer[s] # Blank
  BY <1>1, <1>9 DEF Blank
<1>12. tail \notin (buffer[s] - (s - CBUFFSIZE))..buffer[s]
  BY <1>9, <1>10, <1>11 DEF BufferInv, SlackInv
<1>13. s - CBUFFSIZE = j
  BY <1>1, <1>6, <1>10
<1> HIDE DEF j
<1> QED
  BY <1>1, <1>6, <1>9, <1>12, <1>13

(* So while every byte that waits for its flush is intact, its slot in the  *)
(* ring holds a published byte.                                             *)
LEMMA UnflushedPublished ==
    ASSUME TypeOK, IndInv, BufferInv, UnflushedIntact, NEW p \in tail..(head - 1)
    PROVE  buffer[p % CBUFFSIZE] < head
<1> DEFINE i == p % CBUFFSIZE
           v == buffer[i]
<1>1. tail \in Nat /\ head \in Nat /\ p \in Nat /\ p < head /\ p >= tail
  BY DEF TypeOK
<1>2. CBUFFSIZE \in Nat \ {0} /\ i \in 0..(CBUFFSIZE - 1)
  BY <1>1, LapAndSlot, PageSizes
<1>3. i \in Slots /\ i \in Int
  BY <1>2, HostBufAssumption DEF Slots
<1>4. v \in Int
  BY <1>3 DEF TypeOK, Cells
<1> SUFFICES ASSUME v >= head PROVE FALSE
  BY <1>1, <1>4
<1>5. v # Blank /\ i % CBUFFSIZE = i
  BY <1>1, <1>2, <1>3, <1>4, SlotMod DEF Blank
<1>6. v % CBUFFSIZE = p % CBUFFSIZE
  BY <1>3, <1>5 DEF BufferInv, SlotInv
<1>7. p < v
  BY <1>1, <1>4
<1>8. v >= p + CBUFFSIZE
  BY <1>1, <1>4, <1>6, <1>7, LapApart
<1>9. v - CBUFFSIZE < tail
  BY <1>2, TailFirst
<1> HIDE DEF v
<1> QED
  BY <1>1, <1>2, <1>4, <1>8, <1>9

(* The first slot of a piece: its position's, and at the boundary of a page *)
(* whenever the range is.                                                   *)
LEMMA PieceSlot ==
    ASSUME TypeOK, NEW j \in Nat
    PROVE  /\ j * PAGE \in Nat /\ start + j * PAGE \in Nat
           /\ PieceAt(j) \in 0..(CBUFFSIZE - 1)
           /\ PieceAt(j) % PAGE = start % PAGE
           /\ (PieceAt(j) \div PAGE) * PAGE = PieceAt(j) - (start % PAGE)
<1> DEFINE x == start + j * PAGE
           a == PieceAt(j)
           o == start % PAGE
           q == start \div PAGE
           c == a \div PAGE
<1>1. /\ PAGE \in Nat \ {0} /\ j * PAGE \in Nat /\ j \in Int
  BY PageSizes
<1>2. start \in Nat /\ x \in Nat /\ x = start + j * PAGE
  <2>1. start \in Nat
    BY DEF TypeOK
  <2> QED
    BY <1>1, <2>1
<1>3. a = x % CBUFFSIZE /\ a \in 0..(CBUFFSIZE - 1)
  BY <1>2, LapAndSlot DEF PieceAt
<1>4. q \in Int /\ o \in 0..(PAGE - 1) /\ start = PAGE * q + o
  BY <1>1, <1>2, DivMod
<1>5. a % PAGE = x % PAGE
  BY <1>2, <1>3, PageOffset
<1> HIDE DEF x, a, o, q
<1>6. x = PAGE * (q + j) + o /\ q + j \in Int
  BY <1>1, <1>2, <1>4
<1>7. x % PAGE = o
  BY <1>1, <1>4, <1>6, DivModUnique
<1>8. a \in Int /\ c \in Int /\ a = PAGE * c + (a % PAGE)
  <2>1. a \in Int
    BY <1>3, PageSizes
  <2> QED
    BY <1>1, <2>1, DivMod
<1> HIDE DEF c
<1>9. c * PAGE = a - o
  BY <1>1, <1>4, <1>5, <1>7, <1>8
<1> QED
  BY <1>1, <1>2, <1>3, <1>5, <1>7, <1>9 DEF x, a, o, c

(* The pages that a flush sends are those of its range: all but the last    *)
(* are full, and the last is if the range ends with it.                     *)
LEMMA LastPage ==
    ASSUME TypeOK, BioInv, Flushing, NEW j \in 0..(PagesAdded - 1)
    PROVE  /\ PagesAdded \in Nat /\ consumed = PagesAdded * PAGE
           /\ ~Full(j) => /\ j * PAGE = consumed - PAGE /\ remaining < 0
                          /\ (end - start) % PAGE = remaining + PAGE
<1> DEFINE A == PagesAdded
           N == end - start
           y == (A - 1) * PAGE
<1>1. /\ A \in Nat /\ consumed = A * PAGE /\ consumed \in Nat
      /\ PAGE \in Nat \ {0}
  BY WholePages, PageSizes DEF TypeOK, BioInv, PagesAdded
<1>2. N \in Nat /\ consumed - PAGE < N /\ remaining = N - consumed
  BY DEF TypeOK, BioInv, remaining
<1>3. j \in Int /\ j <= A - 1 /\ A - 1 \in Int
  BY <1>1
<1>4. ~Full(j) <=> ~(N - j * PAGE >= PAGE)
  BY DEF Full
<1> HIDE DEF A, N
<1>5. y = consumed - PAGE /\ y \in Int /\ j * PAGE \in Int
  BY <1>1, <1>3
<1>6. CASE j < A - 1
  <2>1. j * PAGE + PAGE <= y
    BY <1>3, <1>6, PagesApart
  <2> HIDE DEF y
  <2> QED
    BY <1>1, <1>2, <1>4, <1>5, <2>1 DEF A
<1>7. CASE j = A - 1
  <2> SUFFICES ASSUME ~Full(j)
               PROVE  j * PAGE = consumed - PAGE /\ remaining < 0 /\ N % PAGE = remaining + PAGE
    BY <1>1 DEF A, N
  <2>1. j * PAGE = y
    BY <1>7
  <2>2. N - y < PAGE
    BY <1>1, <1>2, <1>4, <1>5, <2>1
  <2>3. /\ N = PAGE * (A - 1) + (remaining + PAGE)
        /\ remaining + PAGE \in 0..(PAGE - 1) /\ remaining < 0
    <3> DEFINE z == PAGE * (A - 1)
    <3>1. z = y
      BY <1>1, <1>3
    <3> HIDE DEF y, z
    <3>2. N = z + (remaining + PAGE) /\ remaining + PAGE \in 0..(PAGE - 1) /\ remaining < 0
      BY <1>1, <1>2, <1>5, <2>2, <3>1
    <3> QED
      BY <3>2 DEF z
  <2>4. N % PAGE = remaining + PAGE
    BY <1>2, <1>3, <2>3, PageUnique
  <2> QED
    BY <1>5, <2>1, <2>3, <2>4
<1> QED
  BY <1>3, <1>6, <1>7

(* A page of the bio that is handed over has only published bytes for the   *)
(* range.                                                                   *)
LEMMA PagePublished ==
    ASSUME TypeOK, RingInv, TransferPage, UnflushedIntact, Aligned,
           NEW k \in 1..PAGE, Head(bio) # Tmp \/ k <= (end - start) % PAGE
    PROVE  usb'[Len(usb')][k] < head
<1> DEFINE D == PagesDone
           b == k - 1
<1>1. IndInv /\ BufferInv /\ BioInv /\ RestInv /\ SentInv
  BY DEF RingInv
<1>2. /\ fpc = "submit" /\ Flushing /\ bio # <<>> /\ start < end
      /\ Len(bio) <= PagesAdded /\ consumed % PAGE = 0
      /\ \A m \in 1..Len(bio) : bio[m] = Entry(D + m - 1)
  BY <1>1 DEF TransferPage, TransferAs, Flushing, BioInv
<1>3. /\ start \in Nat /\ end \in Nat /\ consumed \in Nat /\ head \in Nat /\ PAGE \in Nat \ {0}
      /\ start = tail /\ end <= head /\ CBUFFSIZE \in Nat \ {0}
  BY <1>1, <1>2, PageSizes DEF TypeOK, IndInv, FlushInv
<1>4. PagesAdded \in Nat
  BY <1>2, <1>3, WholePages DEF PagesAdded
<1>5. bio \in Seq(Entries) /\ Len(bio) \in Nat \ {0} /\ usb \in Seq(Page) /\ Len(usb) \in Nat
  BY <1>2, LenProperties, EmptySeq DEF TypeOK
<1>6. D \in 0..(PagesAdded - 1) /\ D \in Nat
  BY <1>2, <1>4, <1>5 DEF PagesDone
<1>7. Head(bio) = Entry(D) /\ Head(bio) \in Entries
  <2>1. 1 \in 1..Len(bio) /\ D + 1 - 1 = D
    BY <1>5, <1>6
  <2> HIDE DEF D
  <2> QED
    BY <1>2, <1>5, <2>1, HeadTailProperties
<1>8. usb'[Len(usb')] = PageAt(Entry(D))
  <2>1. PageAt(Head(bio)) \in Page
    BY <1>7, PageAtType
  <2>2. usb' = Append(usb, PageAt(Head(bio)))
    BY DEF TransferPage, TransferAs
  <2>3. Len(usb') = Len(usb) + 1 /\ usb'[Len(usb) + 1] = PageAt(Head(bio))
    BY <1>5, <2>1, <2>2, AppendProperties
  <2> QED
    BY <1>7, <2>3
<1>9. b \in 0..(PAGE - 1) /\ k = b + 1 /\ b \in Int
  BY <1>3
<1> HIDE DEF D, b
<1>10. CASE Full(D)
  <2> DEFINE x == start + D * PAGE
             p == x + b
             s == PieceAt(D) + b
  <2>1. /\ D * PAGE \in Nat /\ x \in Nat /\ PieceAt(D) \in 0..(CBUFFSIZE - 1)
        /\ (PieceAt(D) \div PAGE) * PAGE = PieceAt(D) - (start % PAGE)
    BY <1>6, PieceSlot
  <2>2. end - start >= PAGE + D * PAGE
    BY <1>3, <1>10, <2>1 DEF Full
  <2>3. start % PAGE = 0
    BY <1>3, <2>1, <2>2 DEF Aligned
  <2>4. Entry(D) * PAGE = PieceAt(D)
    BY <1>10, <2>1, <2>3 DEF Entry
  <2>5. Entry(D) # Tmp /\ Entry(D) * PAGE + b \in Slots /\ Entry(D) * PAGE + b < CBUFFSIZE
    BY <1>6, <1>9, <1>10, EntrySlot
  <2>6. usb'[Len(usb')][k] = buffer[s]
    <3>1. usb'[Len(usb')][k] = buffer[Entry(D) * PAGE + k - 1]
      BY <1>8, <2>5 DEF PageAt
    <3>2. Entry(D) * PAGE + k - 1 = s
      BY <1>9, <2>1, <2>4
    <3> QED
      BY <3>1, <3>2
  <2>7. p % CBUFFSIZE = s
    <3>1. s \in 0..(2 * CBUFFSIZE - 1) /\ s < CBUFFSIZE /\ s = (x % CBUFFSIZE) + b
      BY <1>3, <1>9, <2>1, <2>4, <2>5 DEF PieceAt
    <3> HIDE DEF x, s
    <3> QED
      BY <1>9, <2>1, <3>1, SlotMoves
  <2>8. p \in tail..(head - 1)
    BY <1>3, <1>9, <2>1, <2>2
  <2> HIDE DEF p, s
  <2> QED
    BY <1>1, <2>6, <2>7, <2>8, UnflushedPublished
<1>11. CASE ~Full(D)
  <2> DEFINE x == start + consumed - PAGE
             at == x % CBUFFSIZE
             p == x + b
             i == at + b
  <2>1. /\ remaining < 0 /\ (end - start) % PAGE = remaining + PAGE
        /\ D * PAGE = consumed - PAGE
    BY <1>1, <1>2, <1>6, <1>11, LastPage
  <2>2. remaining = end - start - consumed /\ remaining \in Int
    BY <1>3 DEF remaining
  <2>3. usb'[Len(usb')][k] = tmpbuf[b + 1] /\ Head(bio) = Tmp
    BY <1>7, <1>8, <1>9, <1>11 DEF PageAt, Entry
  <2>4. b \in 0..(remaining + PAGE - 1)
    BY <1>3, <1>9, <2>1, <2>2, <2>3
  <2>5. tmpbuf[b + 1] < head \/ tmpbuf[b + 1] = buffer[i]
    BY <1>1, <1>2, <2>1, <2>4 DEF RestInv
  <2>6. D * PAGE \in Nat
    BY <1>6, PieceSlot
  <2>7. /\ x \in Nat /\ x >= start /\ p \in Nat /\ p >= x /\ p < end
    BY <1>3, <1>9, <2>1, <2>2, <2>4, <2>6
  <2>8. at \in 0..(CBUFFSIZE - 1) /\ i \in Slots
    BY <1>9, <2>7, LapAndSlot, RestSlot
  <2> HIDE DEF at, x
  <2>9. CASE i < CBUFFSIZE
    <3>1. i \in 0..(2 * CBUFFSIZE - 1) /\ x \in Int /\ b \in Int /\ i = (x % CBUFFSIZE) + b
      BY <1>3, <1>9, <2>7, <2>8, <2>9 DEF at
    <3>2. p % CBUFFSIZE = i
      BY <2>9, <3>1, SlotMoves
    <3>3. p \in tail..(head - 1)
      BY <1>3, <2>7
    <3> HIDE DEF p, i
    <3>4. buffer[i] < head
      BY <1>1, <3>2, <3>3, UnflushedPublished
    <3> QED
      BY <2>3, <2>5, <3>4
  <2>10. CASE ~(i < CBUFFSIZE)
    <3> DEFINE e == CBUFFSIZE - 1
               d == e - at
               y == x + d
    <3>1. /\ d \in Int /\ e = (x % CBUFFSIZE) + d /\ e \in 0..(2 * CBUFFSIZE - 1)
          /\ d >= 0 /\ d <= b
      BY <1>3, <1>9, <2>8, <2>10 DEF at
    <3>2. e < CBUFFSIZE /\ e \in Nat
      BY <1>3
    <3> HIDE DEF e, d
    <3>3. y \in tail..(head - 1)
      BY <1>3, <1>9, <2>7, <3>1
    <3>4. y % CBUFFSIZE = e
      BY <2>7, <3>1, <3>2, SlotMoves
    <3> HIDE DEF y
    <3>5. buffer[e] < head
      BY <1>1, <3>4, <3>3, UnflushedPublished
    <3>6. ~(buffer[i] >= head)
      <4> SUFFICES ASSUME buffer[i] >= head PROVE FALSE
        OBVIOUS
      <4>1. PICK t \in Threads : pc[t] = "publish"
        <5>1. buffer[i] \in Int
          BY <2>8 DEF TypeOK, Cells
        <5>2. ~(buffer[i] < head)
          BY <1>3, <5>1
        <5> QED
          BY <1>1, <2>8, <5>2 DEF BufferInv, PublishedInv
      <4>2. \A s \in Slots :
               IF s - (head % CBUFFSIZE) \in 0..(len[t] - 1)
               THEN buffer[s] = head + (s - (head % CBUFFSIZE)) ELSE buffer[s] < head
        BY <1>1, <4>1 DEF BufferInv, CopiedInv
      <4>3. len[t] \in Nat /\ e \in Slots /\ buffer[i] \in Int /\ buffer[e] \in Int
        <5>1. e \in Slots
          BY <1>3, <3>2 DEF Slots
        <5> QED
          BY <2>8, <5>1, HostBufAssumption DEF TypeOK, Cells
      <4> DEFINE h == head % CBUFFSIZE
      <4>4. h \in 0..e
        BY HeadSlot DEF e
      <4>5. i - h \in 0..(len[t] - 1)
        <5> HIDE DEF i
        <5>1. ~(i - h \in 0..(len[t] - 1)) => buffer[i] < head
          BY <2>8, <4>2
        <5> HIDE DEF h
        <5> QED
          BY <1>3, <4>3, <5>1
      <4> HIDE DEF h
      <4>6. e - h \in 0..(len[t] - 1)
        <5> HIDE DEF i
        <5>1. i \in Int /\ i > e
          BY <1>3, <2>8, <2>10 DEF Slots, e
        <5> QED
          BY <3>2, <4>3, <4>4, <4>5, <5>1
      <4>7. buffer[e] = head + (e - h)
        BY <4>2, <4>3, <4>6 DEF h
      <4>8. e - h \in Nat
        BY <3>2, <4>4
      <4> DEFINE v == buffer[e]
                 f == e - h
      <4>9. v < head /\ v = head + f /\ v \in Int /\ f \in Nat
        BY <3>5, <4>3, <4>7, <4>8
      <4> HIDE DEF v, f
      <4> QED
        BY <1>3, <4>9
    <3>7. buffer[i] < head
      <4>1. buffer[i] \in Int
        BY <2>8 DEF TypeOK, Cells
      <4> QED
        BY <1>3, <3>6, <4>1
    <3> QED
      BY <2>3, <2>5, <3>7
  <2> QED
    BY <2>9, <2>10
<1> QED
  BY <1>10, <1>11

(* No event leaves the host before its head is moved (bio_write and         *)
(* audit_log_end_hardlog).                                                  *)
THEOREM PublishedBeforeSent == Spec => OnlyPublishedSent
<1> DEFINE Sends == TransferPage /\ UnflushedIntact /\ Aligned =>
                       \A k \in 1..PAGE : Head(bio) # Tmp \/ k <= (end - start) % PAGE
                          => usb'[Len(usb')][k] < head
<1>1. TypeOK /\ RingInv /\ [Next]_vars => [Sends]_vars
  BY PagePublished
<1> QED
  BY <1>1, TypeCorrect, RingInvariance, PTL DEF Spec, OnlyPublishedSent
-----------------------------------------------------------------------------
(* What a flush that succeeds has sent. *)

(* Within one lap and while they are intact, the bytes of the range lie in  *)
(* the ring one after the other.                                            *)
LEMMA RangeInPlace ==
    ASSUME TypeOK, RingInv, Flushing, SameLap, UnflushedIntact, NEW p \in start..(end - 1)
    PROVE  /\ p % CBUFFSIZE = (start % CBUFFSIZE) + (p - start)
           /\ buffer[p % CBUFFSIZE] = p
<1> DEFINE q == start \div CBUFFSIZE
           r == start % CBUFFSIZE
           e == (end - 1) % CBUFFSIZE
           i == p % CBUFFSIZE
<1>1. /\ start \in Nat /\ end \in Nat /\ head \in Nat /\ p \in Int /\ end - 1 \in Int
      /\ CBUFFSIZE \in Nat \ {0} /\ start <= p /\ p <= end - 1
  BY PageSizes DEF TypeOK
<1>2. fpc # "loop" /\ start = tail /\ end <= head
  BY DEF TypeOK, Flushing, FlushReturned, RingInv, IndInv, FlushInv
<1>3. q \in Int /\ r \in 0..(CBUFFSIZE - 1) /\ start = CBUFFSIZE * q + r
  BY <1>1, LapAndSlot
<1>4. e \in 0..(CBUFFSIZE - 1) /\ end - 1 = CBUFFSIZE * q + e
  BY <1>1, LapAndSlot DEF SameLap
<1> HIDE DEF q, r, e
<1>5. /\ p = CBUFFSIZE * q + (r + (p - start)) /\ r + (p - start) \in 0..(CBUFFSIZE - 1)
  <2> DEFINE z == CBUFFSIZE * q
  <2>1. z \in Int /\ start = z + r /\ end - 1 = z + e
    BY <1>1, <1>3, <1>4
  <2> HIDE DEF z
  <2>2. p = z + (r + (p - start)) /\ r + (p - start) \in 0..(CBUFFSIZE - 1)
    BY <1>1, <1>3, <1>4, <2>1
  <2> QED
    BY <2>2 DEF z
<1>6. i = r + (p - start)
  BY <1>1, <1>3, <1>5, SlotUnique
<1>7. PICK s \in {i, CBUFFSIZE + i} \cap Slots : buffer[s] = p
  <2>1. p \in tail..(head - 1)
    BY <1>1, <1>2
  <2> QED
    BY <2>1 DEF UnflushedIntact, InRing
<1> HIDE DEF i
<1>8. s # CBUFFSIZE + i
  <2> SUFFICES ASSUME s = CBUFFSIZE + i PROVE FALSE
    OBVIOUS
  <2>1. i \in Nat /\ s >= CBUFFSIZE /\ s - CBUFFSIZE = i /\ buffer[s] # Blank
    BY <1>1, <1>3, <1>5, <1>6, <1>7 DEF Blank
  <2>2. tail \notin (buffer[s] - (s - CBUFFSIZE))..buffer[s]
    BY <1>7, <2>1 DEF RingInv, BufferInv, SlackInv
  <2>3. tail \in (p - i)..p
    BY <1>1, <1>2, <1>3, <1>6
  <2> QED
    BY <1>7, <2>1, <2>2, <2>3
<1> QED
  BY <1>6, <1>7, <1>8 DEF i, r

(* The pieces that fill a page are those before the last full page's end.   *)
LEMMA FullIff ==
    ASSUME TypeOK, start < end, NEW k \in 0..(end - start - 1)
    PROVE  /\ k \div PAGE \in Nat /\ k % PAGE \in 0..(PAGE - 1)
           /\ k = (k \div PAGE) * PAGE + (k % PAGE)
           /\ ((end - start) \div PAGE) * PAGE \in 0..(end - start)
           /\ Full(k \div PAGE) <=> k < ((end - start) \div PAGE) * PAGE
<1> DEFINE N == end - start
           j == k \div PAGE
           b == k % PAGE
           F == N \div PAGE
           r == N % PAGE
<1>1. PAGE \in Nat \ {0} /\ N \in Nat /\ k \in Nat
  BY PageSizes DEF TypeOK
<1>2. Full(j) <=> N - j * PAGE >= PAGE
  BY DEF Full
<1> HIDE DEF N
<1>3. j \in Nat /\ b \in 0..(PAGE - 1) /\ k = PAGE * j + b
  BY <1>1, PageAndByte
<1>4. F \in Nat /\ r \in 0..(PAGE - 1) /\ N = PAGE * F + r
  BY <1>1, PageAndByte
<1> HIDE DEF j, b, F, r
<1> DEFINE jP == j * PAGE
           FP == F * PAGE
<1>5. jP \in Nat /\ k = jP + b /\ FP \in Nat /\ N = FP + r
  BY <1>1, <1>3, <1>4
<1>6. j < F => jP + PAGE <= FP
  BY <1>3, <1>4, PagesApart
<1>7. F < j => FP + PAGE <= jP
  BY <1>3, <1>4, PagesApart
<1>8. F = j => FP = jP
  OBVIOUS
<1> HIDE DEF jP, FP
<1>9. N - jP >= PAGE <=> k < FP
  BY <1>1, <1>3, <1>4, <1>5, <1>6, <1>7, <1>8
<1>10. FP \in 0..N
  BY <1>1, <1>4, <1>5
<1> QED
  BY <1>2, <1>3, <1>5, <1>9, <1>10 DEF N, j, b, F, jP, FP

(* After a flush that succeeds, its pages are the device's last.            *)
LEMMA SentIs ==
    ASSUME TypeOK, BioInv, FlushReturned, NEW k \in 0..(end - start - 1)
    PROVE  /\ PagesDone = PagesAdded /\ k \div PAGE \in 0..(PagesAdded - 1)
           /\ Sent(k) = DonePage(k \div PAGE)[(k % PAGE) + 1]
<1> DEFINE A == PagesAdded
           N == end - start
           r == N + PAGE - 1 - consumed
           y == N + PAGE - 1
           j == k \div PAGE
<1>1. /\ bio = <<>> /\ start < end /\ consumed - PAGE < N /\ consumed % PAGE = 0
      /\ N - consumed <= 0
  BY DEF FlushReturned, BioInv, Flushing, remaining
<1>2. /\ PAGE \in Nat \ {0} /\ N \in Nat /\ k \in Nat /\ k < N /\ consumed \in Nat
  BY <1>1, PageSizes DEF TypeOK
<1>3. A \in Nat /\ consumed = A * PAGE
  BY <1>1, <1>2, WholePages DEF PagesAdded
<1>4. PagesDone = A
  <2>1. Len(bio) = 0
    BY <1>1
  <2> QED
    BY <1>3, <2>1 DEF PagesDone
<1>5. PagesSent = A
  <2>1. r \in 0..(PAGE - 1) /\ y \in Int /\ y = consumed + r
    BY <1>1, <1>2
  <2>2. PagesSent = y \div PAGE
    BY DEF PagesSent
  <2> HIDE DEF r, y, A, N
  <2>3. y = PAGE * A + r
    BY <1>2, <1>3, <2>1
  <2> QED
    BY <1>3, <2>1, <2>2, <2>3, PageUnique
<1>6. j \in 0..(A - 1)
  <2>1. j \in Nat /\ j * PAGE <= k
    <3>1. j \in Nat /\ k % PAGE \in Nat /\ k = PAGE * j + (k % PAGE)
      BY <1>2, PageAndByte
    <3> DEFINE b == k % PAGE
    <3> HIDE DEF b, j
    <3> QED
      BY <1>2, <3>1 DEF b
  <2> HIDE DEF j, A, N
  <2>2. ~(A <= j)
    <3>1. A < j => A * PAGE + PAGE <= j * PAGE
      BY <1>3, <2>1, PagesApart
    <3>2. j * PAGE < A * PAGE
      BY <1>1, <1>2, <1>3, <2>1
    <3> QED
      BY <1>2, <1>3, <2>1, <3>1, <3>2
  <2> QED
    BY <1>3, <2>1, <2>2
<1> QED
  BY <1>4, <1>5, <1>6 DEF Sent, DonePage

(* What the device has at each place of the flush. *)
LEMMA SentByte ==
    ASSUME TypeOK, RingInv, FlushReturned, SameLap, UnflushedIntact,
           NEW k \in 0..(end - start - 1)
    PROVE  IF Full(k \div PAGE)
           THEN IF k >= start % PAGE THEN Sent(k) = start + (k - (start % PAGE))
                                     ELSE Sent(k) \notin start..(end - 1)
           ELSE Sent(k) = start + k
<1> DEFINE j == k \div PAGE
           b == k % PAGE
           o == start % PAGE
           r == start % CBUFFSIZE
<1>1. IndInv /\ BufferInv /\ BioInv /\ RestInv /\ SentInv
  BY DEF RingInv
<1>2. Flushing /\ start < end
  BY <1>1 DEF Flushing, BioInv
<1>3. /\ start \in Nat /\ end \in Nat /\ PAGE \in Nat \ {0} /\ CBUFFSIZE \in Nat \ {0}
      /\ k \in Nat /\ k < end - start /\ consumed \in Nat
  BY PageSizes DEF TypeOK
<1>4. /\ j \in Nat /\ b \in 0..(PAGE - 1) /\ k = j * PAGE + b /\ j * PAGE \in Nat
  <2>1. j \in Nat /\ b \in 0..(PAGE - 1) /\ k = j * PAGE + b
    BY <1>2, FullIff
  <2> QED
    BY <1>3, <2>1
<1>5. /\ PagesDone = PagesAdded /\ j \in 0..(PagesAdded - 1)
      /\ Sent(k) = DonePage(j)[b + 1]
  BY <1>1, SentIs
<1>6. r \in 0..(CBUFFSIZE - 1) /\ o \in 0..(PAGE - 1)
  BY <1>3, LapAndSlot, PageAndByte
<1>7. PieceAt(j) = r + j * PAGE
  <2> DEFINE x == start + j * PAGE
  <2>1. x \in start..(end - 1) /\ x - start = j * PAGE
    BY <1>3, <1>4
  <2>2. x % CBUFFSIZE = r + (x - start)
    BY <1>2, <2>1, RangeInPlace
  <2> QED
    BY <2>1, <2>2 DEF PieceAt
<1>8. (PieceAt(j) \div PAGE) * PAGE = PieceAt(j) - o
  BY <1>4, PieceSlot
<1> HIDE DEF j, b, o, r
<1>9. CASE Full(j)
  <2> DEFINE i == Entry(j) * PAGE + b
             p == start + (k - o)
  <2>1. i = r - o + k
    BY <1>3, <1>4, <1>6, <1>7, <1>8, <1>9 DEF Entry
  <2>2. /\ buffer[i] < end => Sent(k) = buffer[i]
        /\ Sent(k) # Blank => Sent(k) % CBUFFSIZE = i
    BY <1>1, <1>2, <1>4, <1>5, <1>9 DEF SentInv
  <2> HIDE DEF i
  <2>3. CASE k >= o
    <3>1. p \in start..(end - 1) /\ p - start = k - o
      BY <1>3, <1>6, <2>3
    <3> HIDE DEF p
    <3>2. p % CBUFFSIZE = r + (p - start) /\ buffer[p % CBUFFSIZE] = p
      BY <1>2, <3>1, RangeInPlace DEF r
    <3>3. p % CBUFFSIZE = i
      BY <1>3, <1>6, <2>1, <3>1, <3>2
    <3>4. Sent(k) = p
      BY <1>3, <2>2, <3>1, <3>2, <3>3
    <3> QED
      BY <1>9, <2>3, <3>4 DEF p, j, o
  <2>4. CASE ~(k >= o)
    <3> SUFFICES ASSUME Sent(k) \in start..(end - 1) PROVE FALSE
      BY <1>9, <2>4 DEF j, o
    <3> DEFINE v == Sent(k)
    <3>1. v # Blank /\ v - start \in Nat
      BY <1>3 DEF Blank
    <3>2. v % CBUFFSIZE = r + (v - start)
      BY <1>2, RangeInPlace DEF r
    <3>3. v % CBUFFSIZE = i
      BY <2>2, <3>1
    <3> HIDE DEF v
    <3> QED
      BY <1>3, <1>6, <2>1, <2>4, <3>1, <3>2, <3>3
  <2> QED
    BY <2>3, <2>4
<1>10. CASE ~Full(j)
  <2> DEFINE p == start + k
             x == start + consumed - PAGE
  <2>1. /\ j * PAGE = consumed - PAGE /\ remaining < 0
    BY <1>1, <1>2, <1>5, <1>10, LastPage
  <2>2. remaining = end - start - consumed
    BY DEF remaining
  <2>3. b \in 0..(remaining + PAGE - 1) /\ x = start + j * PAGE /\ p = x + b
    BY <1>3, <1>4, <2>1, <2>2
  <2>4. Sent(k) = tmpbuf[b + 1]
    BY <1>1, <1>2, <1>5, <1>10 DEF SentInv
  <2>5. buffer[(x % CBUFFSIZE) + b] < end => Sent(k) = buffer[(x % CBUFFSIZE) + b]
    BY <1>1, <1>2, <2>1, <2>3, <2>4 DEF RestInv
  <2>6. p \in start..(end - 1) /\ p - start = k
    BY <1>3
  <2> HIDE DEF p
  <2>7. p % CBUFFSIZE = r + (p - start) /\ buffer[p % CBUFFSIZE] = p
    BY <1>2, <2>6, RangeInPlace DEF r
  <2>8. x % CBUFFSIZE = r + j * PAGE
    BY <1>7, <2>3 DEF PieceAt
  <2>9. (x % CBUFFSIZE) + b = p % CBUFFSIZE
    BY <1>3, <1>4, <1>6, <2>6, <2>7, <2>8
  <2>10. Sent(k) = p
    BY <1>3, <2>5, <2>6, <2>7, <2>9
  <2> QED
    BY <1>10, <2>10 DEF p, j
<1> QED
  BY <1>9, <1>10

(* Of the range, a flush that begins inside a page misses exactly the       *)
(* positions that the pages and the copy step over.                         *)
LEMMA MissingSent ==
    ASSUME TypeOK, RingInv, FlushReturned, SameLap, UnflushedIntact
    PROVE  {p \in start..(end - 1) : p \notin SentBytes} = SteppedOver
<1> DEFINE N == end - start
           o == start % PAGE
           F == N \div PAGE
           G == F * PAGE
<1>1. /\ start \in Nat /\ end \in Nat /\ PAGE \in Nat \ {0} /\ start < end
      /\ N \in Nat
  BY PageSizes DEF TypeOK, RingInv, BioInv, Flushing
<1>2. o \in 0..(PAGE - 1)
  BY <1>1, PageAndByte
<1>3. F \in Nat /\ G \in 0..N
  <2>1. F \in Nat
    BY <1>1, PageAndByte
  <2>2. 0 \in 0..(N - 1)
    BY <1>1
  <2> QED
    BY <1>1, <2>1, <2>2, FullIff
<1>4. ASSUME NEW k \in 0..(N - 1)
      PROVE  /\ k < G /\ k >= o => Sent(k) = start + (k - o)
             /\ k < G /\ k < o => Sent(k) \notin start..(end - 1)
             /\ k >= G => Sent(k) = start + k
  <2>1. Full(k \div PAGE) <=> k < G
    BY <1>1, FullIff
  <2>2. IF Full(k \div PAGE)
        THEN IF k >= o THEN Sent(k) = start + (k - o) ELSE Sent(k) \notin start..(end - 1)
        ELSE Sent(k) = start + k
    BY SentByte
  <2>3. k \in Int /\ G \in Int /\ o \in Int
    BY <1>2, <1>3
  <2> HIDE DEF G, o
  <2>4. (k >= G => ~(k < G)) /\ (k < o => ~(k >= o))
    BY <2>3
  <2> QED
    BY <2>1, <2>2, <2>4
<1>5. \A p \in start..(end - 1) : p \in SentBytes <=> \E k \in 0..(N - 1) : Sent(k) = p
  BY DEF SentBytes
<1>6. SteppedOver = IF F = 0 THEN {} ELSE (start - o + G)..(start + G - 1)
  BY DEF SteppedOver
<1>7. F = 0 => G = 0
  BY <1>1
<1>8. F # 0 => G >= PAGE
  <2>1. 0 * PAGE = 0 /\ F \in Int /\ (F # 0 => 0 < F)
    BY <1>1, <1>3
  <2>2. F # 0 => 0 * PAGE + PAGE <= G
    BY <2>1, PagesApart
  <2> HIDE DEF G, F
  <2> QED
    BY <1>1, <1>3, <2>1, <2>2
<1>9. N = end - start /\ o \in Int /\ G \in Int
  BY <1>2, <1>3
<1> HIDE DEF N, o, F, G
<1>10. ASSUME NEW p \in start..(end - 1), p < start - o + G, F # 0
       PROVE  \E k \in 0..(N - 1) : Sent(k) = p
  <2> DEFINE k == p - start + o
  <2>1. k \in 0..(N - 1) /\ k < G /\ k >= o /\ start + (k - o) = p
    BY <1>1, <1>2, <1>3, <1>9, <1>10
  <2> HIDE DEF k
  <2> QED
    BY <1>4, <2>1
<1>11. ASSUME NEW p \in start..(end - 1), p >= start + G
       PROVE  \E k \in 0..(N - 1) : Sent(k) = p
  <2> DEFINE k == p - start
  <2>1. k \in 0..(N - 1) /\ k >= G /\ start + k = p
    BY <1>1, <1>3, <1>9, <1>11
  <2> HIDE DEF k
  <2> QED
    BY <1>4, <2>1
<1>12. ASSUME NEW p \in start..(end - 1), p >= start - o + G, p < start + G,
              NEW k \in 0..(N - 1)
       PROVE  Sent(k) # p
  <2>1. k \in Int /\ p \in Int
    BY <1>1
  <2>2. CASE k < G /\ k >= o
    BY <1>1, <1>4, <1>9, <1>12, <2>1, <2>2
  <2>3. CASE k < G /\ k < o
    BY <1>4, <2>3
  <2>4. CASE k >= G
    BY <1>1, <1>4, <1>9, <1>12, <2>1, <2>4
  <2> QED
    BY <1>9, <2>1, <2>2, <2>3, <2>4
<1>13. CASE F = 0
  <2>1. G = 0
    BY <1>7, <1>13
  <2>2. \A p \in start..(end - 1) : p >= start + G
    BY <1>1, <2>1
  <2>3. \A p \in start..(end - 1) : p \in SentBytes
    BY <1>5, <1>11, <2>2
  <2> QED
    BY <1>6, <1>13, <2>3
<1>14. CASE F # 0
  <2>1. (start - o + G)..(start + G - 1) \subseteq start..(end - 1)
    BY <1>1, <1>2, <1>3, <1>8, <1>9, <1>14
  <2>2. ASSUME NEW p \in start..(end - 1)
        PROVE  p \notin SentBytes <=> p \in (start - o + G)..(start + G - 1)
    <3>1. p \in Int /\ (p \in (start - o + G)..(start + G - 1)
                           <=> p >= start - o + G /\ p < start + G)
      BY <1>1, <1>9
    <3>2. CASE p < start - o + G
      BY <1>1, <1>5, <1>9, <1>10, <1>14, <3>1, <3>2
    <3>3. CASE p >= start + G
      BY <1>1, <1>5, <1>9, <1>11, <3>1, <3>3
    <3>4. CASE p >= start - o + G /\ p < start + G
      BY <1>5, <1>12, <3>1, <3>4
    <3> QED
      BY <1>1, <1>9, <3>1, <3>2, <3>3, <3>4
  <2> QED
    BY <1>6, <1>14, <2>1, <2>2
<1> QED
  BY <1>13, <1>14

(* One that begins at a page, or has less than a page to send, sends every  *)
(* byte of it once and in order.                                            *)
LEMMA AlignedSent ==
    ASSUME TypeOK, RingInv, FlushReturned, SameLap, UnflushedIntact, Aligned,
           NEW k \in 0..(end - start - 1)
    PROVE  Sent(k) = start + k
<1> DEFINE j == k \div PAGE
           o == start % PAGE
<1>1. /\ start \in Nat /\ end \in Nat /\ PAGE \in Nat \ {0} /\ k \in Nat /\ start < end
  BY PageSizes DEF TypeOK, RingInv, BioInv, Flushing
<1>2. IF Full(j) THEN IF k >= o THEN Sent(k) = start + (k - o)
                                ELSE Sent(k) \notin start..(end - 1)
      ELSE Sent(k) = start + k
  BY SentByte
<1>3. Full(j) => o = 0
  <2> SUFFICES ASSUME Full(j) PROVE o = 0
    OBVIOUS
  <2>1. j \in Nat /\ j * PAGE \in Nat
    BY <1>1, PageAndByte, PieceSlot
  <2>2. end - start - j * PAGE >= PAGE
    BY DEF Full
  <2> HIDE DEF j
  <2>3. end - start >= PAGE
    BY <1>1, <2>1, <2>2
  <2> QED
    BY <1>1, <2>3 DEF Aligned
<1> HIDE DEF j, o
<1> QED
  BY <1>1, <1>2, <1>3

(* Nothing else and nothing less, then. *)
LEMMA SentFrom == TypeOK /\ RingInv => FlushSent
  BY MissingSent, AlignedSent DEF FlushSent

(* A flush that succeeds hands the device its range, but for what is        *)
(* stepped over (bio_write).                                                *)
THEOREM FlushIsSent == Spec => []FlushSent
  BY SentFrom, TypeCorrect, RingInvariance, PTL
=============================================================================
