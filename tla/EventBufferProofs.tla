-------------------------- MODULE EventBufferProofs --------------------------
(* Theorems about EventBuffer, for blocks, setbacks and texts of any size.  *)
EXTENDS EventBufferProperties, SequenceTheorems, TLAPS

(* A first call that found no room would leave the buffer without a         *)
(* terminator, and a text that did not fit must have been long enough for   *)
(* the start that is kept.                                                  *)
FreshInv == open /\ calls = 0 => consumed = 0 /\ text = <<>>
LongInv == open /\ truncated => Len(text) >= BLOCKSIZE - SETBACK

IndInv == TypeOK /\ RoomInv /\ TextKept /\ StartKept /\ FreshInv /\ LongInv
-----------------------------------------------------------------------------
(* What one call writes is a sequence of its own number.                    *)
LEMMA CharsType ==
    ASSUME CanCall, TypeOK, NEW n \in Nat
    PROVE  /\ Chars(n) \in Seq(1..MaxCalls)
           /\ Len(Chars(n)) = n
           /\ \A i \in 1..n : Chars(n)[i] = Call
<1>1. Call \in 1..MaxCalls
    BY EventBufferAssumption DEF Call, CanCall, TypeOK
<1>2. Chars(n) \in [1..n -> 1..MaxCalls]
    BY <1>1 DEF Chars
<1>3. Chars(n) \in Seq(1..MaxCalls)
    BY <1>2, SeqDef
<1>4. DOMAIN Chars(n) = 1..n
    BY DEF Chars
<1>5. Len(Chars(n)) = n
    BY <1>3, <1>4
<1> QED BY <1>3, <1>5 DEF Chars

(* Writing a string keeps the buffer's type.                                *)
LEMMA PutType ==
    ASSUME buf \in [Index -> Int], NEW at \in Nat, NEW s \in Seq(Int)
    PROVE  Put(at, s) \in [Index -> Int]
<1>1. \A i \in at..(at + Len(s) - 1) : s[i - at + 1] \in Int
    OBVIOUS
<1> QED BY <1>1 DEF Put, NUL

(* What lies where after a string was written: it, its terminator, and      *)
(* everything before it as it was.                                          *)
LEMMA PutAt ==
    ASSUME NEW at \in Nat, NEW s \in Seq(Int), NEW i \in Index
    PROVE  /\ i < at => Put(at, s)[i] = buf[i]
           /\ at <= i /\ i < at + Len(s) => Put(at, s)[i] = s[i - at + 1]
           /\ i = at + Len(s) => Put(at, s)[i] = NUL
<1>1. i \in Nat
    BY EventBufferAssumption DEF Index, EVENTSIZE
<1>2. Len(s) \in Nat
    OBVIOUS
<1> QED BY <1>1, <1>2 DEF Put
-----------------------------------------------------------------------------
(* What snprintf leaves is the buffer, or the buffer with a prefix of the   *)
(* string written; the whole string when it fits.                           *)
LEMMA PrintedIs ==
    ASSUME NEW at \in Nat, NEW size \in Int, NEW S, NEW s \in Seq(S), size > 0
    PROVE  \E p \in Seq(S) :
              /\ Printed(at, size, s) = Put(at, p)
              /\ Len(p) = IF Len(s) < size THEN Len(s) ELSE size - 1
              /\ \A i \in 1..Len(p) : p[i] = s[i]
<1> DEFINE m == IF Len(s) < size THEN Len(s) ELSE size - 1
           p == SubSeq(s, 1, m)
<1>1. m \in Nat /\ m <= Len(s)
    BY LenProperties
<1>2. \A i \in 1..m : s[i] \in S
    BY <1>1, ElementOfSeq
<1> HIDE DEF m
<1>3. /\ p \in Seq(S)
      /\ Len(p) = IF 1 <= m THEN m - 1 + 1 ELSE 0
      /\ \A i \in 1..(m - 1 + 1) : p[i] = s[1 + i - 1]
    BY <1>1, <1>2, SubSeqProperties
<1>4. Len(p) = m /\ \A i \in 1..m : p[i] = s[i]
    BY <1>1, <1>3
<1>5. Printed(at, size, s) = Put(at, p)
    BY DEF Printed, m
<1> HIDE DEF p
<1> QED BY <1>3, <1>4, <1>5 DEF m

(* snprintf keeps the buffer's type.                                        *)
LEMMA PrintedType ==
    ASSUME buf \in [Index -> Int], NEW at \in Nat, NEW size \in Int, NEW s \in Seq(Int)
    PROVE  Printed(at, size, s) \in [Index -> Int]
<1>1. CASE size <= 0
    BY <1>1 DEF Printed
<1>2. CASE size > 0
    BY <1>2, PrintedIs, PutType
<1> QED BY <1>1, <1>2
-----------------------------------------------------------------------------
(* A prefix that is kept stays kept when a string is appended to the texts  *)
(* and written behind it.                                                   *)
LEMMA AppendKept ==
    ASSUME TypeOK, NEW s \in Seq(1..MaxCalls), NEW p \in Seq(Int),
           consumed = Len(text), TextKept, open, ~truncated,
           Len(p) <= Len(s), \A i \in 1..Len(p) : p[i] = s[i],
           NEW k \in Nat, k <= BLOCKSIZE, k <= consumed + Len(p)
    PROVE  \A i \in 1..k : Put(consumed, p)[i - 1] = (text \o s)[i]
<1> SUFFICES ASSUME NEW i \in 1..k
             PROVE  Put(consumed, p)[i - 1] = (text \o s)[i]
    OBVIOUS
<1>1. consumed \in Nat /\ Len(p) \in Nat /\ Len(s) \in Nat /\ i \in Nat /\ i >= 1
    BY DEF TypeOK
<1>2. i - 1 \in Index
    BY EventBufferAssumption DEF Index, EVENTSIZE
<1>3. text \in Seq(1..MaxCalls)
    BY DEF TypeOK
<1>4. CASE i <= consumed
    <2>1. (text \o s)[i] = text[i]
        BY <1>1, <1>3, <1>4, ConcatProperties
    <2>2. Put(consumed, p)[i - 1] = buf[i - 1]
        BY <1>1, <1>2, <1>4, PutAt
    <2> QED BY <1>1, <1>4, <2>1, <2>2 DEF TextKept
<1>5. CASE i > consumed
    <2>1. (text \o s)[i] = s[i - consumed]
        BY <1>1, <1>3, <1>5, ConcatProperties
    <2>2. Put(consumed, p)[i - 1] = p[(i - 1) - consumed + 1]
        <3>1. consumed <= i - 1 /\ i - 1 < consumed + Len(p)
            BY <1>1, <1>5
        <3> QED BY <1>1, <1>2, <3>1, PutAt
    <2>3. i - consumed \in 1..Len(p) /\ (i - 1) - consumed + 1 = i - consumed
        BY <1>1, <1>5
    <2> QED BY <2>1, <2>2, <2>3
<1> QED BY <1>1, <1>4, <1>5

(* Once a text did not fit, whatever is written lies behind the start.      *)
LEMMA LaterKept ==
    ASSUME TypeOK, StartKept, LongInv, open, truncated,
           NEW s \in Seq(1..MaxCalls), NEW p \in Seq(Int)
    PROVE  \A i \in 1..(BLOCKSIZE - SETBACK) : Put(consumed, p)[i - 1] = (text \o s)[i]
<1> SUFFICES ASSUME NEW i \in 1..(BLOCKSIZE - SETBACK)
             PROVE  Put(consumed, p)[i - 1] = (text \o s)[i]
    OBVIOUS
<1>1. i \in Nat /\ i >= 1 /\ i <= Len(text) /\ i - 1 < consumed
    BY EventBufferAssumption DEF TypeOK, StartKept, LongInv
<1>2. i - 1 \in Index
    BY EventBufferAssumption DEF Index, EVENTSIZE
<1>3. text \in Seq(1..MaxCalls)
    BY DEF TypeOK
<1>4. (text \o s)[i] = text[i]
    BY <1>1, <1>3, ConcatProperties
<1>5. Put(consumed, p)[i - 1] = buf[i - 1]
    BY <1>1, <1>2, PutAt DEF TypeOK
<1> QED BY <1>4, <1>5 DEF StartKept
-----------------------------------------------------------------------------
(* No record is open at first. *)
LEMMA InitInv == Init => IndInv
<1> SUFFICES ASSUME Init PROVE IndInv
    OBVIOUS
<1>1. TypeOK
    <2>1. text \in Seq(1..MaxCalls) /\ event \in Seq(Int)
        BY EmptySeq DEF Init
    <2>2. buf \in [Index -> Int]
        BY DEF Init, Junk
    <2>3. open \in BOOLEAN /\ truncated \in BOOLEAN /\ outside \in BOOLEAN
        BY DEF Init
    <2>4. consumed \in Nat /\ calls \in 0..MaxCalls
        BY EventBufferAssumption DEF Init
    <2> QED BY <2>1, <2>2, <2>3, <2>4 DEF TypeOK
<1> QED BY <1>1 DEF Init, IndInv, RoomInv, TextKept, StartKept, FreshInv, LongInv

(* A new record begins at the start of its buffer. *)
LEMMA StartInv == IndInv /\ Start => IndInv'
<1> SUFFICES ASSUME IndInv, Start PROVE IndInv'
    OBVIOUS
<1>1. TypeOK'
    <2>1. text' \in Seq(1..MaxCalls)
        BY EmptySeq DEF Start
    <2>2. buf' \in [Index -> Int]
        BY DEF Start, Junk
    <2>3. open' \in BOOLEAN /\ truncated' \in BOOLEAN /\ outside' \in BOOLEAN
        BY DEF Start
    <2>4. consumed' \in Nat /\ calls' \in 0..MaxCalls
        BY EventBufferAssumption DEF Start
    <2>5. event' \in Seq(Int)
        BY DEF IndInv, TypeOK, Start
    <2> QED BY <2>1, <2>2, <2>3, <2>4, <2>5 DEF TypeOK
<1>2. RoomInv' /\ TextKept' /\ StartKept' /\ FreshInv' /\ LongInv'
    BY EventBufferAssumption
    DEF Start, RoomInv, TextKept, StartKept, FreshInv, LongInv
<1> QED BY <1>1, <1>2 DEF IndInv

(* A dropped call changes nothing but the count.                            *)
LEMMA RefuseInv ==
    ASSUME IndInv, CanCall, Refuse, calls > 0
    PROVE  IndInv'
<1> USE DEF IndInv
<1>1. TypeOK'
    BY EventBufferAssumption DEF Refuse, CanCall, Call, TypeOK
<1>2. calls' > 0
    BY DEF Refuse, CanCall, Call, TypeOK
<1>3. RoomInv' /\ TextKept' /\ StartKept' /\ FreshInv' /\ LongInv'
    BY <1>2 DEF Refuse, RoomInv, TextKept, StartKept, FreshInv, LongInv
<1> QED BY <1>1, <1>3

(* A string for which there is room, or of which nobody knows since a text  *)
(* did not fit.                                                             *)
LEMMA WriteInv ==
    ASSUME IndInv, CanCall, calls > 0, NEW n \in Nat, Write(Chars(n)),
           room >= n \/ room < 0
    PROVE  IndInv'
<1> DEFINE s == Chars(n)
<1> USE DEF IndInv
<1>1. s \in Seq(1..MaxCalls) /\ Len(s) = n
    BY CharsType
<1>2. s \in Seq(Int)
    <2>1. 1..MaxCalls \subseteq Int
        OBVIOUS
    <2> HIDE DEF s
    <2> QED BY <1>1, <2>1, SeqMonotonic
<1> HIDE DEF s
<1>3. /\ buf' = Put(consumed, s)
      /\ outside' = (outside \/ consumed + n >= EVENTSIZE)
      /\ consumed' = consumed + n
      /\ text' = text \o s
      /\ calls' = Call
      /\ UNCHANGED <<open, truncated, event>>
    BY <1>1 DEF Write, s
<1>4. text' \in Seq(1..MaxCalls) /\ Len(text') = Len(text) + n
    BY <1>1, <1>3, ConcatProperties DEF TypeOK
<1>5. TypeOK'
    <2>1. buf' \in [Index -> Int]
        BY <1>2, <1>3, PutType DEF TypeOK
    <2> QED BY <2>1, <1>3, <1>4, EventBufferAssumption DEF TypeOK, Call, CanCall
<1>6. RoomInv' /\ TextKept'
    <2> SUFFICES ASSUME ~truncated PROVE RoomInv' /\ TextKept'
        BY <1>3 DEF RoomInv, TextKept
    <2>1. consumed = Len(text) /\ consumed <= BLOCKSIZE /\ ~outside /\ open /\ consumed \in Nat
        BY DEF RoomInv, CanCall, TypeOK
    <2>2. consumed + n <= BLOCKSIZE
        BY <2>1, EventBufferAssumption DEF room
    <2>3. consumed + n \in Index
        BY <2>1, <2>2, EventBufferAssumption DEF Index, EVENTSIZE
    <2>4. buf'[consumed'] = NUL
        BY <1>1, <1>2, <1>3, <2>1, <2>3, PutAt
    <2>5. RoomInv'
        <3>1. ~outside'
            <4>1. ~(consumed + n >= EVENTSIZE)
                BY <2>1, <2>2, EventBufferAssumption DEF EVENTSIZE
            <4> QED BY <1>3, <2>1, <4>1
        <3>2. consumed' = Len(text') /\ consumed' <= BLOCKSIZE
            BY <1>3, <1>4, <2>1, <2>2
        <3> QED BY <2>4, <3>1, <3>2 DEF RoomInv
    <2>6. \A i \in 1..(consumed + n) : Put(consumed, s)[i - 1] = (text \o s)[i]
        <3>1. consumed + n \in Nat /\ consumed + n <= consumed + Len(s) /\ Len(s) <= Len(s)
            BY <1>1, <2>1
        <3>2. \A i \in 1..Len(s) : s[i] = s[i]
            OBVIOUS
        <3> QED BY <1>1, <1>2, <2>1, <2>2, <3>1, <3>2, AppendKept
    <2> QED BY <1>3, <1>4, <2>1, <2>5, <2>6 DEF TextKept
<1>7. StartKept' /\ LongInv'
    <2> SUFFICES ASSUME truncated PROVE StartKept' /\ LongInv'
        BY <1>3 DEF StartKept, LongInv
    <2>1. \A i \in 1..(BLOCKSIZE - SETBACK) : Put(consumed, s)[i - 1] = (text \o s)[i]
        BY <1>1, <1>2, LaterKept DEF CanCall
    <2>2. consumed >= BLOCKSIZE - SETBACK /\ Len(text) >= BLOCKSIZE - SETBACK
        BY DEF CanCall, StartKept, LongInv
    <2>3. consumed' >= BLOCKSIZE - SETBACK /\ Len(text') >= BLOCKSIZE - SETBACK
        BY <1>3, <1>4, <2>2, EventBufferAssumption DEF TypeOK
    <2> QED BY <1>3, <2>1, <2>3 DEF StartKept, LongInv
<1>8. FreshInv'
    BY <1>3 DEF FreshInv, Call, TypeOK
<1> QED BY <1>5, <1>6, <1>7, <1>8

(* A formatted text: the three cases are that it fits, that it does not,    *)
(* and that an earlier one did not.                                         *)
LEMMA FormatToInv ==
    ASSUME IndInv, NEW n \in Nat,
           FormatTo(n, IF n < room THEN consumed + n ELSE consumed + n - SETBACK)
    PROVE  IndInv'
<1> DEFINE s == Chars(n)
<1> USE DEF IndInv
<1>0. CanCall /\ room > 0 /\ room \in Int /\ consumed \in Nat /\ open
    BY EventBufferAssumption DEF FormatTo, room, TypeOK, CanCall
<1>1. s \in Seq(1..MaxCalls) /\ Len(s) = n
    BY <1>0, CharsType
<1>2. s \in Seq(Int)
    <2>1. 1..MaxCalls \subseteq Int
        OBVIOUS
    <2> HIDE DEF s
    <2> QED BY <1>1, <2>1, SeqMonotonic
<1> HIDE DEF s
<1>3. /\ buf' = Printed(consumed, room, s)
      /\ consumed' = IF n < room THEN consumed + n ELSE consumed + n - SETBACK
      /\ text' = text \o s
      /\ truncated' = (truncated \/ n >= room)
      /\ calls' = Call
      /\ UNCHANGED <<open, outside, event>>
    BY DEF FormatTo, s
<1>4. text' \in Seq(1..MaxCalls) /\ Len(text') = Len(text) + n /\ Len(text) \in Nat
    BY <1>1, <1>3, ConcatProperties, LenProperties DEF TypeOK
<1>5. PICK p \in Seq(Int) :
          /\ Printed(consumed, room, s) = Put(consumed, p)
          /\ Len(p) = IF Len(s) < room THEN Len(s) ELSE room - 1
          /\ \A i \in 1..Len(p) : p[i] = s[i]
    BY <1>0, <1>2, PrintedIs
<1>6. Len(p) \in Nat /\ Len(p) <= Len(s)
    BY <1>0, <1>1, <1>5, LenProperties
<1>7. consumed' \in Nat /\ (n >= room => consumed' >= BLOCKSIZE - SETBACK)
    BY <1>0, <1>3, EventBufferAssumption DEF room
<1>8. TypeOK'
    <2>1. buf' \in [Index -> Int]
        BY <1>0, <1>2, <1>3, PrintedType DEF TypeOK
    <2>2. calls' \in 0..MaxCalls
        BY <1>0, <1>3, EventBufferAssumption DEF TypeOK, Call, CanCall
    <2>3. open' \in BOOLEAN /\ truncated' \in BOOLEAN /\ outside' \in BOOLEAN
        BY <1>3 DEF TypeOK
    <2> QED BY <1>3, <1>4, <1>7, <2>1, <2>2, <2>3 DEF TypeOK
<1>9. RoomInv' /\ TextKept'
    <2> SUFFICES ASSUME ~truncated' PROVE RoomInv' /\ TextKept'
        BY DEF RoomInv, TextKept
    <2>0. ~truncated /\ n < room
        <3>1. ~truncated /\ ~(n >= room)
            BY <1>3
        <3> QED BY <1>0, <3>1
    <2>1. consumed = Len(text) /\ ~outside /\ Len(p) = n
        BY <1>0, <1>1, <1>5, <2>0 DEF RoomInv
    <2>2. consumed' = consumed + n /\ consumed + n <= BLOCKSIZE
        BY <1>0, <1>3, <2>0, EventBufferAssumption DEF room
    <2>3. consumed + n \in Index
        BY <1>0, <2>2, EventBufferAssumption DEF Index, EVENTSIZE
    <2>4. buf'[consumed'] = NUL
        <3>1. consumed' \in Index /\ consumed' = consumed + Len(p)
            BY <2>1, <2>2, <2>3
        <3>2. Put(consumed, p)[consumed'] = NUL
            BY <1>0, <3>1, PutAt
        <3> QED BY <1>3, <1>5, <3>2
    <2>5. RoomInv'
        BY <1>3, <1>4, <2>1, <2>2, <2>4 DEF RoomInv
    <2>6. consumed + n \in Nat /\ consumed + n <= consumed + Len(p)
        BY <1>0, <2>1
    <2>7. \A i \in 1..(consumed + n) : Put(consumed, p)[i - 1] = (text \o s)[i]
        BY <1>0, <1>1, <1>5, <1>6, <2>0, <2>1, <2>2, <2>6, AppendKept
    <2> QED BY <1>3, <1>4, <1>5, <2>1, <2>5, <2>7 DEF TextKept
<1>10. StartKept' /\ LongInv'
    <2>1. CASE truncated
        <3>1. \A i \in 1..(BLOCKSIZE - SETBACK) : Put(consumed, p)[i - 1] = (text \o s)[i]
            BY <1>0, <1>1, <2>1, LaterKept
        <3>2. consumed >= BLOCKSIZE - SETBACK /\ Len(text) >= BLOCKSIZE - SETBACK
            BY <1>0, <2>1 DEF StartKept, LongInv
        <3>3. consumed' >= BLOCKSIZE - SETBACK /\ Len(text') >= BLOCKSIZE - SETBACK
            BY <1>0, <1>3, <1>4, <1>7, <3>2, EventBufferAssumption DEF room
        <3> QED BY <1>3, <1>5, <3>1, <3>3 DEF StartKept, LongInv
    <2>2. CASE ~truncated /\ n >= room
        <3>1. consumed = Len(text)
            BY <1>0, <2>2 DEF RoomInv
        <3>2. BLOCKSIZE - SETBACK \in Nat /\ BLOCKSIZE - SETBACK <= BLOCKSIZE
            BY EventBufferAssumption
        <3>3. BLOCKSIZE - SETBACK <= consumed + Len(p)
            BY <1>0, <1>1, <1>5, <2>2, EventBufferAssumption DEF room
        <3>4. \A i \in 1..(BLOCKSIZE - SETBACK) : Put(consumed, p)[i - 1] = (text \o s)[i]
            BY <1>0, <1>1, <1>5, <1>6, <2>2, <3>1, <3>2, <3>3, AppendKept
        <3>5. Len(text') >= BLOCKSIZE - SETBACK
            BY <1>0, <1>4, <2>2, <3>1, EventBufferAssumption DEF room
        <3> QED BY <1>3, <1>5, <1>7, <2>2, <3>4, <3>5 DEF StartKept, LongInv
    <2>3. CASE ~truncated /\ ~(n >= room)
        BY <1>3, <2>3 DEF StartKept, LongInv
    <2> QED BY <2>1, <2>2, <2>3
<1>11. FreshInv'
    BY <1>3 DEF FreshInv, Call, TypeOK
<1> QED BY <1>8, <1>9, <1>10, <1>11

(* audit_log_format_hardlog; a first call always finds room. *)
LEMMA FormatInv ==
    ASSUME IndInv, NEW n \in Nat, Format(n)
    PROVE  IndInv'
<1>1. CASE FormatNoRoom
    <2>1. calls > 0
        <3>1. calls = 0 => room > 0
            BY <1>1, EventBufferAssumption
            DEF FormatNoRoom, CanCall, IndInv, FreshInv, room
        <3> QED BY <1>1, <3>1, EventBufferAssumption
                DEF FormatNoRoom, IndInv, TypeOK, room
    <2> QED BY <1>1, <2>1, RefuseInv DEF FormatNoRoom
<1>2. CASE FormatTo(n, IF n < room THEN consumed + n ELSE consumed + n - SETBACK)
    BY <1>2, FormatToInv
<1> QED BY <1>1, <1>2 DEF Format

(* audit_log_n_string_hardlog writes two characters more than it was given. *)
LEMMA NStringInv ==
    ASSUME IndInv, NEW n \in Nat, NString(n)
    PROVE  IndInv'
<1>1. CanCall /\ calls > 0 /\ room \in Int
    BY EventBufferAssumption DEF NString, IndInv, TypeOK, room
<1>2. CASE LessUnsigned(room, n + 3)
    BY <1>1, <1>2, RefuseInv DEF NString
<1>3. CASE ~LessUnsigned(room, n + 3)
    <2>1. Write(Chars(n + 2))
        BY <1>3 DEF NString
    <2>2. room >= n + 2 \/ room < 0
        BY <1>1, <1>3 DEF LessUnsigned
    <2>3. n + 2 \in Nat
        OBVIOUS
    <2> QED BY <1>1, <2>1, <2>2, <2>3, WriteInv
<1> QED BY <1>2, <1>3

(* audit_log_n_hex_hardlog asks no room for the terminator: the byte behind *)
(* the block takes it.                                                      *)
LEMMA NHexInv ==
    ASSUME IndInv, NEW n \in Nat, NHex(n)
    PROVE  IndInv'
<1>1. CanCall /\ calls > 0 /\ room \in Int
    BY EventBufferAssumption DEF NHex, IndInv, TypeOK, room
<1>2. CASE LessUnsigned(room, 2 * n)
    BY <1>1, <1>2, RefuseInv DEF NHex
<1>3. CASE ~LessUnsigned(room, 2 * n)
    <2>1. Write(Chars(2 * n))
        BY <1>3 DEF NHex
    <2>2. room >= 2 * n \/ room < 0
        BY <1>1, <1>3 DEF LessUnsigned
    <2>3. 2 * n \in Nat
        OBVIOUS
    <2> QED BY <1>1, <2>1, <2>2, <2>3, WriteInv
<1> QED BY <1>2, <1>3

(* The end of a record: the newline's length is counted whether or not it   *)
(* had room.                                                                *)
LEMMA EndInv ==
    ASSUME IndInv, End
    PROVE  IndInv'
<1>1. CASE Length < MINLEN
    <2>1. TypeOK'
        BY <1>1 DEF IndInv, End, EndWith, TypeOK
    <2>2. ~open'
        BY DEF End, EndWith
    <2> QED BY <2>1, <2>2
            DEF IndInv, RoomInv, TextKept, StartKept, FreshInv, LongInv
<1>2. CASE ~(Length < MINLEN)
    <2>1. /\ buf' = Printed(consumed, room, <<NL>>)
          /\ consumed' = consumed + PrintedLen(room, <<NL>>)
          /\ event' = [i \in 1..consumed' |->
                          IF i <= EVENTSIZE THEN buf'[i - 1] ELSE Junk]
          /\ open' = FALSE
          /\ UNCHANGED <<calls, text, truncated, outside>>
        BY <1>2 DEF End, EndWith
    <2>2. consumed \in Nat /\ room \in Int /\ <<NL>> \in Seq(Int)
        BY EventBufferAssumption DEF IndInv, TypeOK, room, NL
    <2>3. buf' \in [Index -> Int]
        BY <2>1, <2>2, PrintedType DEF IndInv, TypeOK
    <2>4. consumed' \in Nat
        BY <2>1, <2>2 DEF PrintedLen
    <2>5. event' \in Seq(Int)
        <3>1. \A i \in 1..consumed' : i <= EVENTSIZE => i - 1 \in Index
            BY <2>4, EventBufferAssumption DEF Index, EVENTSIZE
        <3>2. event' \in [1..consumed' -> Int]
            BY <2>1, <2>3, <3>1 DEF Junk
        <3> QED BY <2>4, <3>2, SeqDef
    <2>6. TypeOK'
        BY <2>1, <2>3, <2>4, <2>5 DEF IndInv, TypeOK
    <2> QED BY <2>1, <2>6
            DEF IndInv, RoomInv, TextKept, StartKept, FreshInv, LongInv
<1> QED BY <1>1, <1>2

(* The invariant is kept by every step.                                     *)
LEMMA StepInv == IndInv /\ [Next]_vars => IndInv'
<1> SUFFICES ASSUME IndInv, [Next]_vars PROVE IndInv'
    OBVIOUS
<1>1. CASE Start
    BY <1>1, StartInv
<1>2. CASE End
    BY <1>2, EndInv
<1>3. ASSUME NEW n \in 0..MaxLen, Format(n) \/ NString(n) \/ NHex(n)
      PROVE  IndInv'
    <2>1. n \in Nat
        OBVIOUS
    <2> QED BY <1>3, <2>1, FormatInv, NStringInv, NHexInv
<1>4. CASE UNCHANGED vars
    BY <1>4 DEF vars, IndInv, TypeOK, RoomInv, TextKept, StartKept, FreshInv, LongInv
<1> QED BY <1>1, <1>2, <1>3, <1>4 DEF Next

(* The inductive invariant holds in every state.                            *)
THEOREM Invariance == Spec => []IndInv
<1> QED BY InitInv, StepInv, PTL DEF Spec

(* The variables keep their types (hl-logger.c:171: the position is never   *)
(* negative, however much is taken back).                                   *)
THEOREM TypeCorrect == Spec => []TypeOK
<1>1. IndInv => TypeOK
    BY DEF IndInv
<1> QED BY <1>1, Invariance, PTL

(* As long as every text fitted, the buffer holds all of them and nothing   *)
(* was written behind it (hl-logger.c:142, 189, 221).                       *)
THEOREM TextsFit == Spec => []Fits
<1>1. IndInv => Fits
    BY DEF IndInv, Fits
<1> QED BY <1>1, Invariance, PTL

(* A text that did not fit costs no more than what is set back (:171).      *)
THEOREM StartIsKept == Spec => []StartKept
<1>1. IndInv => StartKept
    BY DEF IndInv
<1> QED BY <1>1, Invariance, PTL

(* A record whose texts fitted is not longer than its buffer, which is what *)
(* HostBuf assumes of an event.                                             *)
THEOREM EventIsBounded == Spec => EventBounded
<1>1. ASSUME IndInv, End, ~truncated, event' # event
      PROVE  Len(event') <= EVENTSIZE
    <2>1. ~(Length < MINLEN)
        BY <1>1 DEF End, EndWith
    <2>2. /\ consumed' = consumed + PrintedLen(room, <<NL>>)
          /\ event' = [i \in 1..consumed' |->
                          IF i <= EVENTSIZE THEN buf'[i - 1] ELSE Junk]
        BY <1>1, <2>1 DEF End, EndWith
    <2>3. consumed \in Nat /\ consumed <= BLOCKSIZE
        BY <1>1 DEF IndInv, TypeOK, RoomInv, End, EndWith
    <2>4. consumed' \in Nat /\ consumed' <= EVENTSIZE
        BY <2>2, <2>3, EventBufferAssumption DEF PrintedLen, room, EVENTSIZE
    <2>5. DOMAIN event' = 1..consumed'
        BY <2>2
    <2>6. event' \in Seq(Int)
        BY <1>1, EndInv DEF IndInv, TypeOK
    <2>7. Len(event') = consumed'
        BY <2>4, <2>5, <2>6, LenProperties
    <2> QED BY <2>4, <2>7
<1>2. IndInv => [End /\ ~truncated /\ event' # event => Len(event') <= EVENTSIZE]_vars
    BY <1>1
<1> QED BY <1>2, Invariance, PTL DEF EventBounded

(* A record whose texts fitted has a terminator, and a length before it.    *)
LEMMA LengthType ==
    ASSUME IndInv, open, calls > 0, ~truncated
    PROVE  Length \in 0..EVENTSIZE
<1>1. /\ consumed \in 0..BLOCKSIZE /\ buf[consumed] = NUL /\ Len(text) = consumed
    BY EventBufferAssumption DEF IndInv, TypeOK, RoomInv
<1>0. \A i \in 1..consumed : buf[i - 1] = text[i] /\ text[i] \in 1..MaxCalls
    <2>1. text \in Seq(1..MaxCalls)
        BY DEF IndInv, TypeOK
    <2>2. \A i \in 1..Len(text) : text[i] \in 1..MaxCalls
        BY <2>1, ElementOfSeq
    <2> QED BY <1>1, <2>2 DEF IndInv, TextKept
<1>2. \A i \in 0..(consumed - 1) : buf[i] # NUL
    <2>1. ASSUME NEW i \in 0..(consumed - 1)
          PROVE  buf[i] # NUL
        <3>1. i + 1 \in 1..consumed /\ i + 1 - 1 = i
            BY <1>1
        <3>2. buf[i] \in 1..MaxCalls
            BY <1>0, <3>1
        <3> QED BY <3>2, EventBufferAssumption DEF NUL
    <2> QED BY <2>1
<1>3. consumed \in 0..EVENTSIZE
    BY <1>1, EventBufferAssumption DEF EVENTSIZE
<1>4. \E n \in 0..EVENTSIZE : /\ (n = EVENTSIZE \/ buf[n] = NUL)
                              /\ \A i \in 0..(n - 1) : buf[i] # NUL
    BY <1>1, <1>2, <1>3
<1> QED BY <1>4 DEF Length

(* A record whose texts fitted, with room for the newline, goes to HostBuf  *)
(* as its texts and the newline (hl-logger.c:276-280).                      *)
THEOREM EventIsExact == Spec => EventExact
<1>1. ASSUME IndInv, End, Length >= MINLEN, ~truncated, room >= 2
      PROVE  event' = text \o <<NL>>
    <2>1. open /\ calls > 0
        BY <1>1 DEF End, EndWith
    <2>2. ~(Length < MINLEN)
        BY <1>1, <2>1, LengthType, EventBufferAssumption DEF EVENTSIZE
    <2>3. /\ buf' = Printed(consumed, room, <<NL>>)
          /\ consumed' = consumed + PrintedLen(room, <<NL>>)
          /\ event' = [i \in 1..consumed' |->
                          IF i <= EVENTSIZE THEN buf'[i - 1] ELSE Junk]
        BY <1>1, <2>2 DEF End, EndWith
    <2>4. /\ consumed \in Nat /\ consumed + 2 <= BLOCKSIZE /\ Len(text) = consumed
          /\ text \in Seq(Int) /\ BLOCKSIZE \in Nat /\ room \in Nat
          /\ \A i \in 1..consumed : buf[i - 1] = text[i]
        <3>1. text \in Seq(1..MaxCalls) /\ consumed \in Nat /\ BLOCKSIZE \in Nat
            BY <1>1, EventBufferAssumption DEF IndInv, TypeOK
        <3>2. text \in Seq(Int)
            BY <3>1, EventBufferAssumption
        <3> QED BY <1>1, <2>1, <3>1, <3>2 DEF IndInv, RoomInv, TextKept, room
    <2>5. <<NL>> \in Seq(Int) /\ Len(<<NL>>) = 1 /\ <<NL>>[1] = NL
        BY DEF NL
    <2>6. PICK p \in Seq(Int) : /\ buf' = Put(consumed, p)
                                /\ Len(p) = 1 /\ p[1] = NL
        <3>1. \E p \in Seq(Int) :
                 /\ Printed(consumed, room, <<NL>>) = Put(consumed, p)
                 /\ Len(p) = IF Len(<<NL>>) < room THEN Len(<<NL>>) ELSE room - 1
                 /\ \A i \in 1..Len(p) : p[i] = <<NL>>[i]
            <4>1. room \in Int /\ room > 0 /\ consumed \in Nat
                BY <1>1, <2>4
            <4> DEFINE nl == <<NL>>
            <4>2. nl \in Seq(Int)
                BY <2>5
            <4> HIDE DEF nl
            <4>3. \E p \in Seq(Int) :
                     /\ Printed(consumed, room, nl) = Put(consumed, p)
                     /\ Len(p) = IF Len(nl) < room THEN Len(nl) ELSE room - 1
                     /\ \A i \in 1..Len(p) : p[i] = nl[i]
                BY <4>1, <4>2, PrintedIs
            <4> QED BY <4>3 DEF nl
        <3>2. Len(<<NL>>) < room
            BY <1>1, <2>4, <2>5
        <3> QED BY <2>3, <2>5, <3>1, <3>2
    <2>7. consumed' = consumed + 1
        BY <1>1, <2>3, <2>4, <2>5 DEF PrintedLen
    <2>8. ASSUME NEW i \in 1..consumed
          PROVE  event'[i] = text[i]
        <3>1. i - 1 \in Index /\ i - 1 < consumed /\ i <= EVENTSIZE /\ i \in 1..(consumed + 1)
            BY <2>4 DEF Index, EVENTSIZE
        <3>2. Put(consumed, p)[i - 1] = buf[i - 1]
            BY <2>4, <3>1, PutAt
        <3> QED BY <2>3, <2>4, <2>6, <2>7, <3>1, <3>2
    <2>9. event'[consumed + 1] = NL
        <3>1. /\ consumed \in Index /\ consumed + 1 <= EVENTSIZE
              /\ consumed + 1 \in 1..(consumed + 1) /\ (consumed + 1) - 1 = consumed
            BY <2>4 DEF Index, EVENTSIZE
        <3>2. Put(consumed, p)[consumed] = p[1]
            <4>1. consumed <= consumed /\ consumed < consumed + Len(p)
                  /\ consumed - consumed + 1 = 1
                BY <2>4, <2>6
            <4>2. Put(consumed, p)[consumed] = p[consumed - consumed + 1]
                BY <2>4, <3>1, <4>1, PutAt
            <4> QED BY <4>1, <4>2
        <3>3. event'[consumed + 1] = buf'[(consumed + 1) - 1]
            <4>1. \A i \in 1..(consumed + 1) : i <= EVENTSIZE => event'[i] = buf'[i - 1]
                BY <2>3, <2>7
            <4> DEFINE c == consumed + 1
            <4>2. c \in 1..(consumed + 1) /\ c <= EVENTSIZE
                BY <3>1
            <4> HIDE DEF c
            <4>3. event'[c] = buf'[c - 1]
                BY <4>1, <4>2
            <4> QED BY <4>3 DEF c
        <3> QED BY <2>6, <3>1, <3>2, <3>3
    <2>10. event' \in Seq(Int) /\ Len(event') = consumed + 1
        <3>1. event' \in Seq(Int)
            BY <1>1, EndInv DEF IndInv, TypeOK
        <3>2. DOMAIN event' = 1..(consumed + 1)
            BY <2>3, <2>7
        <3> QED BY <2>4, <3>1, <3>2, LenProperties
    <2>11. /\ text \o <<NL>> \in Seq(Int) /\ Len(text \o <<NL>>) = consumed + 1
           /\ \A i \in 1..consumed : (text \o <<NL>>)[i] = text[i]
           /\ (text \o <<NL>>)[consumed + 1] = NL
        BY <2>4, <2>5, ConcatProperties
    <2>12. \A i \in 1..(consumed + 1) : event'[i] = (text \o <<NL>>)[i]
        BY <2>4, <2>8, <2>9, <2>11
    <2> QED BY <2>10, <2>11, <2>12, SeqEqual
<1>2. IndInv => [End /\ Length >= MINLEN /\ ~truncated /\ room >= 2 =>
                    event' = text \o <<NL>>]_vars
    BY <1>1
<1> QED BY <1>2, Invariance, PTL DEF EventExact
=============================================================================
