----------------------------- MODULE EventBuffer -----------------------------
(***************************************************************************)
(* One audit record on its way to HostBuf: the text that the hooks of      *)
(* kernel/audit.c have formatted into hardlog_event_buffer                 *)
(* (host/module/hl-logger.c, audit_log_*_hardlog).                         *)
(*                                                                         *)
(* A character of the record is the number of the call that wrote it; only *)
(* the terminator, the newline and what lies behind the buffer are told    *)
(* apart otherwise.  Records follow one another; each call is one thread's *)
(* own and interleaves with nothing.                                       *)
(***************************************************************************)
EXTENDS Integers, Sequences

CONSTANTS
    BLOCKSIZE,    \* HARDLOG_AUDIT_BLOCKSIZE, 511; the buffer has one byte more
    SETBACK,      \* 10, taken back when a text did not fit
    MINLEN,       \* 35, shorter records are not logged
    MaxLen,       \* bound on the length of what one call formats
    MaxCalls      \* bound on the calls for one record

ASSUME EventBufferAssumption ==
    /\ BLOCKSIZE \in Nat \ {0}
    /\ SETBACK \in 1..BLOCKSIZE
    /\ MINLEN \in 1..BLOCKSIZE
    /\ MaxLen \in Nat \ {0} /\ MaxCalls \in Nat

VARIABLES
    open,         \* whether a record is being written
    buf,          \* hardlog_event_buffer
    consumed,     \* hardlog_event_consumed
    calls,        \* calls made for this record
    text,         \* what they were to write, as far as they did not refuse
    truncated,    \* whether one of them did not fit
    outside,      \* whether one of them wrote behind the buffer
    event         \* the last event copied to HostBuf

vars == <<open, buf, consumed, calls, text, truncated, outside, event>>

NUL == 0
NL == -1
Junk == -2            \* memory that the record does not own, or never wrote
EVENTSIZE == BLOCKSIZE + 1
Index == 0..(EVENTSIZE - 1)
room == BLOCKSIZE - consumed

(* An int that is compared with a size_t: a negative one is very large. *)
LessUnsigned(a, b) == a >= 0 /\ a < b

Call == calls + 1
Chars(n) == [i \in 1..n |-> Call]

(* The string s with its terminator put at position at, as far as the      *)
(* buffer goes.                                                            *)
Put(at, s) ==
    [i \in Index |-> IF i \in at..(at + Len(s) - 1) THEN s[i - at + 1]
                     ELSE IF i = at + Len(s) THEN NUL ELSE buf[i]]

(* kernel/lib/vsprintf.c: snprintf of s with the given size. *)
Printed(at, size, s) ==
    IF size <= 0 THEN buf
    ELSE Put(at, SubSeq(s, 1, IF Len(s) < size THEN Len(s) ELSE size - 1))
PrintedLen(size, s) == IF size < 0 THEN 0 ELSE Len(s)

Init ==
    /\ open = FALSE
    /\ buf = [i \in Index |-> Junk]
    /\ consumed = 0 /\ calls = 0 /\ text = <<>>
    /\ truncated = FALSE /\ outside = FALSE
    /\ event = <<>>

(* kmalloc leaves what was in the memory. *)
Start ==
    /\ ~open
    /\ open' = TRUE
    /\ buf' = [i \in Index |-> Junk]
    /\ consumed' = 0 /\ calls' = 0 /\ text' = <<>>
    /\ truncated' = FALSE /\ outside' = FALSE
    /\ UNCHANGED event

CanCall == open /\ calls < MaxCalls

(* A call that finds no room is dropped. *)
Refuse ==
    /\ calls' = Call
    /\ UNCHANGED <<open, buf, consumed, text, truncated, outside, event>>

FormatTo(n, next) ==
    /\ CanCall
    /\ room > 0
    /\ calls = 0 => n > 0
    /\ buf' = Printed(consumed, room, Chars(n))
    /\ consumed' = next
    /\ text' = text \o Chars(n)
    /\ truncated' = (truncated \/ n >= room)
    /\ calls' = Call
    /\ UNCHANGED <<open, outside, event>>

FormatNoRoom == CanCall /\ room <= 0 /\ Refuse

FormatForgetsLen(n) ==
    FormatTo(n, IF n < room THEN consumed + n ELSE consumed - SETBACK) \/ FormatNoRoom

(* audit_log_format_hardlog of a text of n characters.  A record's first   *)
(* call is that of audit_log_start, which has something to write.          *)
Format(n) ==
    \/ FormatTo(n, IF n < room THEN consumed + n ELSE consumed + n - SETBACK)
    \/ FormatNoRoom

(* A string with its terminator, written without the help of snprintf. *)
Write(s) ==
    /\ buf' = Put(consumed, s)
    /\ outside' = (outside \/ consumed + Len(s) >= EVENTSIZE)
    /\ consumed' = consumed + Len(s)
    /\ text' = text \o s
    /\ calls' = Call
    /\ UNCHANGED <<open, truncated, event>>

NStringForgetsQuotes(n) ==
    /\ CanCall /\ calls > 0
    /\ IF LessUnsigned(room, n) THEN Refuse ELSE Write(Chars(n + 2))

(* audit_log_n_string_hardlog: n characters in quotes. *)
NString(n) ==
    /\ CanCall /\ calls > 0
    /\ IF LessUnsigned(room, n + 3) THEN Refuse ELSE Write(Chars(n + 2))

(* audit_log_n_hex_hardlog: two digits for each of n bytes. *)
NHex(n) ==
    /\ CanCall /\ calls > 0
    /\ IF LessUnsigned(room, 2 * n) THEN Refuse ELSE Write(Chars(2 * n))

(* strlen of the buffer, in memory that goes on behind it. *)
Length == CHOOSE n \in 0..EVENTSIZE :
              /\ n = EVENTSIZE \/ buf[n] = NUL
              /\ \A i \in 0..(n - 1) : buf[i] # NUL

EndWith(newline) ==
    /\ open /\ calls > 0
    /\ open' = FALSE
    /\ IF Length < MINLEN
       THEN UNCHANGED <<buf, consumed, event>>
       ELSE /\ buf' = Printed(consumed, room, newline)
            /\ consumed' = consumed + PrintedLen(room, newline)
            /\ event' = [i \in 1..consumed' |->
                            IF i <= EVENTSIZE THEN buf'[i - 1] ELSE Junk]
    /\ UNCHANGED <<calls, text, truncated, outside>>

EndNoNewline == EndWith(<<>>)

(* audit_log_end_hardlog up to the mutex; what it copies to HostBuf. *)
End == EndWith(<<NL>>)

Next == \/ Start \/ End
        \/ \E n \in 0..MaxLen : Format(n) \/ NString(n) \/ NHex(n)

Spec == Init /\ [][Next]_vars
=============================================================================
