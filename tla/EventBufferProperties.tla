------------------------ MODULE EventBufferProperties ------------------------
(* What the formatting of a record has to keep, and what the comments       *)
(* beside the code say of it.                                               *)
EXTENDS EventBuffer

(* Every variable has its type; in particular the position is never         *)
(* negative, however much is taken back.                                    *)
TypeOK ==
    /\ open \in BOOLEAN /\ truncated \in BOOLEAN /\ outside \in BOOLEAN
    /\ buf \in [Index -> Int]
    /\ consumed \in Nat
    /\ calls \in 0..MaxCalls
    /\ text \in Seq(1..MaxCalls)
    /\ event \in Seq(Int)

(* As long as every text fitted, the buffer holds all of them, one after    *)
(* the other and with a terminator, and nothing was written behind it,      *)
(* though three functions count the room in three ways                      *)
(* (hl-logger.c:142, 189, 221).                                             *)
RoomInv ==
    open /\ ~truncated =>
        /\ consumed = Len(text) /\ consumed <= BLOCKSIZE
        /\ calls > 0 => buf[consumed] = NUL
        /\ ~outside
TextKept ==
    open /\ ~truncated => \A i \in 1..Len(text) : buf[i - 1] = text[i]
Fits == RoomInv /\ TextKept

(* A text that did not fit costs at most the last SETBACK characters of the *)
(* block: what came before stays, whatever is called afterwards             *)
(* (hl-logger.c:171).                                                       *)
StartKept ==
    open /\ truncated =>
        /\ consumed >= BLOCKSIZE - SETBACK
        /\ \A i \in 1..(BLOCKSIZE - SETBACK) : buf[i - 1] = text[i]

(* A record whose texts fitted, with room for the newline, goes to HostBuf  *)
(* as they were, followed by it.                                            *)
EventExact ==
    [][End /\ Length >= MINLEN /\ ~truncated /\ room >= 2 =>
          event' = text \o <<NL>>]_vars

(* A record whose texts all fitted is at most as long as its buffer.  Of    *)
(* the others EventAtMost512, below, is violated: HostBuf, whose events are *)
(* at most EVENTSIZE long, is about records that were not truncated.        *)
EventBounded == [][End /\ ~truncated /\ event' # event => Len(event') <= EVENTSIZE]_vars
-----------------------------------------------------------------------------
(* What the comments say and the code does not do.                          *)

(* "An event is at most 512 bytes (set in the kernel header files)."        *)
(* (hl-logger.c:87)                                                         *)
EventAtMost512 == Len(event) <= EVENTSIZE

(* "the host module will drop excess bytes if this size is exceeded"        *)
(* (host/kernel/linux-5.4.92-host.diff:15-16): none is written behind the   *)
(* buffer instead.                                                          *)
ExcessDropped == ~outside

(* "Append an endline to the end of the event." (hl-logger.c:276), of the   *)
(* records whose texts fitted:                                              *)
EndlineAppended ==
    [][End /\ Length >= MINLEN /\ ~truncated => event'[Len(event')] = NL]_vars
=============================================================================
