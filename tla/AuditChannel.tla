---------------------------- MODULE AuditChannel ----------------------------
(***************************************************************************)
(* What HostBuf promises the kernel threads that log through it, with no   *)
(* ring, no lock and no device: one append-only stream of bytes of which a *)
(* prefix has been flushed.  A thread appends one event at a time; the     *)
(* thread of a prioritised system call goes on only when the flushed       *)
(* prefix has reached the end of its event; and the part that is not       *)
(* flushed never exceeds Backlog bytes.                                    *)
(***************************************************************************)
EXTENDS Integers

CONSTANTS
    Threads,    \* the kernel threads that log
    MaxEvent,   \* the longest event, in bytes
    Backlog     \* the most bytes that are ever appended and not yet flushed

VARIABLES
    appended,   \* length of the stream
    flushed,    \* length of its flushed prefix
    waitsFor    \* waitsFor[t]: the prefix t waits for, 0 when it does not wait

vars == <<appended, flushed, waitsFor>>

Init ==
    /\ appended = 0
    /\ flushed = 0
    /\ waitsFor = [t \in Threads |-> 0]

(* An event of n bytes is appended; mark is what its thread then waits for. *)
Append(t, n, mark) ==
    /\ waitsFor[t] = 0
    /\ appended + n - flushed <= Backlog
    /\ appended' = appended + n
    /\ mark \in {0, appended'}
    /\ waitsFor' = [waitsFor EXCEPT ![t] = mark]
    /\ UNCHANGED flushed

(* The flushed prefix grows, to the end of the stream at most. *)
Flush(upTo) ==
    /\ upTo \in flushed..appended
    /\ flushed' = upTo
    /\ UNCHANGED <<appended, waitsFor>>

(* A waiting thread goes on. *)
Return(t) ==
    /\ waitsFor[t] # 0
    /\ waitsFor[t] <= flushed
    /\ waitsFor' = [waitsFor EXCEPT ![t] = 0]
    /\ UNCHANGED <<appended, flushed>>

Next ==
    \/ \E t \in Threads, n \in 1..MaxEvent :
           \E mark \in {0, appended + n} : Append(t, n, mark)
    \/ \E upTo \in flushed..appended : Flush(upTo)
    \/ \E t \in Threads : Return(t)

Spec == Init /\ [][Next]_vars
=============================================================================
