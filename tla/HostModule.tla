------------------------------ MODULE HostModule ------------------------------
(***************************************************************************)
(* Loading and unloading the host's module under threads that log:         *)
(*   the module   hardlog_enable_init/exit      host/module/hl-main.c      *)
(*                hardlog_logger_setup/teardown host/module/hl-logger.c    *)
(*   the flusher  hardlog_auditd_thread and its final flush, hl-main.c     *)
(*   the hooks    kernel/audit.c in host/kernel/linux-5.4.92-host.diff     *)
(*   kauditd      the kernel's own audit thread, parked while hardlog is   *)
(*                active (same diff)                                       *)
(*                                                                         *)
(* Each hook tests hardlog_active anew, so that one record may be diverted *)
(* in part.  A record is a list of fields, numbered, of which the first is *)
(* the stamp that audit_log_start itself prints; it takes 1..EVENTSIZE     *)
(* cells of the ring.                                                      *)
(*                                                                         *)
(* Of a flush this module has the range that usb_write is called with, and *)
(* the tail that moves over it whatever the call returns.  Which of these  *)
(* bytes then reach the device, with an unaligned start, through tmpbuf    *)
(* and the slack and on failing bios, is modelled in HostBuf.              *)
(***************************************************************************)
EXTENDS Integers, Sequences, FiniteSets

CONSTANTS
    Threads,     \* kernel threads that log
    NoThread,    \* holder of the free mutex
    CBUFFSIZE,   \* HARDLOG_AUDIT_CBUFFSIZE
    EVENTSIZE,   \* the longest record, in cells of the ring
    Fields,      \* fields of a record
    MaxRecords,  \* no record starts once this many did
    MaxLoads     \* the module is loaded this often

ASSUME HostModuleAssumption ==
    /\ NoThread \notin Threads
    /\ CBUFFSIZE \in Nat \ {0} /\ EVENTSIZE \in 1..CBUFFSIZE
    /\ Fields \in Nat \ {0}
    /\ MaxRecords \in Nat /\ MaxLoads \in Nat

VARIABLES
    mpc,              \* how far insmod or rmmod is
    loads,            \* how often the module was loaded
    device,           \* whether usb_open was called and usb_close was not
    ring,             \* audit_cbuff.buffer: "none", "ready" or "freed"
    hardlog_active,   \* the kernel's flag
    head, tail,       \* audit_cbuff.head, audit_cbuff.tail
    stream,           \* stream[p]: the record last copied to position p
    asked,            \* the positions that usb_write was called for
    fpc,              \* where the flusher is
    start, end,       \* its snapshot of tail and head
    lock,             \* hardlog_audit_producer: its holder
    pc,               \* pc[t]: where t is with its record
    record,           \* record[t]: the record t is making
    cbuff_head,       \* cbuff_head[t]: the head as t last read it
    started,          \* records started
    audit_queue,      \* records that wait for kauditd
    sent,             \* records kauditd sent
    kpc,              \* where kauditd is
    sentMeanwhile     \* records it sent since hardlog_active was last set

moduleVars == <<mpc, loads, device, ring, hardlog_active>>
bufVars == <<head, tail, stream, asked>>
flusherVars == <<fpc, start, end>>
threadVars == <<lock, pc, record, cbuff_head, started>>
kauditdVars == <<sent, kpc, sentMeanwhile>>
vars == <<moduleVars, bufVars, flusherVars, threadVars, audit_queue, kauditdVars>>

(* A record: its number, the fields in its hardlog_event_buffer and in its *)
(* netlink message, how many were printed, which values of hardlog_active  *)
(* the hooks saw, and hardlog_event_consumed at its end.                   *)
NewRecord(id, active) ==
    [id |-> id, event |-> <<>>, native |-> <<>>, fields |-> 0, saw |-> {active}, len |-> 0]
Nothing == NewRecord(0, FALSE)
NoCells == [p \in {} |-> Nothing]

Init ==
    /\ mpc = "out" /\ loads = 0 /\ device = "closed" /\ ring = "none"
    /\ hardlog_active = FALSE
    /\ head = 0 /\ tail = 0 /\ stream = NoCells /\ asked = {}
    /\ fpc = "none" /\ start = 0 /\ end = 0
    /\ lock = NoThread
    /\ pc = [t \in Threads |-> "idle"]
    /\ record = [t \in Threads |-> Nothing]
    /\ cbuff_head = [t \in Threads |-> 0]
    /\ started = 0
    /\ audit_queue = <<>> /\ sent = <<>> /\ kpc = "queue" /\ sentMeanwhile = 0
-----------------------------------------------------------------------------
(* insmod: hardlog_enable_init and hardlog_logger_setup. *)

(* A module that is loaded again starts with its data as it was compiled.   *)
UsbOpen ==
    /\ mpc = "out" /\ loads < MaxLoads
    /\ mpc' = "opened" /\ device' = "open" /\ loads' = loads + 1
    /\ ring' = "none"
    /\ head' = 0 /\ tail' = 0 /\ stream' = NoCells /\ asked' = {}
    /\ UNCHANGED <<hardlog_active, flusherVars, threadVars, audit_queue, kauditdVars>>

(* The flusher starts on a ring that is empty and not there yet, with       *)
(* locals that it sets before it uses them.                                 *)
StartThread ==
    /\ mpc = "opened"
    /\ mpc' = "threaded" /\ fpc' = "loop"
    /\ start' = 0 /\ end' = 0
    /\ UNCHANGED <<loads, device, ring, hardlog_active, bufVars,
                   threadVars, audit_queue, kauditdVars>>

MakeRing ==
    /\ mpc = "threaded"
    /\ mpc' = "made"
    /\ ring' = "ready"
    /\ head' = 0 /\ tail' = 0
    /\ UNCHANGED <<loads, device, hardlog_active, stream, asked, flusherVars,
                   threadVars, audit_queue, kauditdVars>>

ActivateIn(phases) ==
    /\ mpc \in phases /\ ~hardlog_active
    /\ mpc' = IF mpc = "made" THEN "in" ELSE mpc
    /\ hardlog_active' = TRUE
    /\ sentMeanwhile' = 0
    /\ UNCHANGED <<loads, device, ring, bufVars, flusherVars, threadVars,
                   audit_queue, sent, kpc>>

ActivateEarly == ActivateIn({"threaded", "made"})

(* Only then do the hooks divert records. *)
Activate == ActivateIn({"made"})

(* A thread, a device node, a ring or a symbol is not to be had: insmod     *)
(* returns -1, and undoes nothing.                                          *)
LoadFails ==
    /\ mpc \in {"opened", "threaded", "made"}
    /\ mpc' = "failed"
    /\ UNCHANGED <<loads, device, ring, hardlog_active, bufVars, flusherVars,
                   threadVars, audit_queue, kauditdVars>>
-----------------------------------------------------------------------------
(* rmmod: hardlog_enable_exit and hardlog_logger_teardown. *)

(* kthread_stop: tells the flusher to stop, and waits until it has. *)
StopThread ==
    /\ mpc = "in"
    /\ mpc' = "stopping"
    /\ UNCHANGED <<loads, device, ring, hardlog_active, bufVars, flusherVars,
                   threadVars, audit_queue, kauditdVars>>

UsbCloseWhen(ready) ==
    /\ mpc = "stopping" /\ ready
    /\ mpc' = "closed" /\ device' = "closed"
    /\ UNCHANGED <<loads, ring, hardlog_active, bufVars, flusherVars,
                   threadVars, audit_queue, kauditdVars>>

UsbCloseAtOnce == UsbCloseWhen(TRUE)

UsbClose == UsbCloseWhen(fpc = "done")

(* The mutex is unlocked too, whoever holds it. *)
Deactivate ==
    /\ mpc = "closed"
    /\ mpc' = "inactive"
    /\ hardlog_active' = FALSE
    /\ lock' = NoThread
    /\ UNCHANGED <<loads, device, ring, bufVars, flusherVars,
                   pc, record, cbuff_head, started, audit_queue, kauditdVars>>

FreeRing ==
    /\ mpc = "inactive"
    /\ mpc' = "freed" /\ ring' = "freed"
    /\ UNCHANGED <<loads, device, hardlog_active, bufVars, flusherVars,
                   threadVars, audit_queue, kauditdVars>>

AwakeNot(k) == k

(* wake_up of kauditd's wait queues. *)
Awake(k) == IF k = "asleep" THEN "test" ELSE k

Wake ==
    /\ mpc = "freed"
    /\ mpc' = "woken"
    /\ kpc' = Awake(kpc)
    /\ UNCHANGED <<loads, device, ring, hardlog_active, bufVars, flusherVars,
                   threadVars, audit_queue, sent, sentMeanwhile>>

InSection(t) == pc[t] \in {"space", "copy", "load", "store", "unlock"}
Inside(t) == InSection(t) \/ pc[t] \in {"lock", "wait"}

(* The module is gone, and with it the code that threads inside it would   *)
(* return to.                                                              *)
Unloaded ==
    /\ mpc = "woken"
    /\ mpc' = "out" /\ fpc' = "none"
    /\ pc' = [t \in Threads |-> IF Inside(t) THEN "dead" ELSE pc[t]]
    /\ lock' = NoThread
    /\ UNCHANGED <<loads, device, ring, hardlog_active, bufVars, start, end,
                   record, cbuff_head, started, audit_queue, kauditdVars>>
-----------------------------------------------------------------------------
(* The hooks in kernel/audit.c. *)

To(t, where) == pc' = [pc EXCEPT ![t] = where]

(* audit_log_start: while hardlog is active the record gets a buffer of its *)
(* own; otherwise hardlog_event_buffer is what the recycled audit_buffer    *)
(* held.                                                                    *)
Start(t) ==
    /\ pc[t] = "idle" /\ started < MaxRecords
    /\ started' = started + 1
    /\ record' = [record EXCEPT ![t] = NewRecord(started', hardlog_active)]
    /\ To(t, "fields")
    /\ UNCHANGED <<moduleVars, bufVars, flusherVars, lock, cbuff_head, audit_queue, kauditdVars>>

(* One field printed: to the event if hardlog is active, to the netlink     *)
(* message if it is not or if the hook goes on after its call.              *)
PutField(t, toEvent, toNative) ==
    LET r == record[t]
        n == r.fields + 1
    IN  /\ pc[t] = "fields" /\ r.fields < Fields
        /\ record' = [record EXCEPT ![t] =
               [r EXCEPT !.fields = n, !.saw = @ \cup {hardlog_active},
                         !.event = IF toEvent THEN Append(@, n) ELSE @,
                         !.native = IF toNative THEN Append(@, n) ELSE @]]
        /\ UNCHANGED <<moduleVars, bufVars, flusherVars, lock, pc, cbuff_head, started,
                       audit_queue, kauditdVars>>

(* audit_log_format and audit_log_n_untrustedstring choose one of the two.  *)
Format(t) == PutField(t, hardlog_active, ~hardlog_active)

NHexNative(t) == PutField(t, FALSE, TRUE)

(* audit_log_n_hex and audit_log_n_string go on to the native message.      *)
NHex(t) == PutField(t, hardlog_active, TRUE)

Ends(t) == pc[t] = "fields" /\ record[t].fields = Fields

(* audit_log_end without hardlog: the record is queued and kauditd woken.   *)
Queued(t) == audit_queue' = Append(audit_queue, [record[t] EXCEPT !.saw = @ \cup {FALSE}])

EndNative(t) ==
    /\ Ends(t) /\ ~hardlog_active
    /\ Queued(t)
    /\ record' = [record EXCEPT ![t] = Nothing]
    /\ To(t, "idle")
    /\ UNCHANGED <<moduleVars, bufVars, flusherVars, lock, cbuff_head, started, kauditdVars>>

EndActive(t) ==
    /\ \E n \in 1..EVENTSIZE :
           record' = [record EXCEPT ![t] =
               [record[t] EXCEPT !.saw = @ \cup {TRUE}, !.len = n]]
    /\ To(t, "lock")
    /\ UNCHANGED <<moduleVars, bufVars, flusherVars, lock, cbuff_head, started, kauditdVars>>

EndHardlogAndNative(t) == Ends(t) /\ hardlog_active /\ Queued(t) /\ EndActive(t)

(* audit_log_end with hardlog: audit_log_end_hardlog, and nothing else.     *)
EndHardlog(t) == Ends(t) /\ hardlog_active /\ EndActive(t) /\ UNCHANGED audit_queue

(* A record of less than 35 characters is dropped.  What the buffer holds  *)
(* that no audit_log_start_hardlog made is undefined: it may be short too.  *)
EndShort(t) ==
    /\ Ends(t) /\ hardlog_active
    /\ record' = [record EXCEPT ![t] = Nothing]
    /\ To(t, "idle")
    /\ UNCHANGED <<moduleVars, bufVars, flusherVars, lock, cbuff_head, started,
                   audit_queue, kauditdVars>>
-----------------------------------------------------------------------------
(* The rest of audit_log_end_hardlog, as in HostBuf. *)

LockProducerWhen(t, free) ==
    /\ pc[t] = "lock" /\ free
    /\ lock' = t /\ To(t, "space")
    /\ UNCHANGED <<moduleVars, bufVars, flusherVars, record, cbuff_head, started,
                   audit_queue, kauditdVars>>

LockProducerUntested(t) == LockProducerWhen(t, TRUE)

LockProducer(t) == LockProducerWhen(t, lock = NoThread)

(* The difference is unsigned: a tail ahead of the head leaves no space.    *)
MakeSpace(t) ==
    /\ pc[t] = "space"
    /\ head - tail \in 0..(CBUFFSIZE - 1)
    /\ cbuff_head' = [cbuff_head EXCEPT ![t] = head]
    /\ To(t, "copy")
    /\ UNCHANGED <<moduleVars, bufVars, flusherVars, lock, record, started,
                   audit_queue, kauditdVars>>

(* The positions that t copies its record to.                               *)
Cells(t) == cbuff_head[t]..(cbuff_head[t] + record[t].len - 1)

(* memcpy, to where the head was when t saw room.                           *)
CopyEvent(t) ==
    /\ pc[t] = "copy" /\ ring = "ready"
    /\ stream' = [p \in DOMAIN stream \cup Cells(t) |->
                     IF p \in Cells(t) THEN record[t] ELSE stream[p]]
    /\ To(t, "load")
    /\ UNCHANGED <<moduleVars, head, tail, asked, flusherVars, lock, record, cbuff_head,
                   started, audit_queue, kauditdVars>>

(* A copy to the ring when it was freed ends in a page fault. *)
CopyFaults(t) ==
    /\ pc[t] = "copy" /\ ring = "freed"
    /\ To(t, "dead")
    /\ UNCHANGED <<moduleVars, bufVars, flusherVars, lock, record, cbuff_head, started,
                   audit_queue, kauditdVars>>

(* The head is read and then written: with the mutex unlocked by            *)
(* hardlog_logger_teardown another thread may do the same in between.       *)
LoadHead(t) ==
    /\ pc[t] = "load"
    /\ cbuff_head' = [cbuff_head EXCEPT ![t] = head]
    /\ To(t, "store")
    /\ UNCHANGED <<moduleVars, bufVars, flusherVars, lock, record, started,
                   audit_queue, kauditdVars>>

StoreHead(t) ==
    /\ pc[t] = "store"
    /\ head' = cbuff_head[t] + record[t].len
    /\ To(t, "unlock")
    /\ UNCHANGED <<moduleVars, tail, stream, asked, flusherVars, lock, record, cbuff_head,
                   started, audit_queue, kauditdVars>>

(* The mark is read again from the head, and the mutex unlocked, whoever    *)
(* holds it by now.  A prioritised call then waits.                         *)
UnlockProducer(t) ==
    /\ pc[t] = "unlock"
    /\ lock' = NoThread
    /\ record' = [record EXCEPT ![t] = Nothing]
    /\ \/ To(t, "wait") /\ cbuff_head' = [cbuff_head EXCEPT ![t] = head]
       \/ To(t, "idle") /\ cbuff_head' = [cbuff_head EXCEPT ![t] = 0]
    /\ UNCHANGED <<moduleVars, bufVars, flusherVars, started, audit_queue, kauditdVars>>

WaitFlushed(t) ==
    /\ pc[t] = "wait"
    /\ tail >= cbuff_head[t]
    /\ To(t, "idle") /\ cbuff_head' = [cbuff_head EXCEPT ![t] = 0]
    /\ UNCHANGED <<moduleVars, bufVars, flusherVars, lock, record, started,
                   audit_queue, kauditdVars>>
-----------------------------------------------------------------------------
(* The flusher. *)

HasCode == mpc \notin {"out", "failed"}

Snapshot ==
    /\ HasCode /\ fpc = "loop" /\ mpc # "stopping"
    /\ head # tail
    /\ start' = tail /\ end' = head
    /\ fpc' = "write"
    /\ UNCHANGED <<moduleVars, bufVars, threadVars, audit_queue, kauditdVars>>

(* usb_write is called, and the tail moves whatever it returns. *)
Flush(cells, newTail, then) ==
    /\ asked' = asked \cup cells
    /\ tail' = newTail
    /\ fpc' = then
    /\ UNCHANGED <<moduleVars, head, stream, start, end, threadVars,
                   audit_queue, kauditdVars>>

WriteRound == HasCode /\ fpc = "write" /\ Flush(start..(end - 1), end, "loop")

LeaveLoopWhen(ready) ==
    /\ HasCode /\ fpc = "loop" /\ mpc = "stopping" /\ ready
    /\ start' = tail /\ end' = head
    /\ fpc' = "final"
    /\ UNCHANGED <<moduleVars, bufVars, threadVars, audit_queue, kauditdVars>>

LeaveLoopEmpty == LeaveLoopWhen(head = tail)

(* kthread_should_stop: the loop is left, between two rounds, and head and  *)
(* tail are read for the last time.                                         *)
LeaveLoop == LeaveLoopWhen(TRUE)

(* The final flush works on slots: from the tail's to the head's, or from  *)
(* slot 0 if the range wraps.  The tail becomes a slot, too.               *)
endSlot == end % CBUFFSIZE
startSlot == IF endSlot < start % CBUFFSIZE THEN 0 ELSE start % CBUFFSIZE
finalCells == (end - endSlot + startSlot)..(end - 1)

FlushLast(cells) ==
    /\ HasCode /\ fpc = "final"
    /\ Flush(cells, IF cells = {} THEN tail ELSE endSlot, "done")

FinalFlushOneShort == FlushLast(finalCells \ {end - 1})

FinalFlush == FlushLast(finalCells)
-----------------------------------------------------------------------------
(* kauditd. *)

(* It sends one record and then looks whether it should sleep. *)
Send ==
    /\ kpc = "queue" /\ audit_queue # <<>>
    /\ sent' = Append(sent, Head(audit_queue))
    /\ audit_queue' = Tail(audit_queue)
    /\ sentMeanwhile' = IF hardlog_active THEN sentMeanwhile + 1 ELSE sentMeanwhile
    /\ kpc' = "test"
    /\ UNCHANGED <<moduleVars, bufVars, flusherVars, threadVars>>

ParkWith(k) ==
    /\ kpc = "test"
    /\ kpc' = k
    /\ UNCHANGED <<moduleVars, bufVars, flusherVars, threadVars, audit_queue,
                   sent, sentMeanwhile>>

ParkNever == ParkWith("queue")

(* wait_event_interruptible: asleep before the flag is tested, so that a    *)
(* wake_up that follows the flag's change is not missed.                    *)
Park == ParkWith(IF hardlog_active THEN "asleep" ELSE "queue")
-----------------------------------------------------------------------------
Insmod == \/ UsbOpen \/ StartThread \/ MakeRing \/ Activate \/ LoadFails
Rmmod == UsbClose \/ Deactivate \/ FreeRing \/ Wake \/ Unloaded
Hook(t) == Start(t) \/ Format(t) \/ NHex(t) \/ EndNative(t) \/ EndHardlog(t) \/ EndShort(t)
Producer(t) == \/ LockProducer(t) \/ MakeSpace(t) \/ CopyEvent(t) \/ CopyFaults(t)
               \/ LoadHead(t) \/ StoreHead(t) \/ UnlockProducer(t) \/ WaitFlushed(t)
Flusher == Snapshot \/ WriteRound \/ LeaveLoop \/ FinalFlush
Kauditd == Send \/ Park

Next == \/ Insmod \/ StopThread \/ Rmmod \/ Flusher \/ Kauditd
        \/ \E t \in Threads : Hook(t) \/ Producer(t)

Spec == Init /\ [][Next]_vars

(* rmmod goes on once it has begun, the flusher and kauditd are scheduled.  *)
FairSpec == Spec /\ WF_vars(Rmmod) /\ WF_vars(Flusher) /\ WF_vars(Kauditd)
=============================================================================
