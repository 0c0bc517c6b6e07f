------------------------ MODULE HostModuleProperties ------------------------
(* What loading and unloading under load has to keep, and what the comments *)
(* beside the code say of it.                                               *)
EXTENDS HostModule, Functions

Record == [id : 0..MaxRecords, event : Seq(1..Fields), native : Seq(1..Fields),
           fields : 0..Fields, saw : SUBSET BOOLEAN, len : 0..EVENTSIZE]

(* Every variable has its type.                                             *)
TypeOK ==
    /\ mpc \in {"out", "opened", "threaded", "made", "in", "stopping", "closed",
                "inactive", "freed", "woken", "failed"}
    /\ loads \in 0..MaxLoads
    /\ device \in {"closed", "open"}
    /\ ring \in {"none", "ready", "freed"}
    /\ hardlog_active \in BOOLEAN
    /\ head \in Nat /\ tail \in Nat
    /\ DOMAIN stream \subseteq Nat /\ stream \in [DOMAIN stream -> Record]
    /\ asked \subseteq Nat
    /\ fpc \in {"none", "loop", "write", "final", "done"}
    /\ start \in Nat /\ end \in Nat
    /\ lock \in Threads \cup {NoThread}
    /\ pc \in [Threads -> {"idle", "fields", "lock", "space", "copy", "load", "store",
                           "unlock", "wait", "dead"}]
    /\ record \in [Threads -> Record]
    /\ cbuff_head \in [Threads -> Nat]
    /\ started \in 0..MaxRecords
    /\ audit_queue \in Seq(Record) /\ sent \in Seq(Record)
    /\ kpc \in {"queue", "test", "asleep"}
    /\ sentMeanwhile \in Nat

(* A record is diverted only while there is a ring to copy it to and a      *)
(* module to copy it: the flag is set after everything that may fail, and   *)
(* cleared before anything is freed (hl-logger.c, setup and teardown).      *)
DivertedToRing == hardlog_active => ring = "ready" /\ mpc \notin {"out", "failed"}

(* Whatever rmmod does meanwhile, the flusher writes to an open device and  *)
(* from a ring that is not freed (hl-main.c, kthread_stop before usb_close).*)
WritesWithMeans == fpc \in {"write", "final"} /\ mpc # "failed" =>
                       device = "open" /\ (head # tail => ring = "ready")

Whole == [i \in 1..Fields |-> i]

(* However hooks, loads and unloads interleave, a record of which every     *)
(* hook saw the same value of hardlog_active is complete where it ends up,  *)
(* in the ring or with kauditd (diff, the hooks of kernel/audit.c).         *)
WholeRecords ==
    /\ \A r \in Range(stream) : r.saw = {TRUE} => r.event = Whole
    /\ \A r \in Range(audit_queue \o sent) : r.saw = {FALSE} => r.native = Whole

Ids(s) == {r.id : r \in Range(s)}

(* No record is both logged by hardlog and handed to kauditd, none is       *)
(* handed to kauditd twice (audit_log_end's return).                        *)
OneSide ==
    /\ Ids(stream) \cap Ids(audit_queue \o sent) = {}
    /\ Cardinality(Ids(audit_queue \o sent)) = Len(audit_queue \o sent)

(* kauditd gets rid of at most one record from when hardlog becomes active  *)
(* until it is no longer ("Essentially, stop kaudit and rely on Hardlog     *)
(* now", diff:213), even if records that ended before keep being queued.    *)
KauditdQuiet == hardlog_active => sentMeanwhile <= 1

(* What the flusher hands to usb_write are cells of records that were       *)
(* copied as a whole and that no other record was copied over since, also   *)
(* when unload unlocks the producers' mutex while one of them is between    *)
(* make_space_in_cbuff and the head's update (hl-logger.c:283-306, :409).   *)
WholeAt(q, r) == \A i \in q..(q + r.len - 1) : i \in DOMAIN stream /\ stream[i] = r
AskedIntact ==
    \A p \in asked :
        /\ p \in DOMAIN stream
        /\ \E q \in 0..p : p < q + stream[p].len /\ WholeAt(q, stream[p])

(* usb_write was called for all that was logged when the flusher last       *)
(* looked, over all rounds and the final flush, if the backlog at the end   *)
(* does not pass the end of the ring (hl-main.c:310-316: the reduced        *)
(* indices are in order).  What usb_write sends of it is not said here.     *)
BacklogAsked ==
    fpc = "done" /\ start \div CBUFFSIZE = end \div CBUFFSIZE => 0..(end - 1) \subseteq asked

(* After an unload kauditd sends whatever is queued, however it was parked  *)
(* when hardlog became active ("Also send a wake-up request, if kauditd is  *)
(* sleeping", hl-main.c:390): the wake-up is not lost.                      *)
KauditdTakesOver == mpc = "out" /\ audit_queue # <<>> ~> audit_queue = <<>> \/ hardlog_active

(* rmmod comes to its end, though threads keep logging and waiting: the     *)
(* flusher that it waits for waits for nobody (kthread_stop).               *)
UnloadEnds == mpc = "stopping" ~> mpc = "out"
-----------------------------------------------------------------------------
(* What the comments say and the code does not do.                          *)

(* "Write whatever is left to USB device too. This is to handle some corner *)
(* cases on the HostBuf." (hl-main.c:308)  usb_write is not even called for *)
(* all of it.                                                               *)
FinalFlushAll == fpc = "done" => 0..(end - 1) \subseteq asked

(* "The remaining logs should be handled by kauditd." (hl-main.c:390): a    *)
(* record that was copied was handed to usb_write, or is with kauditd.  Of  *)
(* the backlogs that the final flush takes as a whole:                      *)
RemainingHandled ==
    mpc = "out" /\ start \div CBUFFSIZE = end \div CBUFFSIZE =>
        \A p \in DOMAIN stream : p \in asked \/ stream[p].id \in Ids(audit_queue \o sent)

(* A load that fails leaves none of the module behind.                      *)
FailureUndone == mpc = "failed" => fpc = "none" /\ device = "closed"

(* No thread is in audit_log_end_hardlog when its code and ring go.         *)
NoneInside == mpc = "freed" => \A t \in Threads : ~Inside(t)

(* No record is split between hardlog and kauditd.                          *)
NoSplit ==
    \A r \in Range(stream) \cup Range(audit_queue \o sent) : Cardinality(r.saw) = 1
=============================================================================
