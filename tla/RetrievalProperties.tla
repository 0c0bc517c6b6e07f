------------------------- MODULE RetrievalProperties -------------------------
(* What the retrieval of the log has to keep, and what the comments beside  *)
(* the code say of it.                                                      *)
EXTENDS Retrieval

Texts == [word : {"none", "ALL", "READY"}, digits : Seq(0..(Base - 1))]

(* Every variable has its type; no read goes past the size announced, and   *)
(* every size that can be announced lies in the response file.              *)
TypeOK ==
    /\ cpc \in {"idle", "sending", "poll", "read"}
    /\ requests \in 0..MaxRequests
    /\ since \in 0..file_end_offset
    /\ request_buffer \in Texts /\ comm \in Texts
    /\ response_size \in Sectors \cup {0}
    /\ Len(hrsp) <= response_size
    /\ gpc \in {"idle", "store", "flag", "done"}
    /\ server_request \in BOOLEAN /\ hreq \in BOOLEAN
    /\ lpc \in {"loop", "clear", "command", "commit", "ready"}
    /\ tmp \in Dumps /\ written \in 0..tmp.size
    /\ log_end \in 0..file_end_offset

Whole(dump) == [i \in 1..dump.size |-> Sector(dump, i)]
Prefix(s, n) == SubSeq(s, 1, n)

(* While READY stands and the library is at rest, the response file holds   *)
(* all of the last dump and the announced size begins with its digits,      *)
(* whatever happened to the commands (commit: response first, then READY).  *)
AnnouncedHeld ==
    comm.word = "READY" /\ lpc \in {"loop", "clear"} =>
        /\ \A i \in 1..tmp.size : resp[i] = Sector(tmp, i)
        /\ Prefix(comm.digits, Len(Digits(tmp.size))) = Digits(tmp.size)

(* The end of the log that the client's last answer covers; -1 when it is   *)
(* not one whole dump of the log.                                           *)
Covers ==
    IF answer = <<>> THEN 0
    ELSE LET dump == answer[1].dump
         IN  IF dump.of = "ALL" /\ answer = Whole(dump) THEN dump.end ELSE -1

(* No command fails, every dump is within the limit, and all sizes have the *)
(* same number of digits.                                                   *)
Reliable ==
    /\ Faults = {} /\ MaxEnd < DumpLimit
    /\ \A m, n \in Sizes : Len(Digits(m)) = Len(Digits(n))

(* As long as that is so, the client gets whole dumps, each of a log at     *)
(* least as long as when it asked, though the device library and the client *)
(* only poll each other's files.                                            *)
Exchanged == INSTANCE Exchange
    WITH logged <- file_end_offset, asking <- cpc # "idle", answer <- Covers
ImplementsExchange == Exchanged!Spec

(* The flag is set between the ioctl's copy of it and its reset.            *)
Missed == lpc = "clear" /\ ~hreq /\ server_request

(* A command that reached the device is answered, unless its flag fell into *)
(* that window (REQUEST ioctl, diff:813-825).                               *)
AnsweredUnlessMissed == gpc = "store" ~> (cpc = "idle" \/ Missed)
-----------------------------------------------------------------------------
(* What the comments say and the code does not do.                          *)

(* "Now that we have sent the request to the library, we can assume it will *)
(* be completed by the library." (diff:821-822)                             *)
RequestCompleted == gpc = "store" ~> cpc = "idle"

(* "see if response is ready" (host/library/device.cpp:106): the READY that *)
(* the client goes by was written for the command it sent, after a dump     *)
(* made since.                                                              *)
ReadyAnswersCommand == cpc = "read" => tmp.of = "ALL" /\ tmp.end >= since

(* "ALL: send back all data received within the last epoch."                *)
(* (decode.cpp:40): the answer covers what was in the log when it was asked *)
(* for.                                                                     *)
AllSentBack == cpc = "idle" /\ requests > 0 => Covers >= since

(* "This file decodes commands sent by the server" (decode.cpp:4).          *)
DecodesCommands == lpc = "command" => comm.word = "ALL"

(* "FORMAT = READY <bytes>" (response.cpp:324): the size that the client    *)
(* reads is the size of the response.                                       *)
SizeAnnounced == cpc = "read" /\ lpc = "loop" => response_size = tmp.size
=============================================================================
