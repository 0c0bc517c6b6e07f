------------------------------ MODULE Retrieval ------------------------------
(***************************************************************************)
(* How the administrator gets the log back.                                *)
(*   client   start_device_communication   host/library/device.cpp,        *)
(*            through hl-ioctl.c, hl-request.c and hl-response.c           *)
(*   gadget   do_write on LUN 1            device/module/*.diff            *)
(*   library  start_device_communication, handle_command, commit           *)
(*                                         device/library                  *)
(* Two files of the device are shared: comm, behind LUN 1, takes the       *)
(* command and later the word READY; resp, behind LUN 2, takes the answer. *)
(* The client sends the command ALL.  Sizes are in sectors; a sector of an *)
(* answer is known by the dump it belongs to and its place in it.          *)
(* A poll that fails leaves the client as it was and is not an action.     *)
(***************************************************************************)
EXTENDS Integers, Sequences

CONSTANTS
    Sizes,       \* sizes that an answer may have once it is compressed
    Base,        \* 10, the base in which to_string writes a size
    DumpLimit,   \* 100 MB, from which on dump_log refuses
    Faults,      \* what may happen to the write of a command, see Submit
    MaxEnd,      \* bound on the log
    MaxRequests  \* bound on the client's commands

ASSUME RetrievalAssumption ==
    /\ Sizes \subseteq Nat \ {0}
    /\ \E n \in Sizes : \A m \in Sizes : m <= n   \* the response file's is one
    /\ Base \in Nat \ {0, 1}
    /\ DumpLimit \in Nat /\ MaxEnd \in Nat /\ MaxRequests \in Nat
    /\ Faults \subseteq {"lost", "broken", "repeated"}

VARIABLES
    cpc, requests,      \* where the client is, and how often it has asked
    since,              \* file_end_offset when it last asked
    request_buffer,     \* the host's copy of comm, which the client reads
    response_size, hrsp,\* what READY said, and the sectors read so far
    answer,             \* what the client last wrote to response.gz
    gpc,                \* where the gadget is with a command
    server_request,     \* the flag between gadget and library
    comm, resp,         \* the files behind LUN 1 and LUN 2
    lpc, hreq,          \* where the library is, and its copy of the flag
    log_end,            \* log_file_end_offset
    tmp,                \* the file "response.gz": the last dump
    written,            \* sectors of it copied to resp
    file_end_offset     \* what the device's flusher has written of the log

clientVars == <<cpc, requests, since, response_size, hrsp, answer>>
gadgetVars == <<gpc, server_request>>
libraryVars == <<lpc, hreq, log_end, tmp, written>>
vars == <<clientVars, request_buffer, gadgetVars, comm, resp, libraryVars,
          file_end_offset>>

(* The number that digits denote, and the digits of a number. *)
Value(digits) ==
    LET upTo[i \in 0..Len(digits)] ==
            IF i = 0 THEN 0 ELSE Base * upTo[i - 1] + digits[i]
    IN  upTo[Len(digits)]
Digits(n) ==
    CHOOSE d \in UNION {[1..k -> 0..(Base - 1)] : k \in 1..(n + 1)} :
        Value(d) = n /\ (d[1] = 0 => Len(d) = 1)

(* Writing a over the start of b. *)
Over(a, b) == a \o SubSeq(b, Len(a) + 1, Len(b))

MaxSize == CHOOSE n \in Sizes : \A m \in Sizes : m <= n
Sectors == 1..(Value([i \in 1..Len(Digits(MaxSize)) |-> Base - 1]))

NoDump == [of |-> "none", end |-> 0, size |-> 0]
Dumps == [of : {"ALL", "FILTER"}, end : 0..MaxEnd, size : Sizes] \cup {NoDump}
Sector(dump, i) == [dump |-> dump, at |-> i]

(* What comm holds: a word, and the digits that stand behind its fifth     *)
(* character whether or not the word is READY.                             *)
Text(word, digits) == [word |-> word, digits |-> digits]

Init ==
    /\ cpc = "idle" /\ requests = 0 /\ since = 0
    /\ request_buffer = Text("none", <<>>)
    /\ response_size = 0 /\ hrsp = <<>> /\ answer = <<>>
    /\ gpc = "idle" /\ server_request = FALSE
    /\ comm = Text("none", <<>>)
    /\ resp = [i \in Sectors |-> Sector(NoDump, 0)]
    /\ lpc = "loop" /\ hreq = FALSE /\ log_end = 0
    /\ tmp = NoDump /\ written = 0
    /\ file_end_offset = 0

LogGrows ==
    /\ file_end_offset < MaxEnd
    /\ file_end_offset' = file_end_offset + 1
    /\ UNCHANGED <<clientVars, request_buffer, gadgetVars, comm, resp, libraryVars>>
-----------------------------------------------------------------------------
(* The client. *)

(* SENDREQUEST.  "ALL" and its terminator take the first five characters   *)
(* of the buffer, what the last poll left behind them stays.  The write    *)
(* reaches the device, or is lost, or breaks off with nothing stored.      *)
Submit ==
    /\ cpc = "idle"
    /\ requests < MaxRequests
    /\ requests' = requests + 1
    /\ since' = file_end_offset
    /\ request_buffer' = Text("ALL", request_buffer.digits)
    /\ cpc' = "sending"
    /\ \/ gpc' = "store"
       \/ "lost" \in Faults /\ gpc' = "done"
       \/ "broken" \in Faults /\ gpc' = "flag"
    /\ UNCHANGED <<response_size, hrsp, answer, server_request, comm, resp,
                   libraryVars, file_end_offset>>

(* submit_bio_wait returns; its result goes no further than the module. *)
Sent ==
    /\ cpc = "sending" /\ gpc = "done"
    /\ cpc' = "poll" /\ gpc' = "idle"
    /\ UNCHANGED <<requests, since, request_buffer, response_size, hrsp, answer,
                   server_request, comm, resp, libraryVars, file_end_offset>>

(* CHECKRESPONSEREADY, is_response_ready and get_response_size. *)
Poll ==
    /\ cpc = "poll"
    /\ request_buffer' = comm
    /\ IF comm.word = "READY"
       THEN cpc' = "read" /\ response_size' = Value(comm.digits) /\ hrsp' = <<>>
       ELSE UNCHANGED <<cpc, response_size, hrsp>>
    /\ UNCHANGED <<requests, since, answer, gadgetVars, comm, resp, libraryVars,
                   file_end_offset>>

(* READRESPONSE reads sector by sector. *)
ReadSector ==
    /\ cpc = "read"
    /\ Len(hrsp) < response_size
    /\ hrsp' = Append(hrsp, resp[Len(hrsp) + 1])
    /\ UNCHANGED <<cpc, requests, since, request_buffer, response_size, answer,
                   gadgetVars, comm, resp, libraryVars, file_end_offset>>

Record ==
    /\ cpc = "read"
    /\ Len(hrsp) >= response_size
    /\ answer' = hrsp
    /\ cpc' = "idle"
    /\ UNCHANGED <<requests, since, request_buffer, response_size, hrsp,
                   gadgetVars, comm, resp, libraryVars, file_end_offset>>
-----------------------------------------------------------------------------
(* The gadget: do_write on LUN 1. *)

StoreCommand ==
    /\ gpc = "store"
    /\ comm' = request_buffer
    /\ gpc' = "flag"
    /\ UNCHANGED <<clientVars, request_buffer, server_request, resp, libraryVars,
                   file_end_offset>>

(* Set when do_write is over, however it went.  A host that has not heard  *)
(* of the end in time may send the same command again.                     *)
FlagCommand ==
    /\ gpc = "flag"
    /\ server_request' = TRUE
    /\ \/ gpc' = "done"
       \/ "repeated" \in Faults /\ gpc' = "store"
    /\ UNCHANGED <<clientVars, request_buffer, comm, resp, libraryVars,
                   file_end_offset>>
-----------------------------------------------------------------------------
(* The library. *)

CheckFlagAt(end) ==
    /\ lpc = "loop"
    /\ hreq' = server_request
    /\ log_end' = end
    /\ lpc' = "clear"
    /\ UNCHANGED <<clientVars, request_buffer, gadgetVars, comm, resp, tmp,
                   written, file_end_offset>>

CheckFlagEndOnce == CheckFlagAt(IF log_end = 0 THEN file_end_offset ELSE log_end)

(* The REQUEST ioctl copies the flag and the end of the log ... *)
CheckFlag == CheckFlagAt(file_end_offset)

ClearAnd(handled) ==
    /\ lpc = "clear"
    /\ server_request' = FALSE
    /\ lpc' = IF handled THEN "command" ELSE "loop"
    /\ UNCHANGED <<clientVars, request_buffer, gpc, comm, resp, hreq, log_end, tmp,
                   written, file_end_offset>>

ClearFlagForgets == ClearAnd(FALSE)

(* ... and clears the flag as it then is; the library goes by its copy. *)
ClearFlag == ClearAnd(hreq)

(* handle_command: ALL is dumped up to log_end, unless that is too much,   *)
(* when the last dump is left as it was; anything else is taken for a      *)
(* filter, which the client never sends.  The compressed size is open.     *)
Decode ==
    /\ lpc = "command"
    /\ IF comm.word = "ALL" /\ log_end >= DumpLimit
       THEN UNCHANGED tmp
       ELSE \E n \in Sizes :
                tmp' = [of |-> IF comm.word = "ALL" THEN "ALL" ELSE "FILTER",
                        end |-> log_end, size |-> n]
    /\ written' = 0
    /\ lpc' = "commit"
    /\ UNCHANGED <<clientVars, request_buffer, gadgetVars, comm, resp, hreq, log_end,
                   file_end_offset>>

CommitUpTo(n) ==
    /\ lpc = "commit"
    /\ IF written < n
       THEN /\ written' = written + 1
            /\ resp' = [resp EXCEPT ![written'] = Sector(tmp, written')]
            /\ UNCHANGED lpc
       ELSE /\ lpc' = "ready"
            /\ UNCHANGED <<written, resp>>
    /\ UNCHANGED <<clientVars, request_buffer, gadgetVars, comm, hreq, log_end, tmp,
                   file_end_offset>>

CommitResponseShort == CommitUpTo(tmp.size - 1)

(* commit_response copies the dump over the start of the response file. *)
CommitResponse == CommitUpTo(tmp.size)

(* commit_response_message writes over the start of comm as well. *)
CommitMessage ==
    /\ lpc = "ready"
    /\ comm' = Text("READY", Over(Digits(tmp.size), comm.digits))
    /\ lpc' = "loop"
    /\ UNCHANGED <<clientVars, request_buffer, gadgetVars, resp, hreq, log_end, tmp,
                   written, file_end_offset>>
-----------------------------------------------------------------------------
Client == Sent \/ Poll \/ ReadSector \/ Record
Gadget == StoreCommand \/ FlagCommand
Library == CheckFlag \/ ClearFlag \/ Decode \/ CommitResponse \/ CommitMessage

Next == Submit \/ Client \/ Gadget \/ Library \/ LogGrows

Spec == Init /\ [][Next]_vars

(* Each is a loop of its own that only sleeps for a set time. *)
FairSpec == Spec /\ WF_vars(Client) /\ WF_vars(Gadget) /\ WF_vars(Library)
=============================================================================
