------------------------------- MODULE Response -------------------------------
(***************************************************************************)
(* How the device library makes an answer (device/library/response.cpp):   *)
(* the log is dumped, or filtered, to a temporary file, which is           *)
(* compressed and copied to the file behind LUN 2.  Dump and copy go by     *)
(* chunks, one action each, while the device's flusher appends to the log.  *)
(* Of a character the model knows its kind and its place in the log.        *)
(* The dump starts at 0, as the gadget never moves file_start_offset.       *)
(***************************************************************************)
EXTENDS Integers, Sequences, FiniteSetsExt

CONSTANTS
    CHUNK,       \* 128 KB, of tmpbuf, trimbuf and readbuf
    DumpLimit,   \* 100 MB, from which on dump_log refuses
    ZipSizes,    \* sizes that pigz may make of a file
    MaxLog,      \* bound on the log
    MaxRequests  \* bound on the requests

ASSUME ResponseAssumption ==
    /\ CHUNK \in Nat \ {0} /\ DumpLimit \in Nat
    /\ ZipSizes \subseteq Nat \ {0}
    /\ \E n \in ZipSizes : \A m \in ZipSizes : m <= n
    /\ MaxLog \in Nat /\ MaxRequests \in Nat

VARIABLES
    log,         \* the kinds of the characters of the log file
    pc,          \* where the library is
    requests,    \* requests taken
    command,     \* "ALL" or "FILTER"
    log_end,     \* log_file_end_offset
    pos, bytes,  \* the place in the log, and what is still to be read
    tmpbuf,      \* dump_log's buffer
    tmp, dump,   \* the file "response", and the request that wrote it
    gz,          \* the file "response.gz"
    readbuf,     \* commit_response's buffer
    byte_count,  \* the characters of gz copied
    resp,        \* the file behind LUN 2
    ready        \* the size behind READY

requestVars == <<requests, command, log_end>>
commitVars == <<gz, readbuf, byte_count, resp, ready>>
vars == <<log, pc, requestVars, pos, bytes, tmpbuf, tmp, dump, commitVars>>

Kinds == {"null", "text", "key", "eol"}
Cell(p) == [kind |-> log[p], at |-> p]
Nul == [kind |-> "null", at |-> 0]
Junk == [kind |-> "text", at |-> 0]    \* what malloc left in a buffer
Eol == [kind |-> "eol", at |-> 0]
Buffer == 1..CHUNK

Slots == 1..(Max(ZipSizes) + CHUNK)
Zipped(n) == [i \in 1..n |-> [dump |-> dump, at |-> i]]
Zero == [dump |-> 0, at |-> 0]

(* The first Len(s) cells of the buffer are read over, the rest stays.      *)
Over(buf, s) == [i \in DOMAIN buf |-> IF i <= Len(s) THEN s[i] ELSE buf[i]]

Init ==
    /\ log = <<>> /\ pc = "loop"
    /\ requests = 0 /\ command = "ALL" /\ log_end = 0
    /\ pos = 0 /\ bytes = 0
    /\ tmpbuf = [i \in Buffer |-> Nul] /\ tmp = <<>> /\ dump = 0
    /\ gz = <<>> /\ readbuf = [i \in Buffer |-> Zero] /\ byte_count = 0
    /\ resp = [i \in Slots |-> Zero] /\ ready = 0

LogGrows ==
    /\ Len(log) < MaxLog
    /\ \E k \in Kinds : log' = Append(log, k)
    /\ UNCHANGED <<pc, requestVars, pos, bytes, tmpbuf, tmp, dump, commitVars>>
-----------------------------------------------------------------------------
(* A command, with the end of the log that the gadget tells: no more than  *)
(* the file has, and no less than it told before.                          *)
Take(c) ==
    /\ pc = "loop" /\ requests < MaxRequests
    /\ requests' = requests + 1 /\ command' = c
    /\ log_end' \in log_end..Len(log)

(* From 100 MB on dump_log returns before it has touched the file.          *)
Refuse ==
    /\ Take("ALL") /\ log_end' >= DumpLimit
    /\ pc' = "commit"
    /\ UNCHANGED <<log, pos, bytes, tmpbuf, tmp, dump, commitVars>>

Opened(then) ==
    /\ pos' = 0 /\ bytes' = log_end'
    /\ tmp' = <<>> /\ dump' = requests'
    /\ pc' = then

(* The buffer that malloc returns is not cleared.                           *)
OpenDump ==
    /\ Take("ALL") /\ log_end' < DumpLimit
    /\ Opened("dump")
    /\ tmpbuf' \in [Buffer -> {Nul, Junk}]
    /\ UNCHANGED <<log, commitVars>>

OpenFilter ==
    /\ Take("FILTER")
    /\ Opened("filter")
    /\ UNCHANGED <<log, tmpbuf, commitVars>>
-----------------------------------------------------------------------------
(* dump_log. *)

(* Those of s that are in W, in their order: the loop of remove_null_chars. *)
Select(s, W) ==
    LET upTo[i \in 0..Len(s)] ==
            IF i = 0 THEN <<>>
            ELSE IF s[i] \in W THEN Append(upTo[i - 1], s[i]) ELSE upTo[i - 1]
    IN  upTo[Len(s)]

Trimmed(s) == Select(s, [kind : Kinds \ {"null"}, at : 0..MaxLog])
readbytes == Min({CHUNK, Len(log) - pos})
Chunk == [i \in 1..readbytes |-> Cell(pos + i)]

DumpEnds ==
    /\ pc = "dump" /\ (bytes = 0 \/ readbytes = 0)
    /\ pc' = "commit"
    /\ UNCHANGED <<log, requestVars, pos, bytes, tmpbuf, tmp, dump, commitVars>>

DumpChunk(left) ==
    /\ pc = "dump" /\ bytes # 0 /\ readbytes # 0
    /\ tmpbuf' = Over(tmpbuf, Chunk)
    /\ tmp' = tmp \o Trimmed(tmpbuf')
    /\ pos' = pos + readbytes
    /\ bytes' = left
    /\ UNCHANGED <<log, pc, requestVars, dump, commitVars>>

Left(n) == IF n > bytes THEN 0 ELSE bytes - n

DumpCountsTrimmed == DumpChunk(Left(Len(Trimmed(Chunk))))

(* A chunk is read, and the whole buffer trimmed and written, whatever part *)
(* of it was read and however much of that the range still has.             *)
Dump == DumpChunk(Left(readbytes))
-----------------------------------------------------------------------------
(* filter_and_dump_log. *)

LineEnd == Min({p \in (pos + 1)..Len(log) : log[p] = "eol"} \cup {Len(log) + 1})
Line == [i \in 1..(LineEnd - 1 - pos) |-> Cell(pos + i)]
Matching == \E i \in 1..Len(Line) : Line[i].kind = "key"

FilterEnds ==
    /\ pc = "filter" /\ pos = Len(log)
    /\ pc' = "commit"
    /\ UNCHANGED <<log, requestVars, pos, bytes, tmpbuf, tmp, dump, commitVars>>

LineFeed == IF LineEnd <= Len(log) THEN Cell(LineEnd) ELSE Eol

FilterLine(kept) ==
    /\ pc = "filter" /\ pos < Len(log)
    /\ tmp' = IF Matching THEN tmp \o kept ELSE tmp
    /\ pos' = Min({LineEnd, Len(log)})
    /\ bytes' = Left(Len(Line))
    /\ pc' = IF bytes' = 0 \/ LineEnd > Len(log) THEN "commit" ELSE pc
    /\ UNCHANGED <<log, requestVars, tmpbuf, dump, commitVars>>

FilterJoins == FilterLine(Line)

(* A line is read, kept if it has the key, and counted without its end.     *)
Filter == FilterLine(Append(Line, LineFeed))
-----------------------------------------------------------------------------
(* commit. *)

(* pigz makes a new file, or fails, which is not noticed.                   *)
Compress ==
    /\ pc = "commit"
    /\ gz' \in {Zipped(n) : n \in ZipSizes} \cup {gz}
    /\ byte_count' = 0 /\ readbuf' = [i \in Buffer |-> Zero]
    /\ pc' = "copy"
    /\ UNCHANGED <<log, requestVars, pos, bytes, tmpbuf, tmp, dump, resp, ready>>

gzbytes == Min({CHUNK, Len(gz) - byte_count})

(* A chunk is read and the whole buffer written; what was read counts.      *)
Copy ==
    /\ pc = "copy" /\ gzbytes # 0
    /\ readbuf' = Over(readbuf, SubSeq(gz, byte_count + 1, byte_count + gzbytes))
    /\ resp' = [i \in Slots |-> IF i - byte_count \in Buffer
                                THEN readbuf'[i - byte_count] ELSE resp[i]]
    /\ byte_count' = byte_count + gzbytes
    /\ UNCHANGED <<log, pc, requestVars, pos, bytes, tmpbuf, tmp, dump, gz, ready>>

Announce(n) ==
    /\ pc = "copy" /\ gzbytes = 0
    /\ ready' = n
    /\ pc' = "loop"
    /\ UNCHANGED <<log, requestVars, pos, bytes, tmpbuf, tmp, dump, gz, readbuf,
                   byte_count, resp>>

CommitMessageWritten == Announce(((byte_count + CHUNK - 1) \div CHUNK) * CHUNK)

CommitMessage == Announce(byte_count)
-----------------------------------------------------------------------------
Next == \/ LogGrows \/ Refuse \/ OpenDump \/ OpenFilter \/ DumpEnds \/ Dump
        \/ FilterEnds \/ Filter \/ Compress \/ Copy \/ CommitMessage

Spec == Init /\ [][Next]_vars
=============================================================================
