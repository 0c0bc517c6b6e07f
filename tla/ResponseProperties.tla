-------------------------- MODULE ResponseProperties --------------------------
(* What an answer has to hold, and what it holds besides.                   *)
EXTENDS Response

Cells == [kind : Kinds, at : 0..MaxLog]
ZipCells == [dump : 0..MaxRequests, at : 0..Max(ZipSizes)]

(* Every variable has its type: what is left to read is never below 0,      *)
(* where the code's unsigned count would wrap (dump_log).                   *)
TypeOK ==
    /\ log \in Seq(Kinds) /\ Len(log) <= MaxLog
    /\ pc \in {"loop", "dump", "filter", "commit", "copy"}
    /\ requests \in 0..MaxRequests /\ command \in {"ALL", "FILTER"}
    /\ log_end \in 0..Len(log)
    /\ pos \in 0..Len(log) /\ bytes \in 0..log_end
    /\ tmpbuf \in [Buffer -> Cells]
    /\ tmp \in Seq(Cells) /\ dump \in 0..requests
    /\ gz \in Seq(ZipCells) /\ readbuf \in [Buffer -> ZipCells]
    /\ byte_count \in 0..Len(gz)
    /\ resp \in [Slots -> ZipCells] /\ ready \in 0..Max(ZipSizes)

(* A request has just been dumped, or filtered, to the temporary file.      *)
Made(c) == pc = "commit" /\ command = c /\ dump = requests

(* The first n characters of a log, and whether t begins with s.            *)
Start(l, n) == [p \in 1..n |-> [kind |-> l[p], at |-> p]]
Begins(t, s) == Len(s) <= Len(t) /\ SubSeq(t, 1, Len(s)) = s

RangeTrimmed == Trimmed(Start(log, log_end))

(* However the chunks cut the range, and whatever is appended to the log    *)
(* meanwhile, a dump begins with all of the range but its null characters,  *)
(* in order; what the end of a chunk or the uncleared part of a buffer adds *)
(* comes after it and is less than a chunk, and nothing if the range is     *)
(* empty (dump_log, remove_null_chars).                                     *)
DumpHoldsRange ==
    Made("ALL") => /\ Begins(tmp, RangeTrimmed)
                   /\ Len(tmp) < Len(RangeTrimmed) + CHUNK
                   /\ log_end = 0 => tmp = <<>>

(* The line of the p-th character: no end of a line is between two of its   *)
(* characters, or is the first of them.                                     *)
SameLine(l, p, q) == \A e \in p..(q - 1) : l[e] # "eol"
LineOf(l, p) == {q \in 1..Len(l) : SameLine(l, p, q) /\ SameLine(l, q, p)}

(* What a filter of the first n has to find: their lines that have the key, *)
(* from their first character to their end.                                 *)
Keyed(l, p) == \E k \in LineOf(l, p) : l[k] = "key"
Ended(l, p, n) == \E e \in LineOf(l, p) : l[e] = "eol" /\ e <= n
Lines(l, n) == {[kind |-> l[p], at |-> p] : p \in {q \in 1..n : Keyed(l, q) /\ Ended(l, q, n)}}
RangeFiltered == Select(Start(log, log_end), Lines(log, log_end))

(* A filtered answer begins with every matching line that ends in the       *)
(* range, whole and in order, though the count leaves line ends out         *)
(* (filter_and_dump_log).                                                   *)
FilterStartsWithLines == Made("FILTER") => Begins(tmp, RangeFiltered)

(* Between two requests, the file behind LUN 2 begins with as much as READY *)
(* announces, and that is one whole compressed file, though each chunk      *)
(* is written with whatever the buffer held (commit_response).              *)
AnnouncedIsWhole == pc = "loop" => ready = Len(gz) /\ SubSeq(resp, 1, ready) = gz
-----------------------------------------------------------------------------
(* What a reader of the code may expect and does not get.                   *)

(* An answer has nothing but what the range holds.                          *)
DumpIsRange == Made("ALL") => tmp = RangeTrimmed
FilterIsRange == Made("FILTER") => tmp = RangeFiltered

(* What is announced answers the last request (a dump that is refused, or a *)
(* pigz that fails, leaves the file before in place).                       *)
AnswersRequest == pc = "loop" /\ requests > 0 =>
                      gz # <<>> /\ \A i \in 1..ready : resp[i].dump = requests
=============================================================================
