# HardLog in TLA+

HardLog keeps the audit log of a Linux host on a separate audit device behind
USB. The host's kernel puts every audit record into a ring in memory (HostBuf);
a kernel thread writes the ring to the device as fast as it can; the device, a
USB mass-storage gadget, takes the data into a ring of its own and writes it to
a log file. The administrator asks the device for the log through two further
LUNs. This directory models that pipeline, checks it with TLC and proves its
safety properties with TLAPS.

Source files are named relative to `src/`; "diff" is
`device/module/linux-4.4.213-usb-gadget.diff`.

## Inventory

| Component | State | Operations | Interacts by |
|---|---|---|---|
| HostBuf producers, `host/module/hl-logger.c` | `audit_cbuff` (head, tail, ring and 4 KB of slack), mutex `hardlog_audit_producer` | `audit_log_end_hardlog`, `make_space_in_cbuff` | called by every thread that makes an audit record; head read by the flusher, tail read by the producers, no lock between them |
| Host flusher, `hl-main.c`, `hl-bio-fs.c` | `tail`, `bdevice_sector`, `usb_bio`, `tmpbuf`, `hardlog_logging` | `hardlog_auditd_thread`, `bio_write` | bios to LUN 0 of the device; `hardlog_logging` read by the response reader |
| Event formatting, `hl-logger.c` and `host/kernel/*.diff` | `hardlog_event_buffer`, `hardlog_event_consumed` of each record | `audit_log_{start,format,n_string,n_hex}_hardlog` | called by the hooks in `kernel/audit.c` |
| Kernel hooks, `host/kernel/linux-5.4.92-host.diff` | `hardlog_active`, function pointers, wait queues | the branches in `audit_log_*`, `setup_hardlog_pointers`, the parking of kauditd | calls into the module |
| Host module, `hl-main.c`, `hl-logger.c` | thread, device, activation | `hardlog_enable_init/exit`, `hardlog_logger_setup/teardown`, final flush | starts and stops all of the above |
| Host request path, `hl-ioctl.c`, `hl-request.c`, `hl-response.c`, `host/library` | request and response buffers | `SENDREQUEST`, `CHECKRESPONSEREADY`, `READRESPONSE` | LUN 1 and LUN 2 of the device |
| Device ring, diff (`hardlog-main.c`, `hardlog-flush.c`, `hardlog-bio-fs.c`) | `data_cbuff`, log file, `file_end_offset` | `do_hardlog_write`, `hardlog_flushd_thread`, `fs_write` | USB commands in; file out; offset read through the ioctl |
| Device ioctl, diff (`hardlog-ioctl.c`, `f_mass_storage.c`) | `server_request` | `REQUEST` | set by a write to LUN 1, polled by the device library |
| Device library, `device/library` | response file, command file | polling loop, `dump_log`, `commit_response`, `commit_response_message` | files behind LUN 1 and LUN 2, log file |
| Link, `hl-bio-fs.c`, `hl-response.c`, diff (`f_mass_storage.c`) | a command or a sector under way | pages of a bio become a command, and its bytes transfers of a buffer; a read is served between two writes | one command at a time |
| Measurement, L3 partitioning, scripts | | | read by nothing else |

What is hard, and what makes each part correct:

- *HostBuf.* Any number of threads, one flusher, no lock between the two sides,
  a sleep with the mutex held, events that run past the end of the ring.
  Correct: the backlog is bounded, what is in the ring is what was logged, a
  prioritised system call returns only after its event and all before it were
  flushed, and it does return.
- *Flush.* Pages are sent by reference and read later; a bio of several may
  fail; the start of a flush is where the last one ended. Correct: the device
  receives the range that the tail then moves over, each byte once, in order,
  and nothing that was not published.
- *Device ring.* The same structure without the mutex, on a processor with
  weakly ordered memory, with indices reduced to the ring. Correct: what the
  tail moves over is in the file; the ring drains.
- *Events.* Arithmetic on a 511-byte block. Correct: as long as all texts fit,
  consumed stays within it and the record ends in its newline; a text that does not
  fit costs a bounded part of what was there before.
- *Retrieval.* Polling over shared files on both sides, a flag that is read and
  then cleared, a READY that stays in place until it is overwritten. Correct:
  an answer is the answer to the request; every request is answered.
- *Load and unload.* Activation while records are being written; a teardown
  with threads inside the ring, which unlocks the mutex that one of them may hold.
  Correct: records are diverted only to a ring that is there; what the flusher asks
  to have written are whole records; rmmod ends.

- *The link.* A command is cut into transfers wherever the gadget's buffers end; one
  that was received may be sent again as a whole, one that the host gave up on may
  still arrive, in part or wholly; reads of an answer share the link with the writes.
  Correct: what the host was told of is at the device, in order; a flush that succeeds
  has its range there; the reader holds up a flush by one sector at most.
- *Answers.* Chunks of a log that grows, lines counted without their ends, whole
  buffers written whatever part of them was read. Correct: an answer begins with
  the whole of what was asked for; what READY announces is one whole file.

`PROJECT.json` lists all of these as hazards, each at its line, with the
properties that cover it, or a note where none does.

## Modules

    AuditChannel          what HostBuf promises (abstract)
    HostBuf               producers, flusher, bio_write
    HostBufProperties       its properties            EXTENDS HostBuf
    HostBufProofs           bounds, refinement        EXTENDS HostBufProperties
    HostBufFlushProofs      what is sent              EXTENDS HostBufProofs
    MCHostBuf               for TLC                   EXTENDS HostBufProperties
    DeviceBuf             gadget receiver, device flusher, fs_write
    DeviceBufProperties     its properties            EXTENDS DeviceBuf
    DeviceBufProofs         its theorems              EXTENDS DeviceBufProperties
    MCDeviceBuf             for TLC                   EXTENDS DeviceBufProperties
    EventBuffer           one audit record being formatted
    EventBufferProperties   its properties            EXTENDS EventBuffer
    EventBufferProofs       its theorems              EXTENDS EventBufferProperties
    MCEventBuffer           for TLC                   EXTENDS EventBufferProperties
    Exchange              question and answer (abstract)
    Retrieval             client, gadget's LUN 1, device library
    RetrievalProperties     its properties            EXTENDS Retrieval
    RetrievalProofs         its theorems              EXTENDS RetrievalProperties
    MCRetrieval             for TLC                   EXTENDS RetrievalProperties
    HostModule            insmod, rmmod, final flush, hooks, kauditd
    HostModuleProperties    its properties            EXTENDS HostModule
    HostModuleProofs        its theorems              EXTENDS HostModuleProperties
    MCHostModule            for TLC                   EXTENDS HostModuleProperties
    ResponseReader        the READRESPONSE ioctl's loop over sectors
    Pipeline              both rings, the link, the reader
                                EXTENDS HostBuf, INSTANCE DeviceBuf, ResponseReader
    PipelineProperties      its properties            EXTENDS Pipeline, HostBufProperties
    PipelineProofs          its theorems              EXTENDS PipelineProperties,
                                HostBufFlushProofs, INSTANCE DeviceBufProofs
    MCPipeline              for TLC                   EXTENDS PipelineProperties
    Response              dump, filter, compression, copy of an answer
    ResponseProperties      its properties            EXTENDS Response
    ResponseProofs          its theorems              EXTENDS ResponseProperties
    MCResponse              for TLC                   EXTENDS ResponseProperties

The modules meet at these points. `EventBuffer` ends where `HostBuf` begins, at
the mutex in `audit_log_end_hardlog`. `HostBuf` assumes that an event is at most
`EVENTSIZE` bytes, no more than a page. `EventBounded`, proved, says so of records whose
texts all fitted, and of no others: a text that did not fit advances
`hardlog_event_consumed` past the block (`hl-logger.c:171`), after which `n_string` works with a
negative room (`:189`), and `EventAtMost512` is violated. What is shown of `HostBuf` is shown
of records that were not truncated. `Pipeline` joins `HostBuf`'s
bios to `DeviceBuf`'s receiver and `HostBuf`'s `hardlog_logging` to
`ResponseReader`. `HostModule` has the same ring from further away: of a flush it has the
range that `usb_write` is called with, so that loads, hooks and kauditd can be looked at;
what is sent of the range is `HostBuf`'s subject. `Response` is what
`Retrieval` calls a dump and a commit, in detail. `DeviceBuf`'s `file_end_offset` is the `file_end_offset`
that grows in `Retrieval`, of which the library is never told more than the
file holds.

### HostBuf

A byte is identified by its position in the stream of everything ever logged:
`buffer[i]` is the position of the byte in slot `i`. Comparing the ring, the
pages sent and the stream is then comparing numbers.

| TLA+ | code |
|---|---|
| `head`, `tail`, `buffer` | `audit_cbuff`, which the producers and the flusher share |
| `lock` | `hardlog_audit_producer` |
| `pc`, `len`, `cbuff_head` | each thread in `audit_log_end_hardlog` and its locals |
| `fpc`, `start`, `end`, `hardlog_logging` | `hardlog_auditd_thread` |
| `consumed`, `bio`, `tmpbuf`, `sector`, `ret` | `bio_write` |
| `usb` | the pages the audit device has received, in order (it appends whatever it is sent) |

A step is what lies between two accesses to shared state: `LogEnd` (the length
of the event is settled), `LockProducer`, `MakeSpace` (the sleeping loop is left),
`CopyEvent`, `PublishHead` (head, mark, unlock), `WaitFlushed`; `Snapshot` (end,
start, flag), `AddPage` (one iteration of `bio_write`), `TransferPage` (the block
layer reads one page of the bio and the device takes it), `SubmitFails`,
`SubmitDone`, `AdvanceTail`. That a full page is referenced, and read only when
the bio is transferred, is kept, for other threads copy into it meanwhile.
`bdevice_sector` only moves by whole pages and is counted in pages; a LUN of
`LUN_PAGES` refuses a page behind its end, as the gadget does (diff, "Beyond
the end of the backing file").

Left out: what comes before the mutex (`EventBuffer`), measurement, debugging
output, the module parameter `biof = false` (`install.sh` loads the module with
`biof=1`), and the flusher's sleep.

### DeviceBuf

The same, in blocks of 512 bytes. The receiver is `do_hardlog_write` per buffer
of a transfer; the flusher reduces its snapshot to the ring and writes one range,
or two when it wraps. `InOrder = FALSE` lets the head's update become visible
before the copy, which the ARM processor may do (there is no barrier);
`FileMayFail = TRUE` lets `vfs_write` write any part of what it was given.

### AuditChannel

One stream, one flushed prefix, threads that append and may wait for a prefix. It
has no ring, lock or device. `ImplementsChannel` instantiates it with
`appended <- head`, `flushed <- tail`, `waitsFor <- cbuff_head`.

### EventBuffer

| TLA+ | code |
|---|---|
| `buf`, `consumed` | `hardlog_event_buffer`, `hardlog_event_consumed` of the record's `audit_buffer` |
| `room` | `HARDLOG_AUDIT_BLOCKSIZE - hardlog_event_consumed`, as the functions compute it |
| `Start`, `Format`, `NString`, `NHex`, `End` | `audit_log_{start,format,n_string,n_hex,end}_hardlog` |
| `Refuse` | the early returns "no more space in this event entry; dropping" |
| `event` | the bytes that `audit_log_end_hardlog` copies to the ring |
| `text`, `truncated`, `outside` | no code: what the calls were to write, whether a text did not fit, whether a byte went behind the buffer |

A character is the number of the call that wrote it. `Printed` is `vsnprintf`
of a kernel with its warning for sizes above `INT_MAX` left out; the room of
`n_string` and `n_hex` is an int compared with a `size_t` (`LessUnsigned`). A
record is at most `MaxCalls` calls; the first is the one with which
`audit_log_start` writes the time stamp. The allocation never fails. `End` with fewer than
`MINLEN` (35) characters logs nothing.

### Retrieval

| TLA+ | code |
|---|---|
| `cpc`, `response_size`, `hrsp`, `answer` | the loop of `start_device_communication` in `host/library/device.cpp` and the file it writes |
| `request_buffer` | the host module's buffer, for commands and for polls |
| `gpc`, `server_request` | `do_write` on LUN 1, and the flag it leaves |
| `comm`, `resp` | the files behind LUN 1 and LUN 2 |
| `lpc`, `hreq`, `log_end` | the loop of `start_device_communication` in `device/library/device.cpp` and its copy of the ioctl's answer |
| `tmp`, `written` | `response.gz`, and how much of it `commit_response` has copied |
| `since` | no code: the log when the client asked |

`Submit`, `StoreCommand`, `FlagCommand` and `Sent` are one SENDREQUEST: the bio
leaves, is stored, sets the flag, returns. `CheckFlag` and `ClearFlag` are the
two accesses of the REQUEST ioctl. `Faults` chooses what may happen to the bio:
`lost` (it fails before the device sees it), `broken` (it breaks off with nothing stored, and the
flag is set all the same), `repeated` (the host's SCSI layer sends it again).

Left out: a poll that fails (it changes nothing); filters, which the shipped
client cannot send, since `cin >> command` reads one word where
`host/README.md:31` says "FILTER XYZ". A read of the response that fails and the
wait for `hardlog_logging` are in ResponseReader, the contents of the log and the
chunks in which it is copied in Response.

### Exchange

The log grows, one question is open at a time, its answer covers the log up to a
point between question and answer. `ImplementsExchange` instantiates it with
`asking <- cpc # "idle"` and `answer <- Covers`, the length of log that
the client's file holds if it is one whole dump.

### HostModule

| TLA+ | code |
|---|---|
| `mpc` | how far `hardlog_enable_init` or `hardlog_enable_exit` is |
| `UsbOpen`, `StartThread`, `MakeRing`, `Activate`, `LoadFails` | `hardlog_enable_init` and `hardlog_logger_setup`, with their error returns |
| `StopThread`, `UsbClose`, `Deactivate`, `FreeRing`, `Wake` | `hardlog_enable_exit` and `hardlog_logger_teardown` |
| `Unloaded` | the module's memory goes: a thread whose code is there is `dead` |
| `Start`, `Format`, `NHex`, `End*` | the hooks in `kernel/audit.c`, each of which tests `hardlog_active` anew |
| `asked` | the positions that `usb_write` was called for (no variable of the code's) |
| `LockProducer`, `MakeSpace`, `CopyEvent`, `LoadHead`, `StoreHead`, `UnlockProducer`, `WaitFlushed` | `audit_log_end_hardlog`: the copy, the read and the write of the head and the unlock are steps of their own, as the mutex may be unlocked by unload between any two |
| `CopyFaults` | a copy to the ring that was freed |
| `Snapshot`, `WriteRound`, `LeaveLoop`, `FinalFlush` | `hardlog_auditd_thread` and the flush after its loop |
| `Send`, `Park`, `kpc` | `kauditd_thread` and its `wait_event_interruptible` |
| `sentMeanwhile`, `saw` | no code: what kauditd sent under the flag; which values of the flag the hooks of a record saw |

A record is a list of numbered fields, the first being the stamp. The ring's
stream says of each position which record was last copied there. `WriteRound` and
`FinalFlush` are the calls of `usb_write` and the tail that moves over their range whatever
they return; they do not say that the range reaches the device, for it need not: a flush
that begins inside a page, runs on into the slack or fails loses bytes (HostBuf,
`MissingSent`, MCHostBufUnaligned, MCHostBufComments). `FinalFlush` works on slots, as the
code does: of a range that wraps, only the part from slot 0 is asked for, and the tail
becomes a slot. `MakeSpace` has the unsigned difference, so that such a tail ahead of the
head stops the producers. `Deactivate` unlocks the mutex, whoever holds it, and from then
on two producers may be in the ring together, copy over each other and move the head by one event
only. `AskedIntact` says that none of this is in a range that `usb_write` was called for: the
flusher has taken its last look by then. `HasCode` says that a flusher whose module is gone does not
run; a failed insmod leaves the flusher it started without code.

Left out: the character device and the cache settings that the module sets up
besides; what comes of a page fault; a flusher that cannot look up the kernel's
symbols. The audit subsystem is otherwise a queue and a thread that sends.

### ResponseReader and Pipeline

| TLA+ | code |
|---|---|
| `rpc`, `size`, `sectors`, `copied` | `bio_read_response_file` and its locals |
| `Ask`, `Submit`, `Serve`, `Fail` | the ioctl; the wait for `hardlog_logging` and the bio; its completion; its failure |
| `link`, `due`, `pages`, `taken` | the command on the link: whose it is, `data_size_from_cmnd`, the pages sent so far, and the bytes of it in the gadget's ring (`data_size_from_cmnd - amount_left_to_write`) |
| `link = "welcome"` | the first command, the 512 bytes that `bio_open` writes |
| `SendCommand` | the block layer makes a command of some of the pages of the bio |
| `SendPage` | its next page is read from memory and sent, if the gadget has a buffer for it |
| `FillBuffer` | a transfer is complete: `FSG_BUFLEN` bytes, or what is left of the command |
| `GadgetStep`, `AcceptMore`, `AcceptTold` | the rest of an iteration of `do_hardlog_write`; after the last one, the status to the host |
| `AcceptInterrupted` | `signal_pending` after the head was moved: -EINTR, and the whole command comes again |
| `BioFails`, `Abandon` | the host's SCSI layer gives up on a command, of which the gadget goes on taking what has been sent, until its transfer fails |
| `received`, `resends`, `reads` | no code: what the gadget took, byte by byte; the commands sent again; the sectors read under the flag |

A page is read when it is sent, and acked, with the other pages of its command, as it was
read, whatever threads have copied to the ring meanwhile. Both rings count bytes: a transfer
may end inside a page, begin inside one after the welcome, pass the end of the device's
ring, and pile up more than a lap. `FlushReceived` speaks of any flush within a lap, aligned
or not; what an unaligned one steps over (`SteppedOver`) is not at the device.
The welcome moves `bdevice_sector` by one sector, which `HostBuf`, counting pages, leaves out:
the LUN has its room besides.

`D` is DeviceBuf with transfers of up to `BUFLEN`, memory in order, a file that takes its
writes. Its other behaviours are in the runs of DeviceBuf. What the gadget's
ring cannot take is held up at the gadget, and with it the host's flusher, and with
it the host's threads: `PrioReturnsUnlessOneLap` is about all of them.

### Response

| TLA+ | code |
|---|---|
| `Refuse`, `OpenDump`, `Dump`, `DumpEnds` | `dump_log`, with `remove_null_chars` |
| `OpenFilter`, `Filter`, `FilterEnds` | `filter_and_dump_log` |
| `Compress` | `system("pigz ...")`, of which the result is ignored |
| `Copy`, `CommitMessage` | `commit_response`, `commit_response_message` |
| `tmpbuf`, `readbuf` | the buffers, one from `malloc`, the other from `calloc` |
| `LogGrows` | the device's flusher |

A character of the log is its kind (null, end of line, part of the key, other) and
its place, so that an answer can be compared with the log: `Start(log, n)` is its first
`n` characters, `Lines(log, n)` those of the matching lines that end there, `Select`
keeps some of a sequence, and `Begins` says that an answer starts with another. A compressed file is its size and the dump it is of. One action
is one chunk, or one line; the log may grow between any two. Left out: a file that
cannot be opened or written, and the stress loop: `device/library/main.cpp` ships with
`stress = true`, and as shipped repeats `dump_log` and never gets to the polling loop. The
models are of the library with it switched off.

Definitions such as `AddPageOneOff` or `MakeSpaceOneMore`, placed before the
action they are variants of, are plausible bugs; no specification uses them.
Each property is violated by the one that `PROJECT.json` pairs it with.

## Runs

| Run | Question | Bounds |
|---|---|---|
| MCHostBuf | safety, its inductive invariant `RingInv`, and refinement of HostBuf | 2 threads (symmetric), ring of 2 pages of 3 bytes, events up to 3, bios of 2 pages, LUN of 4 pages, bios may fail, 7 bytes logged before the last event |
| MCHostBufLive | liveness | 3 threads, ring of 2 in one page of 2, events of 1, failing bios |
| MCHostBufUnaligned | a comment that the host's code contradicts | 1 thread, ring of 2 pages of 2 |
| MCDeviceBuf | exact flush, everything in order | ring of 4, transfers up to 3, 9 blocks |
| MCDeviceBufWeak | bounds and draining under reordering and failing writes | ring of 4, transfers up to 3, 7 blocks |
| MCDeviceBufStuck | a full lap looks empty | as MCDeviceBuf |
| MCEventBuffer | what formatting keeps | block of 6, set back 2, 3 characters at least, up to 3 calls of up to 7 |
| MCRetrieval | refinement of the exchange; answers under fairness | sizes 2 and 3 written in base 2, log up to 4, 3 commands, nothing fails |
| MCRetrievalFaults | safety of the files under faults | sizes 1 and 2, log up to 2 (dumps refused from 2 on), 2 commands, all faults |
| MCHostModule | load and unload under threads that log | 2 threads, ring of 2, records of one field and up to 2 cells, 2 records, 2 loads |
| MCPipeline | both rings, the link and the reader together | 1 thread, host's ring 2 pages of 2 bytes, 2 bytes logged before the last event, bios and commands of up to 2 pages, transfers of up to 3 bytes, device's ring 4, welcome 1, LUN of 3 pages, 1 command sent again, bios may fail, answers of 2 sectors |
| MCResponse | what an answer holds | chunks of 2, log up to 5, dumps refused from 5 on, compressed sizes 1, 3 and 4, 2 requests |

Two more groups of configurations are kept for reference and are not among the
runs of `PROJECT.json`. TLC finds each property of the first group violated, and the
hazards name them (`tlc -continue -config X.cfg M` shows all of a
configuration's, not the first alone):

| cfg | property | what the code does |
|---|---|---|
| MCHostBufComments | TailMeansWrittenAcrossLaps | an event that passes the ring's end lies in the slack, which no flush sends |
| | TailMeansWrittenOnError | the tail moves over what a full LUN refused |
| | NoOverflow | with less than an event of room, the event is copied over unflushed bytes |
| MCDeviceBufLaps | TailMeansInFile | more than a lap: only the excess is written, the tail moves over all |
| | TailMeansInFileAcrossLaps | a transfer across the ring's end lies in the slack |
| MCDeviceBufRace | TailMeansInFile | the head is seen moved before the copy is |
| MCEventBufferComments | EventAtMost512 | the length counts what did not fit |
| | ExcessDropped | a negative room compared with a `size_t`: the string is written behind the buffer |
| | EndlineAppended | no room for newline and terminator, the length grows all the same |
| MCRetrievalMissed | RequestCompleted | a command falls between the ioctl's two accesses |
| MCRetrievalComments | ReadyAnswersCommand | the READY of the last command is taken for this one's, whose write failed |
| | AllSentBack | 100 MB and more: the last dump is sent again |
| | DecodesCommands | the flag is set with nothing stored; READY is decoded |
| | SizeAnnounced | digits of a longer, earlier size stay behind a shorter one |
| MCHostModuleComments | FinalFlushAll | of a backlog that wraps, the last flush asks only for the part from slot 0 |
| | RemainingHandled | a record that ends after the last flush is copied to a ring that is freed |
| | FailureUndone | an insmod that fails leaves the flusher running and the device open |
| | NoneInside | the ring is freed with threads in `audit_log_end_hardlog` |
| | NoSplit | the flag changes between the hooks of one record |
| MCPipelineComments | TailStored | a prioritised call goes on when its event is in the device's memory |
| | NoDuplicates | a command that is sent again is appended again |
| | NothingStale | a failed read is not reported: the client gets what the buffer held |
| MCResponseComments | DumpIsRange | a whole buffer is trimmed and written, whatever part of it was read |
| | FilterIsRange | ends of lines are not counted, so that lines from behind the range follow |
| | AnswersRequest | a refused dump or a failed compression leaves the last answer in place |

The second group passes and is wider than the runs, and also checks the type
invariants of modules whose runs leave them out: MCHostModuleWide (records of two
fields), MCPipelineWide (bios of three pages in transfers of two, one more byte logged), MCResponseWide
(chunks of 3), MCRetrievalWide (sizes of one, two and three digits). Each takes between half a
minute and some minutes.

Why the bounds are enough. A ring of two pages is the least in which a flush can
start in one page and end in the other and wrap; an event as long as a page is
longer, relative to the page, than the code's (511 of 4096), so more alignments
occur. With `Limit` one past the ring every thread meets a full ring, a lap is
overwritten, an event runs into the slack, and flushes begin at every offset. A
bio of two pages is shorter than the largest backlog (as in the code: 256 pages
and a ring of 256), so that a flush needs two bios, and a LUN of four pages fills up. Two threads
suffice for every order in which the mutex, which admits one at a time, is
taken; the third in MCHostBufLive makes overtaking possible.

For a record, a block of 6 with texts of up to 7 has every way of not fitting:
exactly, by one, by more than the set-back, twice. Three calls are the least
for a text that overflows, one that is written behind the block and one that
is refused. For the retrieval, sizes 2 and 3 have two digits in base 2, 1 and 2
have one and two, as 999 and 1000 bytes have three and four; the second
question finds the READY and the dump of the first; the log may grow between any two
steps. `DumpLimit` lies beyond the log in MCRetrieval, where an answer must be
of the log as it is, and within it in MCRetrievalFaults.

For HostModule two loads are the least in which a second one meets what the first
left (a parked kauditd, a queue, threads inside); two records of up to two
cells in a ring of two wrap, fill it, and are split by the flag. Two threads are the least
of which one is let in while the other is in the ring. In Pipeline a transfer of three bytes is a
page and a half: a command of one page fits into one, as most of the code's fit into `FSG_BUFLEN` (four
pages), one of two takes two, the first of which ends inside a page; behind a welcome
of one byte transfers begin and end on every slot of the device's ring of four, which they fill, pass
the end of, exceed by part of a transfer, and hold by exactly one lap. Flushes of one, two and three
bytes begin at a page's start or inside it, so that FlushReceived meets positions that are stepped
over; the host's ring does not wrap there (it does in MCHostBuf, and the
proofs are for any ring). The one command sent again can be the welcome, of one page or of two, and
interrupted after either transfer; an answer of
two sectors has a read to fall on either side of a flush. In Response a log of
five in chunks of two ends inside a chunk, at its end, and grows past the range
by more than a chunk; the second request meets the files of the first, and the three
sizes are a part of a chunk, one and a part, and two.

The deadlock check is off in MCHostModule, MCPipeline and MCResponse, for
these systems really stop: threads die in a freed ring, the device's ring is full by
one lap, or the bounded records, loads and requests are used up. Elsewhere
it is on: the flushers' loops and the library's never end, and a record can always be
begun or ended.

What the passing runs show beyond the obvious: a flush that starts inside a page
loses *exactly* the bytes that the page offset displaces (`FlushSent`) and
nothing else; without `Aligned`, `OnlyPublishedSent` fails, since a page sent
from its first byte to its last may include part of an event that is being
copied. It speaks of the bytes that stand for the range: what an earlier flush left in
`tmpbuf` behind them is sent as padding, and may be of an event whose head is still
to be moved. What the violated runs show is in `PROJECT.json` under "findings", with
the comment each contradicts.

Properties that speak of what is sent are restricted by `UnflushedIntact`: when an
event was copied over unflushed bytes (`NoOverflow`, violated), they are
gone before any flush sees them. `SameLap` excludes flushes across the end of
the ring (`TailMeansWrittenAcrossLaps`, violated). The unrestricted statements are
the violated ones.

## Fairness

- `WF(Flusher)`: the flusher is bound to a processor, SCHED_FIFO 99, nice -20
  (`hl-main.c:349-360`), never waits for the producers, and a submitted bio
  completes or fails.
- `WF(Produce(t))`: a thread inside `audit_log_end_hardlog` is scheduled; its
  sleeps are timed.
- `SF(LockProducer(t))`: Linux mutexes hand over to the waiter that has been
  spinning or sleeping too long, so that no thread is overtaken for ever. Weak
  fairness would not do, for the mutex is not free all the time.
- Nobody is obliged to log: `LogEnd` has no fairness.
- `WF(Receiver)`, `WF(Flusher)` on the device: two kernel threads that only sleep
  for a set time or for the file system.
- `WF(Client)`, `WF(Gadget)`, `WF(Library)`: loops of one process each that only
  sleep for a set time. That the client's reads return relies on
  `hardlog_logging` being clear again and again, which is `FlagClears` of HostBuf. Nobody is
obliged to ask, and the log need not grow.
- HostModule: `WF(Rmmod)`, for an rmmod that was begun goes on (beginning one is
  free), `WF(Flusher)` and `WF(Kauditd)`, kernel threads that are woken or sleep for a set
  time. The threads that log have none: `UnloadEnds` and `KauditdTakesOver` hold
  although they may stop anywhere, with the mutex held.
- `PFairness` of Pipeline is the fairness of its parts: the host's flusher and its
  commands as one process, the gadget, the device's flusher, and the threads as in
  HostBuf. Bios need not fail, commands need not be sent again, nobody need read.

## Proofs

`HostBufProofs` proves for all values of the constants that satisfy
`HostBufAssumption` (the ring is a positive number of pages, an event is not
longer than a page, `NoThread` is not a thread):

- `TypeCorrect`. The real content is that addresses stay in their allocation: a
  reduced index plus an event or a page is within the ring and its slack
  (`SlotInRing`, `PageInRing`), and each page that a bio refers to exists
  (`AddPageTypeOK`, `PageAtType`).
- `Invariance`: `IndInv`, the inductive invariant. `BoundedBacklog` alone is not
  inductive: the head moves by `len` long after the test for room. The
  strengthening says that a thread between lock and head update is the holder
  of the mutex (`LockInv`), hence alone; that the room it saw is still there
  (`RoomInv`), for the head moves only under the mutex and the tail never falls
  back, since the flusher's snapshot lies between tail and head (`FlushInv`);
  and that a waiting thread's mark lies behind the head (`MarkInv`).
- `BacklogIsBounded`, a conjunct of it.
- `Refinement`: every step of HostBuf is a step of `AuditChannel` or a stutter,
  under `IndInv`; `ProducerRefines` and `FlusherRefines` are the step lemmas.

`HostBufFlushProofs` proves what the ring holds and what a flush sends, for every
ring, page, bio, LUN and any number of threads:

- `BufferInvariance`: which byte each slot holds. `RingHoldsLastLap` is not inductive:
  it needs that a slot holds only positions of its own (`SlotInv`), that what lies at or
  behind the head is the one event being copied, in one piece (`CopiedInv`,
  `PublishedInv`), and that neither tail nor end falls among the bytes that ran on into the
  slack (`SlackInv`), as events are published whole. `LastLapIsHeld` is a conjunct.
- `RingInvariance`: with it `BioInv` (the bio holds the pieces between those the
  device has and those still to be added), `RestInv` (what tmpbuf shows) and `SentInv` (what the
  pages at the device show). Neither can say "the range", as threads copy over it meanwhile
  (`NoOverflow`, violated): they say that a page shows what its slots hold unless that is
  of behind the flush's end.
- `PublishedBeforeSent`, the action property `OnlyPublishedSent`. It rests on `TailFirst`: an
  event under way that reached a page of the range has first written over the tail's byte.
- `FlushIsSent`: `FlushSent`, by the arithmetic of pages and laps (`SlotUnique`,
  `PageUnique`, `FullIff`, `MissingSent`): which piece holds a position, and
  that no piece holds a position that was stepped over.

`EventBufferProofs` proves for all values that satisfy `EventBufferAssumption`
(in particular a set-back of at least one: with none, the terminator would
fall on the last character that is kept):

- `Invariance`: its `IndInv` adds to the checked invariants that an open record
  without a call is empty (a first call that found no room would leave no
  terminator) and that a record with a text that did not fit was long enough for
  its kept start. One lemma per function; what was written where follows from
  `PutAt`, what `vsnprintf` leaves from `PrintedIs`.
- `TypeCorrect`, `TextsFit`, `StartIsKept` from it, `EventIsExact` and `EventIsBounded`, the
  action property on which HostBuf's `EVENTSIZE` rests as far as it goes: a record with a text
  that did not fit may be longer (MCEventBufferComments).

`DeviceBufProofs` proves for all values that satisfy `DeviceBufAssumption`, for any
order of memory and any failure of the file unless said otherwise:

- `Invariance`: `IInv`. `BacklogInv` is the argument of HostBuf without a mutex, as
  there is one receiver; it also holds when the head's update is seen before the copy,
  since it is the head, not the copy, that the test for room looks at. `RangeInv`
  relates the flusher's slots to the positions `tail` and `real_end` they were reduced
  from. `FileInv` says what the one or two writes have put at the end of the file.
  It cannot say "the range", since the receiver overwrites slots meanwhile
  (MCDeviceBufLaps): it says that a slot with a block from before the snapshot
  still holds what was written from it, which every step of the receiver keeps,
  as it only copies blocks from behind the head.
- `TypeCorrect` (no copy leaves the ring and its slack; the library is told of no more
  than the file has) and `BacklogIsBounded` from it.
- `FlushIsExact`: with memory in order and a file that works. The lemmas
  `SlotUnique` and `RangeSlots` are the arithmetic modulo the ring: less than a lap
  from slot to slot is one range forward or two around the end.

`HostModuleProofs` proves for all values that satisfy `HostModuleAssumption`, any
number of threads, records, fields and loads among them:

- `Invariance`: `IInv`. None of the checked invariants is inductive. `PhaseInv` says
  what each phase of insmod and rmmod has and has not, in particular that the flusher
  is done from `UsbClose` on: `DivertedToRing` and `WritesWithMeans` follow.
  `QuietInv` says that kauditd, having sent a record under the flag, is on its way
  to sleep. `AskedInv` says that all below the tail was asked for as long as the
  flusher runs, `IntactInv` that nothing behind the end it last saw was, and of what records are
  below the head or that end. `RecordInv` carries what the hooks saw
  of a record from its start to where it ends up. `IdInv` says that a number
  belongs to one record, and that record is in one place.
- `DivertedOnlyToRing`, `FlusherHasMeans`, `KauditdIsQuiet`, `BacklogIsAsked`, `AskedIsIntact`,
  `RecordsAreWhole` and `RecordsOnOneSide`, the invariants that MCHostModule checks.
  `AskedIsIntact` has two halves: while the mutex is kept, the positions below the head are whole
  records one after the other and the one producer in the ring copies behind them; once unload
  has unlocked it, whatever producers do there is behind the end that the flusher saw last.

`PipelineProofs` proves for all values that also satisfy `PipelineAssumption`:

- `DeviceSpec`: a step of the pipeline is a step of DeviceBuf or leaves the device alone, so that
  what is proved of DeviceBuf holds of it.
- `HostInvariance`: the host is not quite HostBuf, whose pages are read and acked one at a time.
  `LinkInv` says that each page of the command on the link *shows* its entry of the bio: what its
  slots hold, unless that is of behind the end. `ShowsStep` is why it stays so while threads log, and
  `ToldFlush` why acking several at once leaves the flush where their one by one would.
- `StreamInvariance`: `StreamInv` says that the last `taken` bytes received are the first of
  the command. It is what relates bytes to pages: a transfer knows nothing of pages,
  and it may begin and end inside one (`AcceptBytes`, `CommandBytes`).
- `AckedIsReceived`, from `AckedInv`: there is a place for each page acked, in order and before
  what is taken of the command under way. A command that is sent again leaves its bytes between two
  places, and one that was given up behind them.
- `FlushIsReceived`: by `RingInv` each position of the flush's range is in a page of
  `usb` (`ReadAt` and `MissingSent` of HostBufFlushProofs) or is stepped over, and by `AckedInv` that page
  is in what was received. Nothing is assumed of sizes or alignment.
- `ReceivedIsAcked`, from `GivenInv`: pages that were added and not acked are in
  the bio, or a bio was given up, which is never undone (`GapStep`).
- `ReadsCover`, `OneSectorAhead` from `ReaderInv`: a sector that was submitted before the flag was
  set is the only one.

`ResponseProofs` proves for all values that satisfy `ResponseAssumption`, of a log that grows
while it is read: `DumpBeginsWithRange`, `FilterBeginsWithLines`, `AnnouncedWhole`, from `IInv`,
in which `DumpInv` and `FilterInv` say what has been written of the range read so far
and `CopyInv` what has been copied. `Select` is a recursive function over a
sequence; what it computes is proved from `SelectIs`, `SelectRuns` and `SelectConcat`.

`RetrievalProofs` proves for all values that satisfy `RetrievalAssumption`, for any faults unless
said otherwise:

- `TypeCorrect`: what a longer size leaves behind a shorter one makes the client ask for
  too much, never for more than the response file has. It rests on the lemmas `DigitsIs` (every number
  has digits in every base, and `Digits` and `Value` agree) and `ValueBounds`, whence `DigitsGrow`.
- `ReadyHoldsDump`: `AnnouncedHeld` is inductive with `CommandInv` (only a command
  being sent reaches comm, and it is never READY) and `CopyInv` (what was copied so far).
- `AnswersCover`: `ImplementsExchange`, if `Reliable`: no command fails, no dump is
  refused, all sizes have one number of digits, as in MCRetrieval; without
  each of these MCRetrievalComments shows an answer of another log. `PhaseInv` follows a command:
  the library rests until its flag is set; then the command is pending, overlooked (and the
  client polls for ever), worked on, or done. `ExchangeMaps` is the step of the refinement.

What a function defined by recursion computes is proved there by induction over a set of
numbers. The library's induction theorems take an operator; `Induction`, which takes a set,
follows from the pigeonhole principle for finite sets, which the library has.

All proofs were also checked with a corrected translation to the SMT solver. That of tlapm 1.4.5
takes `DOMAIN s = 1..n` and `Len(s) = n` for equivalent for every value, also for functions
with another domain, from which more follows than is true; the proofs hold with
the implication from left to right alone.

Only model-checked are the liveness properties: `PrioReturns`, `EventsGetIn`, `FlagClears`,
`DrainsUnlessOneLap`, `AnsweredUnlessMissed`, `KauditdTakesOver`, `UnloadEnds` and
`PrioReturnsUnlessOneLap`. They rest on fairness and with it on ENABLED, which the
prover does not handle. Every invariant, action property and refinement that a passing run
checks is stated by a theorem.

## Plan

The modules planned at the outset exist, and the safety properties of each are
proved. What is left:

1. That a dump and a commit of `Response` are what `Retrieval` does in `Decode` and
   `CommitResponse`: a refinement between the two, so that `Covers` speaks of the log's contents.

## Not modelled

- Measurement (`hl-measure.c`): counters that nothing reads.
- L3 partitioning: configuration of the processor.
- Scripts, kernel configurations, the text of records and of the log.
- The path of `biof=false` in the host's flusher, which the installation does not
  choose, and microlog, which it switches off and which shortens records.
- The gadget's setup, its failures and its teardown: the device is set up at boot
  and switched off.
- Several clients in READRESPONSE at once: `hrsp` and `response_buffer` are shared
  without a lock (`hl-ioctl.c:104`), and there is one administrator's tool.
- A crash of the host or the device. Nothing is recovered after one: the ring in
  memory is lost. On the device's side that is what was received and is not in the log file, less than a
  lap and a transfer (`BoundedBacklog`), and what was never written of more than a lap
  (MCDeviceBufLaps).
- Records that were truncated and are longer than a page, from the mutex on (see Modules).
