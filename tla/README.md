# LoraBBS in TLA+

LoraBBS is a FidoNet mailer and bulletin board for DOS and OS/2. Each line of a
system is a process of its own: it waits for calls, dials the systems it has mail
for, exchanges mail with the one at the other end, tosses what came in and packs
what is to go out, and runs the board for human callers. Several lines share one
disk and nothing else.

This directory holds TLA+ models of the parts where several actors, lost
messages, timeouts or crashes meet, the TLC configurations that check them on
small instances, and proofs that TLAPS checks for all instances. Seven parts are
done: the **Janus** and **ZMODEM** transfers, the **address locks** together with
the lines that use them, the **serial queues** under the transfers, the **call
queue** above them, the **tossing** of what they bring, and the **outbound**
directory between the packer and the sessions. The last sections are
what is left to do and what is left out.

All sources named below are under `src/src/` (`janus.h`, which sits beside it, is
the exception).

## The system

| Part | Sources | State it keeps | Operations | What is hard | What makes it correct |
|---|---|---|---|---|---|
| Janus | `janus.c`, `janus.h` | two state machines per mailer, timers, outbound scan, request list, BadWaZOO files | `Janus()`, `getfname()`, `procfname()`, `rxclose()`, `endbatch()`, `get_reqname()` | packets lost in both directions, stale answers, retries, aborts and resumption | mail is struck off only once it has arrived, received data is intact, sessions end |
| Outbound scan | `janus.c` (`getfname`), `wazoo.c` (`send_WaZOO`) | `.?UT`, `.?LO`, `.REQ` files, `whichaka`, `bad_xfers` | next file, post-transfer cleanup | several addresses, failed files, one list edited while it is read | each entry offered once, a list deleted only when all of it is sent |
| ZMODEM | `zsend.c`, `zreceive.c`, `zmisc.c` | positions, window, retry counters | send and receive a batch | data in flight after ZRPOS, ZRINIT out of place | as for Janus, one direction at a time |
| Address locks | `door.c` (`flag_file`), `misc.c` | `.BSY` files on the shared disk, `last_set[]` of each process | take, clear, clear all, test | two processes at once, directories that are missing, processes that exit | one holder per mailbox; what is taken is given back |
| Lines at work | `lora.c`, `poller.c`, `wazoo.c`, `ftsc.c`, `pack.c`, `config.c` | the call in progress, the addresses of the other system, `oksend[]` | dial, answer, session, pack, `get_down()` | where each path takes and clears locks, and where the process ends | one line at a mailbox; nothing left locked |
| EMSI, WaZOO and FTS-1 handshakes | `wazoo.c`, `yoohoo.c`, `ftsc.c`, `poller.c` | handshake packets, capabilities, passwords | identify, agree on a protocol | retries, both sides speaking at once | both sides choose the same protocol |
| Serial and socket buffers | `modem.c`, `timer.c` | input and output rings, carrier | buffer, unbuffer, peek, clear | partial writes, full buffers | bytes keep their order, none is lost unnoticed |
| Call queue | `poller.c`, `maintask.c` | `call_list[]`, counts of failed calls on disk | build, next call, `bad_call()` | counts shared by the lines, limits, resets | no undialable system is dialled for ever, none is given up early |
| Scheduler | `sched.c`, `lora.c`, `lora_ovl.c` | event table, `last_ran` | find, set, time to next | midnight, forced events, missed events | each event once a day, for its length |
| Tossing | `import.c`, `import2.c` | bundles and packets, message bases and their locks, `DUPES.DAT` | unpack, choose and rename a packet, change of area, file a message | several lines at one directory, a crash between two files, the same packet twice | a message tossed once, nothing deleted before it is filed |
| Packing | `export.c`, `pack.c`, `misc.c` | `.XPR`, `.X$R`, `.OUT` and `.PKT` files, bundles and the `.?LO` lists of them | scan out, bundle, list, set aside | several lines at one directory, a crash between two renames, archivers that fail | mail is in some file until it has arrived, and goes where `ROUTE.CFG` says |
| Message bases | `squish.c`, `quickmsg.c`, `pipbase.c`, `message.c`, ... | index, header and text files | read, write, delete, pack | four foreign formats | index and text agree |
| Board, editors, configuration | the other files | caller's session, screens, configuration files | menus, file areas, editors | mostly terminal input and output | not protocol state; not modelled |

**Interactions.** The main loop (`lora.c`) takes the next entry of the call queue,
asks `flag_file()` for the address and calls `poll()`; `poll()` dials and hands
over to `emsi_handshake()`, `WaZOO()` or `FTSC_sender()`. An incoming call reaches
the same three through `mail_session()`. EMSI and WaZOO ask `flag_file()` for the
addresses of the session and run `Janus()`, ZModem or another protocol over the
serial buffers. The outbound files are the interface between the packer, which
fills them, and `getfname()` or `send_WaZOO()`, which empty them; `.BSY` files
keep the lines apart there. What is received is tossed after the session, in the
same process, before `get_down()` exits. Lines talk to each other only through
the disk.

`PROJECT.json` lists the hazards found in all of this, each at its line, with the
properties that cover it or the reason why none does.

## Modules

| Module | What it is |
|---|---|
| `Janus` | two mailers running Janus over one line: state, handlers, timers, environment, properties |
| `MailTransfer` | the promise of a mail session: an item may arrive; it is struck off once, after it has arrived |
| `MCJanus` | the files, outbounds and request lists TLC checks Janus with |
| `JanusProofs` | theorems of `Janus` that hold of every session |
| `JanusDelivery` | theorems of `Janus` about what is delivered, also that it implements `MailTransfer` |
| `Zmodem` | the ZModem sender and receiver of a WaZOO session over one line; promises `MailTransfer` too |
| `MCZmodem` | the files and the faults of each call TLC checks `Zmodem` with |
| `ZmodemProofs` | theorems of `Zmodem`, also that it implements `MailTransfer` |
| `AddressLocks` | `flag_file()` for several tasks on one disk |
| `LockTable` | the promise of the flags: a table of locks |
| `MailLines` | the lines at work: every caller of `flag_file()`, over `AddressLocks` |
| `MCMailLines` | the addresses, sessions and directories TLC checks them with |
| `MailLinesProofs` | theorems of `AddressLocks`, also that it implements `LockTable`, and of `MailLines` |
| `UartQueue` | the two rings of `modem.c` between the program and the interrupt routine |
| `ByteQueue` | the promise of each ring: a bounded FIFO |
| `UartProofs` | theorems of `UartQueue`, also that it implements `ByteQueue` twice |
| `Calls` | the call queue of one line: events, rescans, calls, failures, restarts |
| `MCCalls` | nodes, mail and events TLC checks `Calls` with |
| `MCCallLimit` | `MCCalls` with a count of the calls that had carrier, for a finding |
| `CallsProofs` | theorems of `Calls` |
| `Toss` | `import_mail()` by several lines on one inbound directory |
| `MCToss` | the packets, bundle, areas and bases TLC checks `Toss` with |
| `TossProofs` | theorems of `Toss` |
| `Outbound` | `pack_outbound()` and `getfname()` of several lines on one outbound directory |
| `MCOutbound` | the nodes, routes and mail TLC checks `Outbound` with |
| `OutboundProofs` | theorems of `Outbound` |

An operator whose comment begins with "Faulty:" is a wrong version of the one
that follows it. No specification uses it; it is there to show that a property
notices when the code is wrong in that way.

### Janus

`tx[s]` and `rx[s]` are the two halves of `Janus()` on side `s`: its locals and
statics (`Txstate`, `Rxstate`, `Txpos`, `Rxpos`, `Last_blk`, `tx_inhibit`,
`Rpos_count`, ...) and the statics of `getfname()` and `get_reqname()`. `chan[s]`
is what is on its way to `s`: the peer's output buffer and the line, in order.
`marked`, `removed`, `inbound`, `partial`, `got` and `reqdone` are the disks.

Each `XSEND*` case of the transmit switch is an action (`SendBlk`, `SendFname`,
`SendFreqNak`), each packet type in the receive loop is one (`RecvBlock`,
`RecvFname`, `RecvFnack`, ...), each timer is one (`XmitTimeout`, `RposTimeout`,
`BrainDead`); `EndRecv`, `EndTimeout`, `EndNoCarrier` and `EndEscape` are
`endbatch()`. An action contains all that its handler does: `RecvFnack` of a
refusal also runs the post-transfer cleanup and the outbound scan, and `RecvRpos`
discards what is still in the output buffer. A pass of the main loop transmits before it
reads (`janus.c:268`, `319`): `sendfirst[s]` is set at the start of a session and when a
timer asks for a repetition, and until then nothing is read. After a packet that has been
read the loop reads on or transmits, so there the order is open. `Noise`, `LineDrop`,
`Escape` and `NewSession` are the environment.

Abstractions, and what they cost:

- A file is a sequence of units and a block is one or two of them. Which block
  size is used is left open, since it depends on error counts and line speed.
- A packet is whole or `BAD`. CRCs are assumed to notice every garbled packet.
- Names are model values. The packet types carry no more than the code sends: the
  `file` field of `FNACK` and `BLK` is there for properties and is read by no
  handler.
- Time is the order of timeouts. A timer runs out when nothing is on the way, or,
  `MaxEarly` times, while something is. `brain_dead` is the number of retries that
  fit in it; at least one is assumed to fit, which is true at 600 bps and above.
- `getfname()` reads a list of entries: `.?UT` packets (deleted once sent) and
  attached files, kept or deleted. The scan over several addresses and lists is
  `Outbound`.
- Disk errors are not modelled: `j_error()` returns 0, so none of the error
  branches after it is ever taken.

### Address locks and lines

`bsy` is the set of `.BSY` files on the disk, `held[t]` the live slots of the
`last_set[]` of task `t`, `numlocks[t]` its counter, which nothing bounds, since
`flag_file()` does not compare it with `MAX_LOCKS`, `pending[t]` the slot whose
temporary file has been created and not yet renamed. `flag_file(TEST_AND_SET)` is
three steps, because other lines may act in between: `Open` (with `CannotOpen` when
the file can be created neither in the outbound nor in `flag_dir`), then `Rename` or
`CannotRename`. A temporary file has the task's number in its name, so nobody
else ever sees it. `Clear` and `ClearSession` are the other two functions;
`Exit` is the end of the process, which loses `last_set[]` and leaves the files.

Addresses have four numbers and are compared by them in `last_set[]`, whereas the
name of the flag is the directory's (zone 0 and the home zone share one) and the
mailbox's. `HoldDir`, `BSYname` and `BsyFile` keep that difference.

`MailLines` has one task per line and one action per place where a line calls
`flag_file()`: `LockCall` (main loop), `LockNext` (EMSI, WaZOO), `LockRequest`
(`get_filereq()`), `LockFile` (packer), `NoAnswer`, `ClearNext`, `Fts1Lost` and
`PackDone` (clearing), `GetDown`. Those that test and set are built from the steps
of `AddressLocks`. `Serve` is the session turning to the mail of another address,
and is where Janus and ZModem differ: `MaySend` is `have_lock` of `getfname()` for
the one and nothing for the other. `FromName` is how the packer derives an
address from a file name.

Abstractions: `multitask` is on and `line_offset` is set, since otherwise
`flag_file()` returns at once. A session is its list of addresses. WaZOO and FTS-1
sessions are with nodes; WaZOO with a point uses its boss's or a fake net's number.
`TEST_FLAG` only reads and is left out. The rename is taken to fail if its target
exists, as it does on DOS and OS/2; files and directories are not deleted by others.
A process crash is `Exit` in `AddressLocks`, and all that is proved there allows it
at any moment; `MailLines` only exits where the code does.

### Zmodem

`z` is the sender of a WaZOO batch: where it stands (`at`: `init`, `name`,
`drain`, `more`, `data`, `ended`, `sync`, `eof`, `fin`, `done`, `fail`), the entry of
`Outbound` it is at, the position, the last acknowledged one and the counters of retries and
errors. `r` is the receiver: `at`, the tries left, the file it has open and what
it has of it. `toRx` and `toTx` are the two directions of the line. A frame is a
header with its position, a file name subpacket, a data subpacket, which has
neither name nor position, or `BAD`; `CAN` and `OO` are what they are on the wire.
`struck` and `gone` are the sender's disk, `filed` and `partial` the receiver's.

The actions are the waits of the functions: `GetReceiverInfo`, `SendFile`, `SendData`,
`SendEof`, `Interrupted` (the `ZRPOS` handling of `ZS_GetReceiverInfo` and the data
loop), `SyncWithReceiver`, `EndSend` for `zsend.c`; `InitReceiver`, `ReceiveName`,
`ReceiveHeader`, `ReceiveNameAgain`, `ReceiveData`, `AckBibi` for `zreceive.c`. Timers
(`TxTimer`, `RxTimer`) run out when nothing is on the way, either one first: the sender
waits ten seconds like the receiver, and longer only on lines below 6144 bps
(`zsend.c:117`). The environment is bounded by `Faults`, per call: garbled frames and
timers that run out early, and the Escape of either operator or a lost carrier. After a
failure the mailer hangs up, and `NewCall` is the next call.

What it leaves open or out: `CLEAR_OUTBOUND` and `CLEAR_INBOUND` throw away some
part of what is buffered, and which part depends on what the line already
took, so the rest is chosen freely. The arithmetic of CRCs, the block
lengths by baud rate, the window (never used by a WaZOO session) and the keyboard
skip are left out, as are file requests answered over ZModem and `#` entries.

### Serial queues

`UartQueue` is the DOS driver of `modem.c` without FOSSIL. `outq` and `inq` are the
rings with the `head`, `tail` and `avail` of the code; `fg` is where the program
stands. What it does between `disable()` and `enable()` is one action. `en_queue()` in
`BUFFER_BYTE()` is not between them, so it is several (`PutByte`, `PutHead`,
`PutAvail`, `Buffered`), and `dtr8250_isr()` (`IsrTransmit`, `IsrReceive`,
`IsrMstatus`) may come between any two. `ier`, `thre`, `shifting` and `rbr` are what of
the 8250 matters here: whether the transmit interrupt is enabled and pending, and the
bytes in its registers. Bytes are numbered, so that a byte lost differs from one that
came twice. A byte that `BUFFER_BYTE()` finds no room for is dropped, and what CTS
holds back, waits.

`OutLine` and `InLine` are the two `ByteQueue`s that the rings implement. Output may be
refused when the ring is full, input when no more than `High` is free. `Low` and
`High` are 10 and 20 in the code. The OS/2 build, whose queues belong to the system,
the FOSSIL build and the socket variant are left out.

### Calls

`queue` is `call_list[]` as the set of its nodes, which the code keeps sorted, and
`type` the flavours of each one's mail. `next_call` is an index in the code and the
node it stands at here (0 for -1, `Last + 1` past the end). `bad[n]` are the two
counters of the node's record on disk, with carrier and without, `saved` is
`QUEUE.DAT`, `sw` the `sw_net` and `sw_node` of the last call, `event` the current
event, `wrong` is `something_wrong`. `mail` is what lies in the outbound, and `fresh`
the nodes whose files are newer than `QUEUE.DAT` says. `steady` is history: the last
step was a turn that dialled nobody or placed a call that is counted.

`NobodyToDial` and the calls are `execute_events()`: `Found` is the search through
the queue, `Removed` the entries it removes on its way, `Moved` where `next_call`
goes afterwards. A call ends in one of the ways the code tells apart (`NotListed`,
`NoAnswer`, `NobodyHome`, `Completed`, `Broken`, `CutOff`, `LostCarrier`, `Escape`),
each of which counts or clears with `bad_call()`, and goes on or leaves through
`get_down()`. `Arrives`, `Rescan`, `StartEvent`, `Restart` and `PowerFails` are what
else changes the queue: new mail, `RESCAN.NOW`, the schedule, and the program started
again with what is on disk. One line only, and without `multitask`: `flag_file()` then
returns `FALSE` at once, so that no entry is skipped for its `.BSY` file (`lora.c:1233`,
`1270`, `1364`). What the lines do to each other at a mailbox is `MailLines`.

Left out: points, zones (two zones whose outbounds are mixed up), incomplete
`.Z` bundles, mail of unknown flavour, manual polls and the times between calls. An
event is always current, as in any schedule without gaps, and all events have the
same limits.

### Tossing

`bundles`, `waiting` (`*.PK?`), `badpkt` (`BAD_PKT.nnn`) and `spoiled` (`BAD_ARC`) are
the inbound directory, `stored` the message bases, `dupes` is `DUPES.DAT`, and `line[t]`
the locals of `import_mail()`, `process_packet()` and `unpack_arcmail()` on line `t`:
where it stands, the packet and its number (`pkt`, `num`), the place in it (`pos`),
`areatag`, `dupecheck` (`ring`), the base that `sys` names and the one that is open
(`sys`, `base`), and what is in the stdio buffers of `f1` to `f5` (`buf`). `lost` are
the bases left open by a packet that was given up.

`Begin` to `UnpackDone` are `unpack_arcmail()`: a bundle is looked at (`Identify`),
its unarchiver started (`Spawn`) and finished (`Unarchive`), and the bundle deleted
or renamed. `Pick`, `Number`, `Rename`, `Open`, `CannotOpen`, `ClosePacket` and `Unlink`
are the loop of `import_mail()` over the packets; another line may act between any two.
`process_packet()` is `FileMessage`, as long as the area stays the same, and
otherwise `LeaveArea` (`write_dupe_check()`) and the parts of `read_dupe_check()`:
`BadArea`, `CloseBase`, `OpenBase`, `ReadDupes`. `EndPacket` and `Flush` are its end,
`CannotSave` where it gives up. `Crash` is the end of a process at any moment.

`dupes[a]` is all hashes of an area in the order in which they came, of which the file
has the last `MaxDupes` and `check_and_add_dupe()` looks at no others (`Recent`), as
the documentation says (`lora.doc:1615`). The number of a hash in that sequence
(`n`) is in the entries of the bases too, for the properties, as is `env`.

Left out: messages refused for their origin, netmail, `*.MSG` and passthrough areas
(an area without a base stands for them, which closes the one before), passing on to
other systems, the creation of areas, TIC files; inbound directories other than the
first; two packets of equal name of which the unarchiver overwrites one, archives
whose method is not recognized, and `MSGTMP.IMP`, which the lines share. Every packet
has the version `PKTVER`: one that has not is closed unread (`import.c:391`) and deleted
or kept by the value `i` has from the packet before (`import.c:417`), and neither is in
`ClosePacket`.

### Outbound

The files of the outbound directory are the state: `xpr`, `aside` (`.X$R`) and `out`
are the packets of a node, `pkt` is what all `*.PKT` together hold, which belong to
nobody in particular, `shelf` the `.P$T` and `NOARC.nnn`, which nothing reads again,
`bundle[n]` the bundles of a node, a truncated one being empty, and `lo[n][f]` the lines
of its `.?LO` of flavour `f`. `busy` is what `MailLines` knows in detail: who has the flag
of an address. `line[t]` are the locals of `pack_outbound()` and the statics of
`getfname()`; `env` has the bounds, and history for the properties.

`Export` is `open_packet()`. The packer is `Begin` (leftover `.PKT` renamed),
`NextCommand` and `FindNone` (the lines of `ROUTE.CFG`), `TakePacket` and `SetAside`
(`rename()` of a packet that is found, by whether the node's flag is to be had),
`ListBundle` and `Archive` (`call_packer()`: the list first, then the archiver, which
may fail with or without having written), and `PackDone`, `Restore`, `RestoreDone`
(`clear_temp_file()`). `nopack` and `blko` are the variables of that name; `blko` is
`None` before any search for a group, where the code has the directory it looked at
first.

A session is `Connect`, and then `getfname()`: `SendOut` and `SendListed` find the next
file, `EndAddress` goes on to the next address, `Acknowledged`, `Unlink` and `Strike` are
what is done after a file has been sent, `Refused` after it has been refused, `Halt` is
`ABORT_XFER`. `Due` is a line of a list still to be sent, `Without` the lists that are
deleted because they were read to the end. What happens on the line in between is
`Janus`; here the file arrives (`Arrive`) or the session ends (`HangUp`).

Left out: points and other zones, the flavours `.DUT`, `.CUT` and `.HUT`, which only
the command Change makes, the other commands of `ROUTE.CFG` (SendFile-To,
RouteFile-To, Poll, Leave, UnLeave), passwords that differ between the addresses of a
session, the scan of `send_WaZOO()`, the weekday in the name of a bundle, and lists
somebody edits. `open_packet()` and the writing after it are one step; a packet that is
renamed while it is being written is not covered. The copy `copy_mail_packet()` makes
(`export.c:116`) is one step too, in `Restore`: a session that cannot open the `.OUT` meanwhile and skips
it (`janus.c:1019`), one that sends a part of it, and a process that dies during the copy
are not covered either. `rename_out_packets()` (`pack.c:183`), which makes every `.OUT` an
`.XPR` again, is called from nowhere in the source and left out.

## What the runs check

| Run | Instance | Question |
|---|---|---|
| `JanusNoise` | a packet and a file one way, a file the other, two request lines, for two files and for none; two packets garbled or swallowed, or one of them and an early timer, fair main loops | is everything received intact and once, nothing struck off or called finished before it has arrived, a request commented out only once it is served, and does all of it arrive if no more is lost than can be repeated? (also the type invariant) |
| `JanusAbort` | a two-unit file, two sessions, an abort or a lost carrier, two packets lost, one repetition before `brain_dead`, fair main loops | do transfers resume where they stopped, is what was received kept, do the calls together do what `MailTransfer` promises, and do both sides leave `Janus()` in either session whatever is lost? |
| `ZmodemCalls` | a packet and a two-unit file over two calls; the first is cut off once by an operator or the line, the second has one garbled frame or one early timer | is what is filed whole, what is cut off a beginning, what is struck off filed, does each call end, and do the calls together do what `MailTransfer` promises? |
| `LinesShared` | two lines, no `flag_dir`; Janus and WaZOO sessions in and out, packing; a zone with two numbers, a missing point directory | is no mailbox worked on twice, and no flag left behind? |
| `LinesAny` | two lines, `flag_dir`, a directory that appears, FTS-1, file requests, calls to points, misread names | whatever the lines do, does `flag_file()` keep a table of locks? |
| `UartQueues` | rings of three and four bytes, marks at two, six bytes in all, one byte after RTS was dropped; CTS goes off, the carrier goes or Escape is pressed once | are both rings queues, does RTS come back, is no wakeup of `UNBUFFER_BYTES()` lost? |
| `CallQueue` | two nodes, mail of four flavours, three events (one receive-only, one that forces a crash call), two calls with and one without carrier | does the queue miss no mail, is no node called past its limits, is a node that waits called in the end? |
| `TossMail` | two lines, a packet and a bundle of one, three areas on a shared and a Squish base and an unknown one; one write that fails, one process that dies | is no message filed twice, is none lost, do the lines not wait for each other for ever? |
| `OutboundMail` | a hub and a leaf behind it, two messages waiting and one written later; one line packs twice, under one of two routes each time, another has two sessions with the hub; one process dies | is mail in some file until it arrives, is a bundle that holds mail listed, does mail go only where a route sends it? |
| `JanusStaleFnack`, `JanusReqCleanup`, `CallLimit` | | violations, see *Findings* |

**Bounds.** A Janus file of two units with blocks of at most two has a first, a
last and an only block, a gap and a block repeated; two files in one direction are
enough for an answer to be taken for the wrong one. Two losses are the least that
can hit a packet and its repetition, or a packet and its answer; an early timer counts
as one of them (`MaxNoise` bounds both together, `MaxEarly` how many may be timers). The
handlers have no memory that counts further, except for `RposLimit`, which is 1 instead of 4 where
one-way mode has to be reached with that noise. `MaxIdle` (retries before
`brain_dead`) is smaller than the noise in `JanusAbort`, so that a session that loses
more than it can repeat has to end by itself, and not smaller in `JanusNoise`, where
the mail has to arrive. Two sessions and one abort show a resumed transfer, which the
noise may end again. `MaxHalts` and `HaltAcks` are smaller than in the code (2 and 10):
they only count repetitions of one packet.

In `Zmodem` a two-unit file has a boundary to resume at; the counters `Tries`,
`RposTries` and `Errs` are small so that each runs out. A call that was cut off comes
before one with noise, because the second then resumes and is disturbed while it
does.

Two lines are enough for one to take, hold or give up a flag between two steps of
the other. `PackMax` is the number of flags one packing run takes, `DialLocks` the
slots a process may have used up when it starts a session. So `numlocks` stays far below
`MAX_LOCKS` in the runs; the code, which has no `DialLocks`, may pass it and then writes
past the end of `last_set[]`, which no property here covers.

The rings of `UartQueue` are as small as their marks allow: both wrap around, fill up,
stop the other side and empty again. Six bytes go round either. In `Calls`
two nodes give a first and a last entry and an entry that is removed before and
after `next_call`; a limit of two is the least one at which one call fails
within it.

In `Toss` the second packet repeats a message of the first one, and one of its own
after one of an unknown area; the two packets name the areas in opposite orders, and two
boards of one base come after each other. `MaxDupes` is 1 instead of 1000, so that a
hash is soon out of the record, and `MaxNumber` 3 instead of 999, more than
there are packets. A bundle and a packet of their own suffice for one line to unpack what
another tosses.

`Outbound` needs a hub that presents two addresses, of which the flags may or may not be
had, and a node whose mail goes direct under one route and through the hub under the
other. Two runs of the packer and two sessions are the least at which what one leaves
behind (a `.PKT`, an `.X$R`, a truncated bundle, a struck-off line) is met by another.
Two names of bundles suffice for one to be spent and the next taken.

**Deadlock** is not checked for Janus and ZModem, where all calls over is the end, nor
for `UartQueue`, where `UNBUFFER_BYTES()` may wait for ever when the modem has
stopped the output, nor for `Toss`, where all is tossed in the end and some waits are
for ever (`Hung`), nor for `Outbound`, whose bounds run out. The lines and the call
queue never stop, and it is checked there.

**Fairness.** `Janus()`'s main loop never blocks: in each pass it transmits what its
state calls for, reads what has come in and looks at its timers. So weak fairness of
transmitting, receiving and timers of each side, and of `endbatch()` and the hang-up
after it (`JanusNoise`, `JanusAbort`). ZModem's loops block only in waits that time
out, so weak fairness of both sides' steps and timers (`ZmodemCalls`). The program
and the interrupt routine of `UartQueue` go on when they can, and the 8250 transmits what
it has; CTS may stay off for ever, and `Drains` leaves that case out. The main
loop of `Calls` goes round for ever (weak fairness of `Turn`); `CallsProgress` assumes
that new mail, events and calls that nobody counts come to an end, since each may begin
the queue again. An import goes on whenever it does not wait for a base (weak fairness
of the steps of each line in `Toss`); that it begins is not assumed. Nothing is
assumed of the line, the operator or the peer; noise beyond what `brain_dead` leaves
time to repeat may end any session, and `AllArrive` says so.

## What is proved

For any two mailers, any files, outbounds and request lists, any amount of noise and
any number of sessions (`JanusProofs`):

- `TypeCorrect`: `TypeOK` always holds. It is inductive: the states of a half and
  the file it has open depend on each other, and a packet's fields on its type, so
  that `RecvFreq` only ever looks up a request line that exists.
- `RetryCorrect`, `OneWayCorrect`: the retry timer runs exactly in the states that
  wait, and `tx_inhibit` is set only on the called side and only while it is
  receiving. The inductive form of both, `HalvesInStep`, drops "in the main loop".
- `PlacesCorrect`: a unit is only ever written at its own offset, through
  retransmission, refusal, abort and resumption. `ReceivedPlaced` adds what makes
  it inductive: the position of the receiver is the length of what it has.

For any two mailers, any noise and any number of sessions, as long as no file is
refused (`NoRefusal`) and requests are not limited (`MaxRequests = 0`)
(`JanusDelivery`):

- `ReceivedIntactHolds`: what is filed is the whole file it is named after.
- `RequestsServedHolds`: a request is commented out once all of it has arrived.
- `NoMailLostHolds`, `CleanEndHolds`: nothing is struck off before it has arrived, and
  a side that leaves without `something_wrong` has sent and received everything.
- `PartialKeptHolds`: what is kept of an interrupted transfer only grows.
- `FnackHolds`: an answer is about the name sent last.
- `ReceivedOnceHolds`: in one session (`MaxSessions = 1`), if no file is listed twice
  (`NamedOnce`), no file is filed twice.
- `TransfersMailHolds`: `Janus` implements `MailTransfer`. `RecvEofAck` is `Strike`, the
  steps that file what is complete are `Deliver`, and all else stutters.

`NoRefusal` speaks of what the receivers answer. `NeverRefused` shows when it holds by itself:
in one session, if no file is listed twice (`NamedOnce`), the peer has none of those
listed or asked for (`NewMail`), and whenever a name is read there is room for its file
(`NameFits`, the one thing asked of the disk). `NewMailDelivered` puts this together with
the theorems above: from these four, `MaxRequests = 0` and `OutboundsApart` follow all
eight properties, including the refinement, over any noise and however the session ends.

The inductive invariant, `SessionInv`, is about everything in transit. `Delivery` looks at
each direction by itself (`Dir`): the transmitter names a file, sends it, denies a
request or is done, and each of these limits what the receiver may be doing, which
packets may be on their way and in which order. While a file is named, for instance,
the receiver has agreed to this file or to none, and behind a packet that names it
comes nothing but packets that name it (`NamingInv`); while it is sent, no block of
another is in transit, and a receiver that has gone on already has it (`SendingInv`).
`ScanInv` says that what lies behind the scan is struck off, `RequestInv` that what was
asked for has arrived or is still on the list. `Intact` is about the disks: what is
received, kept or under way is a beginning of its file.

`ReceivedOnceHolds` needs more than `SessionInv`: that what one direction may still bring
is new to its receiver (`Fresh`). This is the file under way, until its last block is
filed; what lies ahead of the scan; the rest of the list of requested files; and what
later requests ask for (`FreshFile`, `FreshList`, `FreshRequests`). The request under way is
the delicate part. It is repeated until its first file is named, so its list is new
as long as `req_started` is down; and once a request is on the line, or its list is
being sent, one of `req_started` and `attempting_req` is up. Otherwise a request heard
twice would bring its files twice. Each step of either half keeps this, and only
`RecvBlock` adds to what has been filed. The theorem is about one session, because in a
second one a file whose acknowledgement was lost is rightly sent again, and it assumes
`NamedOnce`, because `getfname()` takes each line of a `.?LO` by itself and answers to
requests are not compared with anything: a file that is listed twice, or attached and
also asked for, may be sent twice.

`NeverRefused` uses the same facts once more. What makes `procfname()` refuse a name, apart
from the room, is a complete file of that name in the inbound area. Such a file was
held before or has been filed (`InboundKnown`). A name read between files is that of
the file under way or null, by `NamingInv`; that file has not been filed, by
`FreshFile`, and is not held, by `NewMail`. Only `RecvFname` puts an answer to a name on
a line (`FnacksStep`); a repeated name gets the position of the file under way, and a
null name repeated at the end gets the position it got before (`EndTaken`). So
`NoRefusal` is inductive together with `SessionInv` and `Fresh` (`OnlySession`).

The lemmas treat the line as a set of packets and of pairs in order (`In`, `Pairs`): a
packet that is read, lost or garbled leaves fewer of both (`Fewer`), one that is sent adds
itself behind the others (`Adds`). So an action only has to say which of the two it does.

The two hypotheses are the two findings about Janus, turned round. A second refusal of
one name is taken for an answer to the next (`JanusStaleFnack`), which is then skipped or
struck off without having been offered; and a request repeated over the limit is denied
with a file still open (`JanusReqCleanup`). A file is refused when there is no room for
it, or when the receiver has a file of that name: one it has received in full in a
session that ended before the sender knew. So the theorems are about resumption, but not
about offering again what has arrived, which is left to `JanusAbort`; in `JanusNoise` and
its 206,256 states nothing is refused. `NoMailLostHolds`, `CleanEndHolds` and
`TransfersMailHolds` also assume that no model file stands for an entry of both
outbounds (`OutboundsApart`), since the outbounds are two machines' and "struck off" is
told by the file alone.

For any files and list of them, any number of calls, faults and retries
(`ZmodemProofs`), as long as no refusal is repeated (`RefusedOnce`):

- `ReceivedIntactHolds`, `BeginningsHold`: what is filed is the whole file it is named
  after; what is kept of one that was cut off, or is there of the one under way, is a
  beginning of it, whatever the line damages or loses and wherever a transfer resumes.
- `NoMailLostHolds`: if the receiver has room for every file (`Roomy`), nothing is
  deleted or flagged as sent before the other side has all of it.
- `TransfersMailHolds`: on the same two conditions `Zmodem` implements `MailTransfer`. The
  step that accepts `ZEOF` is `Deliver`, the one that takes a `ZRINIT` or `ZSKIP` for the
  end of the file is `Strike`, and all else stutters.
- `PacketsTransferred`: if all the mail is in packets, all four hold without
  `RefusedOnce`, since a packet comes under a new name in every call and is never
  there already (`Unrefused`).

What makes this hard is that the frames of a file do not name it: a block has neither
name nor position, `ZEOF` only a position, and `ZRINIT` and `ZSKIP` nothing at all. The
inductive invariant `Inv` supplies what they leave out:

- `Order`: a name on its way is that of the sender's file, the one the receiver has
  open is that file, and frames of two files are never behind each other where the
  receiver would take the second for part of the first.
- `Chain`: the frames on their way to a receiver with an open file can be given
  positions so that each block carries what belongs there, `ZDATA` says the position it
  has, and whatever follows a `ZDATA` or an unfinished frame goes on where that ends or is
  damaged. A lost or damaged frame keeps the positions of the others (`ChainPart`); the
  sender adds at the end (`ChainAppend`), the receiver takes from the front.
- `Replies` and `Consent`: a `ZRINIT` on its way to a sender that sends, or a `ZSKIP` to
  one that asks, means that the receiver has the sender's file (or no room for it), and
  behind a `ZRINIT` comes no `ZRPOS` of the file before.
- `Place`, `Data`, `Unstruck`: positions stay within the file, what is there is a
  beginning of what it is called, and what is offered has not been struck off.

`RefusedOnce` says that a `ZSKIP` on its way is the only one, with no repetition of the
file's name still to be answered. It excludes just the hazard at `zsend.c:637`: after
an early timeout in the drain loop the name is sent twice, a receiver that has the
file refuses twice, and the second `ZSKIP` strikes off the next file. TLC finds that
with a file that is already there and another behind it.

For any tasks, addresses, directories and sizes (`MailLinesProofs`):

- `LocksTypeCorrect`: slots are well formed, no more of them are live than the `numlocks`
  that `CLEAR_SESSION_FLAG` goes through, and no task flags an address it has. How large
  `numlocks` becomes is left open.
- `FlagsApartCorrect`: what the tasks hold is on the disk and no two slots share a
  file. The rename lets one through; clearing deletes only files of slots that
  go, and by the same invariant no other slot has one of those.
- `ExclusiveCorrect`: without a `flag_dir`, no mailbox is held twice. The file of a
  slot that was not punted is its mailbox's; `NonePunted` is the inductive part.
- `TableKept`: `AddressLocks` implements `LockTable`, with `holds` the files of the
  live slots and `lost` the files nobody has a slot for. `Rename` is `Take`, the two
  clearings are `Release`, `Exit` is `Leave`, and all else stutters.

For any number of lines (`MailLinesProofs`):

- `LinesUseLocks`: every step of the lines is a step of `AddressLocks` or leaves it
  alone, so the theorems above hold of the lines. It needs `LinesOK`, which relates
  what a line is doing to its addresses and to the flag being created for it.
- `OneLineCorrect`: no two lines work on one mailbox, provided that no `flag_dir` is
  configured, sessions are Janus or WaZOO, and the packer finds the mailbox from
  the names of the files it packs. By `LinesOK` what a line works on is in its
  `last_set[]`; by `ExclusiveCorrect` it is in nobody else's. The findings
  and hazards show what becomes of it without each of the three.
- `NothingLeftCorrect`: a flag is on the disk only while the line that made it is at work,
  provided that a node presents the address it was dialled at and neither FTS-1 sessions
  nor file requests are made (`PresentsDialled`). `Tidy`, the inductive part, says that the
  addresses a line will clear (`WillClear`: those the session presented, or the one being
  called or packed for) are all it has, and that the flag of the one dialled
  is among those of the session.

For any sizes of the rings and any marks that fit them (`UartProofs`), each by an
invariant of its ring (`OutInv`, `InInv`) which relates `head`, `tail` and `avail`, also
while `en_queue()` is half done:

- `SendsInOrderHolds`, `ReadsInOrderHolds`: each ring implements `ByteQueue`. `PutAvail`
  is `Put`: until `avail` is decremented, the byte is not there for the interrupt.
- `EmptyIsEmptyHolds`: `head = tail`, which is also true of a full ring, means an empty
  one whenever the program may ask. Input stops before the ring is full; output is
  drained when it gets there, unless somebody gave up on that.
- `StoppedForAReasonHolds`: the program never waits to read with RTS off and room in
  the ring, except after `CLEAR_INBOUND()`.

For any nodes, limits and events (`CallsProofs`):

- `CallsTypeCorrect`, and with it that `next_call` is a place in the queue or beside it.
- `QueueCompleteHolds`: mail that the last look at the outbound has seen, and that the
  event lets through, is in the queue, although entries are removed one by one and
  the queue comes back from `QUEUE.DAT`.
- `LimitsKeptHolds`: the counters of a node pass the limits of the event by one at most,
  and only through what went wrong after its last call. The inductive part, `LineInv`,
  says that the node dialled last is the one to be blamed, and was within its limits
  when it was dialled.

For any lines, packets, bundles, areas, numbers of failures and any `MaxDupes`
(`TossProofs`):

- `TossTypeCorrect`: `TypeOK` always holds. `LineInv`, its inductive part, relates what a
  line has open to what it believes to have open: while an area is open, `sys` and the
  open base are the area's, and without a base nothing is in buffers.
- `TossedOnceHolds`: as long as no write fails and no process dies (`Calm`), no base
  gets a message twice within `MaxDupes` others. The inductive part, `OnceInv`: a base
  is held by one line; every entry of a base, or in a buffer on its way there, is in the
  ring of the line that has the area open, or else in `DUPES.DAT`, in order; and once
  the record is written, the two are the same until the base is closed.
- `NothingLostHolds`: whatever fails and dies, a message is filed or a packet or bundle
  has it, but for packets opened again before their deletion and what a dying process
  had in its buffers. `KeptInv` says that what `DUPES.DAT`, a ring or the place in a packet
  stands for is filed, or in the buffers of a line; the next line to read the record
  needs the base, and by then they are written. `DiskInv` says that a packet is there, or
  in a bundle, or filed whole, and that a line about to delete one is alone at its number.

For any lines, nodes, routes, sessions and mail, and any number of processes that die
(`OutboundProofs`):

- `OutboundTypeCorrect`: `TypeOK` always holds: a session strikes off a line that is
  still in its list, although the packer adds to lists at any time.
- `MailKeptHolds`: mail is in some file of the outbound until it has arrived. The
  inductive part, `LineInv`, is what a flag is for: a line that packs or sends has the
  flag of the node (`FlagInv`), so that what it is about to delete is what has arrived
  (`FileInv`) and its place in a list is the place it has left (`ListInv`). `Change` says
  what a step of another line may do to a node whose flag it does not have; the .OUT is
  the exception, since `clear_temp_file()` does not ask.
- `ListedHolds`: a bundle with mail in it is on a list and not struck off unless it was
  refused. Before its place in a list a session has left nothing that is still to be
  sent, so that a list read to its end is deleted for good reason.
- `WhereItMayHolds`: if no two lines pack (`OneLinePacks`), mail arrives at its node or
  at a hub it is routed to. `Where` says that the `*.PKT` are empty between two bundles
  and belong to the bundle under way otherwise. The assumption is needed: all lines take
  the `*.PKT` of the one directory.

The assumptions are the `ASSUME`s of the modules: they say what the constants are,
and TLC evaluates them in every run. `OneLinePacks`, `OutboundsApart` and
`MaxRequests = 0` are assumptions of single theorems, and so are `NamedOnce` and
`NewMail` with `MaxSessions = 1`, `PresentsDialled`, `Roomy` and `OnlyPackets`; the
constants of `OutboundMail` meet the first, those of `JanusNoise` and `JanusAbort` the
next two, those of `JanusNoise` also `NamedOnce`, `NewMail`, the single session and, with
room for more than all files together, `NameFits`; those of `LinesShared` meet
`PresentsDialled`, and those of `ZmodemCalls` `Roomy`.

Model-checked and not proved: the liveness properties, which are beyond the proof
system; every safety property of the passing runs has its theorem. Nothing here is a recursive
operator, and no proof needs induction over data.

## Findings

Three places where a comment, document or the evident purpose of the code says one
thing and TLC finds it doing another:

- `JanusStaleFnack` (`janus.c:442`): after one garbled packet, a repeated refusal
  is taken for the answer to the next file, which is struck off without having been
  offered. In the run the receiver of a first file answers the garbled packet with `RPOS`,
  gets the file twice and sends `EOFACK` twice; the second one makes the sender repeat the
  name of the second file, which the receiver has, so that two refusals come back. A
  file ahead of the refused one is needed for it, or a timer that runs out early.
- `JanusReqCleanup` (`janus.c:791`): after a request is repeated over the request
  limit, cleanup deletes the requested file from the file area.
- `CallLimit` (`config.c:690`): `get_down()` counts a session in which something went
  wrong, after the end of that session has deleted the counters. The count never
  passes one, so that "Max failed" (`lora.doc:9768`) does not stop the calls.

Others were met while reading. They are hazards without a run of their own, and
properties are checked where they do not apply:

- a file refused for lack of disk space is flagged as sent (`janus.c:811`);
- an EMSI call to a system that presents another address than the one dialled leaves
  a flag behind for ever (`wazoo.c:1844`): the code that was to clear it,
  `lora.c:1242`, is not reached, since sessions end in `get_down()`;
- ZModem sends an address's mail though another line has its flag (`wazoo.c:1704`);
- a late second `ZSKIP` is taken for the answer to the next file (`zsend.c:637`);
- the flag of a punted address and that of the mailbox are different files
  (`door.c:1085`);
- `last_set[]` is written past its end after `MAX_LOCKS` addresses that were flagged and
  not cleared all at once (`door.c:1110`);
- the packer reads hexadecimal numbers with `atoi()` (`pack.c:104`);
- FTS-1 sessions and `get_filereq()` leave flags behind (`poller.c:428`,
  `janus.c:1880`);
- a message that follows one of an unknown area is not recognized as a duplicate
  (`import.c:957`);
- a base stays locked after a message that could not be saved (`import.c:1645`);
- a line that opens a packet another is about to delete may lose the next one
  (`import.c:418`);
- what `clear_temp_file()` adds to an `.OUT` may be deleted by the session that has just
  sent it (`pack.c:153`, `janus.c:793`);
- `Send-To` for one node names the packet of a busy node after the last search for a group
  (`pack.c:527`): the packet comes back as another node's `.OUT`;
- two lines that pack share `*.PKT`, and archive each other's (`pack.c:773`); with two
  packers `WhereItMay` fails. `lora.doc:240` has it that the name of every temporary
  file contains the task number, so that no two lines use the same one;
- with the hub of a `Route-To` busy, a second packet for a node that has an `.X$R` already
  makes `rename()` fail for ever, and the flag is not asked for again (`pack.c:1069`);
- `.P$T` and `NOARC.nnn` files are never read again (`pack.c:270`, `pack.c:1360`);
- a bundle that is refused is struck off, its list deleted, and nothing sends it until
  the packer lists it again (`janus.c:466`).

## Plan

In this order; each item is a module, its runs, and the theorems worth proving.

1. `Outbound`: points and zones, the other commands of `ROUTE.CFG`, the scan of
   `send_WaZOO()`; then the composition with `Toss`, from one system's packet to the
   other's message base.
2. `EmsiSession`: the handshakes with their retries; both sides agree on the
   protocol.
3. `Scheduler`: events across midnight, against a reference definition.

## Not modelled

- **EMSI, WaZOO and FTS-1 handshakes**: what they agree on is an input of the models
  here (which addresses, which protocol). Most of their code parses and prints.
- **The scheduler's clock**: `Calls` lets events begin at any time, which covers
  whatever `sched.c` computes but shows nothing of it.
- **Message bases**: four file formats with their indexes. What could be
  checked of them is one process's sequence of writes.
- **Board, editors, configuration, utilities**: terminal input and output, menus,
  file formats and listings, by far the greater part of the 113,000 lines. Their
  state is one caller's and nothing in it waits, retries or is shared; a
  model would only copy it. So the share of all lines that the models cover
  stays small, while it is large in the files that hold the protocols.
