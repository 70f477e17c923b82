-------------------------------- MODULE Zmodem --------------------------------
(***************************************************************************)
(* One batch of mail over ZModem: send_WaZOO() and the ZS_ functions of    *)
(* zsend.c at one end, get_Zmodem() and the RZ_ functions of zreceive.c at *)
(* the other, and the line between them, over one or more calls.           *)
(*                                                                         *)
(* A frame is what Z_GetHeader() or RZ_ReceiveData() reads as a whole: a   *)
(* header, the subpacket with a file's name, a subpacket of data.  Data    *)
(* subpackets carry no position and no name, as in the code.               *)
(***************************************************************************)
EXTENDS Integers, Sequences, SequencesExt

CONSTANTS
  Files,     \* files the sender has
  Packets,   \* the .?UT among them: sent under a new name in every call
  KillSent,  \* '^' entries of the .?LO list: deleted once sent
  Size,      \* length of a file, in units of the block size
  Outbound,  \* the order in which send_WaZOO() offers them
  Locked,    \* files that exist and cannot be opened
  Held,      \* files the receiver has to begin with
  Room,      \* DiskAvail of the receiver: measured once, never counted down
  Tries,     \* repetitions the receiver allows itself (10 and 12 in the code)
  RposTries, \* ZRPosCount (10)
  Errs,      \* timeouts ZS_SyncWithReceiver() takes (2, and 8 after ZEOF)
  Faults,    \* per call: how often the line garbles or a timer runs out early, and how
             \* often someone aborts or the carrier goes
  None       \* no file

ASSUME ZmodemAssumption ==
  /\ Packets \subseteq Files /\ KillSent \subseteq Files
  /\ Locked \subseteq Files /\ Held \subseteq Files \ Packets
  /\ Size \in [Files -> Nat \ {0}]
  /\ Outbound \in Seq(Files) /\ Room \in Nat
  /\ \A i, j \in DOMAIN Outbound : Outbound[i] = Outbound[j] => i = j
  /\ Tries \in Nat \ {0} /\ RposTries \in Nat \ {0} /\ Errs \in Nat
  /\ Faults \in Seq([noise : Nat, quits : Nat]) /\ Faults # <<>>
  /\ None \notin Files

VARIABLES
  z,        \* sender: at, idx (what it offers), pos, last, cnt, errs
  r,        \* receiver: at, n (tries left), file, data
  toRx,     \* frames on their way to the receiver
  toTx,     \* frames on their way to the sender
  up,       \* there is a carrier
  struck,   \* files the sender will not offer again
  gone,     \* files the sender has deleted
  filed,    \* what the receiver has stored complete, in order: [name, data]
  partial,  \* BadWaZOO files: what was received of a file before an abort
  env       \* faults left in this call, and the number of the call

vars == <<z, r, toRx, toTx, up, struck, gone, filed, partial, env>>
txOnly == <<r, up, filed, partial, env>>
rxOnly == <<z, up, struck, gone, env>>

Unit(f, i)  == <<f, i>>
Content(f)  == [i \in 1 .. Size[f] |-> Unit(f, i)]

Hdr(t, p)   == [type |-> t, pos |-> p]
Name(f)     == [type |-> "NAME", file |-> f]
Sub(d, e)   == [type |-> "SUB", data |-> d, end |-> e]
Bad         == [type |-> "BAD"]
Can         == [type |-> "CAN"]
OO          == [type |-> "OO"]
Headers     == {"ZRQINIT", "ZFILE", "ZDATA", "ZEOF", "ZFIN", "ZNAK",
                "ZRINIT", "ZRPOS", "ZSKIP"}

\* BUFFER_BYTE and SENDBYTE: without a carrier what is sent goes nowhere.
OnLine(c, s) == IF up THEN c \o s ELSE c

\* CLEAR_OUTBOUND: what has not been transmitted yet is discarded; a frame of
\* which a part has gone out arrives damaged.
Cleared(c) == {SubSeq(c, 1, k) : k \in 0 .. Len(c)}
              \cup {SubSeq(c, 1, k) \o <<Bad>> : k \in 0 .. Len(c) - 1}

\* CLEAR_INBOUND: what has arrived so far is discarded.
Flushed(c) == {SubSeq(c, k, Len(c)) : k \in 1 .. Len(c) + 1}

-----------------------------------------------------------------------------
(* The sender *)

\* send_WaZOO(), its scan: what is offered after entry i, neither deleted nor flagged
NextEntry(i, s) ==
  LET left == {j \in DOMAIN Outbound : j > i /\ Outbound[j] \notin s}
  IN  IF left = {} THEN 0 ELSE CHOOSE j \in left : \A k \in left : j <= k

\* The file being sent
Offered == Outbound[z.idx]

\* send_WaZOO() and send_Zmodem(): entry i of the list, or the end of the batch.
\* A file that cannot be opened makes send_Zmodem() return OK, which is FALSE, and
\* send_WaZOO() stops there without ending the batch.
Offer(i) ==
  LET next == IF i = 0 THEN "fin" ELSE IF Outbound[i] \in Locked THEN "fail" ELSE "name"
  IN  /\ z' = [at |-> next, idx |-> i, pos |-> 0, last |-> 0, cnt |-> 0, errs |-> 0]
      /\ toRx' = OnLine(toRx,
           CASE next = "fin"  -> <<Hdr("ZFIN", 0)>>
             [] next = "fail" -> <<>>
             [] next = "name" -> <<Hdr("ZFILE", 0), Name(Outbound[i])>>)

\* A file that was sent: a packet is unlinked, an entry of a list is flagged '~'
\* and its file deleted if it was a '^' entry.
FileSent ==
  /\ struck' = struck \cup {Offered}
  /\ gone' = IF Offered \in Packets \cup KillSent THEN gone \cup {Offered} ELSE gone
  /\ Offer(NextEntry(z.idx, struck'))

\* A file that was refused (SPEC_COND): a packet stays, an entry is flagged all
\* the same, and no file is deleted.
FileSkipped ==
  /\ struck' = IF Offered \in Packets THEN struck ELSE struck \cup {Offered}
  /\ UNCHANGED gone
  /\ Offer(NextEntry(z.idx, struck'))

TxKeeps   == UNCHANGED <<struck, gone>>

\* Faulty: a failed file is cleaned up after like one that was sent
TxFailStriking == /\ z' = [z EXCEPT !.at = "fail"] /\ UNCHANGED <<toRx, gone>>
                  /\ struck' = IF z.idx = 0 THEN struck ELSE struck \cup {Offered}

\* Any error: send_WaZOO() leaves the file and its entry as they are.
TxFail    == z' = [z EXCEPT !.at = "fail"] /\ UNCHANGED toRx /\ TxKeeps
TxRepeats == /\ toRx' = OnLine(toRx, <<Hdr("ZFILE", 0), Name(Offered)>>)
             /\ z' = [z EXCEPT !.at = "name"]
             /\ TxKeeps

TxReading == z.at \in {"init", "name", "drain", "sync", "eof", "fin"}
TxHeader  == Head(toTx).type
TxTakes   == TxReading /\ toTx # <<>> /\ UNCHANGED txOnly

\* ZS_GetReceiverInfo(): anything but ZRINIT and an abort is answered with ZNAK.
GetReceiverInfo ==
  /\ TxTakes /\ z.at = "init" /\ toTx' = Tail(toTx)
  /\ CASE TxHeader = "ZRINIT" -> Offer(z.idx) /\ TxKeeps
       [] TxHeader = "CAN"    -> TxFail
       [] OTHER -> /\ z' = IF z.errs = 0 THEN [z EXCEPT !.at = "fail"]
                                         ELSE [z EXCEPT !.errs = @ - 1]
                   /\ toRx' = OnLine(toRx, <<Hdr("ZNAK", 0)>>)
                   /\ TxKeeps

\* ZS_SendFile(): what is done with the receiver's answer to ZFILE.
SendFile ==
  /\ TxTakes /\ z.at \in {"name", "drain"}
  /\ TxHeader = "ZRPOS" => toTx' \in Flushed(Tail(toTx))
  /\ TxHeader # "ZRPOS" => toTx' = Tail(toTx)
  /\ CASE TxHeader = "ZRINIT" \/ (TxHeader = "CAN" /\ z.at = "drain") ->
            z' = [z EXCEPT !.at = "drain"] /\ UNCHANGED toRx /\ TxKeeps
       [] (TxHeader = "CAN" /\ z.at = "name") \/ TxHeader = "ZFIN" -> TxFail
       [] TxHeader = "ZSKIP"  -> FileSkipped
       [] TxHeader = "ZRPOS"  ->
            /\ z' = [z EXCEPT !.at = "more", !.pos = Head(toTx).pos,
                              !.last = Head(toTx).pos, !.cnt = RposTries]
            /\ IF Head(toTx).pos = 0 THEN UNCHANGED toRx ELSE toRx' \in Cleared(toRx)
            /\ TxKeeps
       [] OTHER -> TxRepeats

\* ZS_SendFileData() at SomeMore, and its loop: the header ZDATA, then
\* subpackets.  A block that is not full ends the frame; a file whose last block
\* is full ends with an empty one.
SendData ==
  /\ z.at \in {"more", "data"} /\ up
  /\ LET f    == Offered
         head == IF z.at = "more" THEN <<Hdr("ZDATA", z.pos)>> ELSE <<>>
         Block(n, e) == /\ toRx' = toRx \o head \o
                                   <<Sub(SubSeq(Content(f), z.pos + 1, z.pos + n), e)>>
                        /\ z' = [z EXCEPT !.at = IF e = "ZCRCE" THEN "ended" ELSE "data",
                                          !.pos = @ + n]
     IN \/ z.pos < Size[f] /\ Block(1, "ZCRCG")
        \/ z.pos >= Size[f] - 1 /\ Block(Size[f] - z.pos, "ZCRCE")
  /\ UNCHANGED toTx /\ TxKeeps /\ UNCHANGED txOnly

\* The end of ZS_SendFileData(): ZEOF with the length of the file.
SendEof ==
  /\ z.at = "ended"
  /\ toRx' = OnLine(toRx, <<Hdr("ZEOF", z.pos)>>)
  /\ z' = [z EXCEPT !.at = "eof", !.errs = Errs]
  /\ UNCHANGED toTx /\ TxKeeps /\ UNCHANGED txOnly

\* The CHAR_AVAIL() tests: before ZDATA the sender just listens; within a frame
\* it discards what it has not transmitted and ends the frame.
Interrupted ==
  /\ z.at \in {"more", "data", "ended"} /\ toTx # <<>>
  /\ z' = [z EXCEPT !.at = "sync", !.errs = Errs]
  /\ IF z.at = "more" THEN UNCHANGED toRx
     ELSE \E c \in Cleared(toRx) : toRx' = OnLine(c, <<Sub(<<>>, "ZCRCE")>>)
  /\ UNCHANGED toTx /\ TxKeeps /\ UNCHANGED txOnly

\* A ZRPOS in ZS_SyncWithReceiver(): the same position too often is an error.
Repositioned(p) ==
  z' = IF p = z.last /\ z.cnt = 1 THEN [z EXCEPT !.at = "fail"]
       ELSE [z EXCEPT !.at = "more", !.pos = p, !.last = p,
                      !.cnt = IF p = z.last THEN @ - 1 ELSE RposTries]

\* ZS_SyncWithReceiver(), within the data and after ZEOF.  Any ZRINIT is the
\* receiver's consent to what was sent.  A ZSKIP counts as sent after ZEOF, where
\* ZS_SendFileData() returns the length of the last block.
SyncWithReceiver ==
  /\ TxTakes /\ z.at \in {"sync", "eof"}
  /\ toTx' \in Flushed(Tail(toTx))
  /\ CASE TxHeader = "ZRPOS"  -> Repositioned(Head(toTx).pos) /\ UNCHANGED toRx /\ TxKeeps
       [] TxHeader = "ZRINIT" -> FileSent
       [] TxHeader = "ZSKIP"  -> IF z.at = "eof" THEN FileSent ELSE FileSkipped
       [] TxHeader \in {"ZFIN", "CAN"} -> TxFail
       [] OTHER -> toRx' = OnLine(toRx, <<Hdr("ZNAK", 0)>>) /\ UNCHANGED z /\ TxKeeps

\* ZS_EndSend(): ZFIN until the receiver says ZFIN.
EndSend ==
  /\ TxTakes /\ z.at = "fin" /\ toTx' = Tail(toTx)
  /\ CASE TxHeader = "ZFIN" -> z' = [z EXCEPT !.at = "done"] /\ toRx' = OnLine(toRx, <<OO>>)
       [] TxHeader = "CAN"  -> z' = [z EXCEPT !.at = "done"] /\ UNCHANGED toRx
       [] OTHER             -> toRx' = OnLine(toRx, <<Hdr("ZFIN", 0)>>) /\ UNCHANGED z
  /\ TxKeeps

\* A timeout while the sender waits for a header.  Only ZS_SyncWithReceiver()
\* takes more than one; after a ZRINIT five seconds without an answer make
\* ZS_SendFile() repeat ZFILE.
TxTimeout ==
  CASE z.at = "drain" -> TxRepeats
    [] z.at = "fin"   -> z' = [z EXCEPT !.at = "done"] /\ UNCHANGED toRx /\ TxKeeps
    [] z.at \in {"sync", "eof"} /\ z.errs > 0 ->
         z' = [z EXCEPT !.errs = @ - 1] /\ UNCHANGED toRx /\ TxKeeps
    [] OTHER -> TxFail

-----------------------------------------------------------------------------
(* The receiver *)

Have(f)   == \E i \in DOMAIN filed : filed[i].name = f
Idle      == [at |-> "init", n |-> Tries - 1, file |-> None, data |-> <<>>]
RxKeeps   == UNCHANGED <<filed, partial>>
RxReading == r.at \in {"init", "sec", "pos", "ext", "data", "bibi"}
RxHeader  == Head(toRx).type
RxTakes   == RxReading /\ toRx # <<>> /\ toRx' = Tail(toRx) /\ UNCHANGED rxOnly
Answers(h) == toTx' = OnLine(toTx, <<h>>)

\* get_Zmodem() after an error: what was received of a file becomes a BadWaZOO
\* file in the abort log, what waits to be sent is discarded, ten CANs follow.
RxFail ==
  /\ r' = [r EXCEPT !.at = "fail", !.file = None, !.data = <<>>]
  /\ partial' = IF r.file = None THEN partial ELSE [partial EXCEPT ![r.file] = r.data]
  /\ \E c \in Cleared(toTx) : toTx' = OnLine(c, <<Can>>)
  /\ UNCHANGED filed

\* RZ_InitReceiver(), once more round its loop: ZRINIT again, or no tries left.
InitAgain ==
  IF r.n = 0 THEN RxFail
  ELSE r' = [r EXCEPT !.n = @ - 1, !.at = "init"] /\ Answers(Hdr("ZRINIT", 0)) /\ RxKeeps

\* RZ_InitReceiver(): anything that is neither a file, the end nor an abort makes
\* it repeat ZRINIT.
InitReceiver ==
  /\ RxTakes /\ r.at = "init"
  /\ CASE RxHeader = "ZFILE" -> r' = [r EXCEPT !.at = "sec"] /\ UNCHANGED toTx /\ RxKeeps
       [] RxHeader = "ZFIN"  -> /\ r' = [r EXCEPT !.at = "bibi"]
                                /\ Answers(Hdr("ZFIN", 0)) /\ RxKeeps
       [] RxHeader = "CAN"   -> RxFail
       [] RxHeader \in {"SUB", "NAME", "OO"} -> UNCHANGED <<r, toTx>> /\ RxKeeps
       [] OTHER -> InitAgain

\* Faulty: a file of which a part is here is taken for one that is here
RefusesPartial(f) == Size[f] > Room \/ (f \notin Packets /\ (Have(f) \/ f \in Held \/ partial[f] # <<>>))

\* RZ_GetHeader(): a file there is no room for, or that is here already under its
\* name, is answered with ZSKIP by the RZ_InitReceiver() that follows.
Refuses(f) == Size[f] > Room \/ (f \notin Packets /\ (Have(f) \/ f \in Held) /\ partial[f] = <<>>)

\* RZ_GetHeader(): a transfer in the abort log goes on at the length of its
\* BadWaZOO file.  A packet has a new name each time and is never found there.
Filestart(f) == IF f \in Packets THEN 0 ELSE Len(partial[f])

\* RZ_InitReceiver(): the subpacket after ZFILE did not arrive in one piece.
BadName ==
  IF r.n = 0 THEN RxFail
  ELSE r' = [r EXCEPT !.n = @ - 1, !.at = "init"] /\ Answers(Hdr("ZNAK", 0)) /\ RxKeeps

\* The subpacket of ZFILE: the file is opened and ZRPOS says from where to send it.
ReceiveName ==
  /\ RxTakes /\ r.at = "sec"
  /\ CASE RxHeader = "NAME" ->
            LET f == Head(toRx).file
            IN  /\ IF Refuses(f)
                   THEN r' = Idle /\ Answers(Hdr("ZSKIP", 0))
                   ELSE /\ r' = [at |-> "pos", n |-> Tries, file |-> f,
                                 data |-> IF Filestart(f) = 0 THEN <<>> ELSE partial[f]]
                        /\ Answers(Hdr("ZRPOS", Filestart(f)))
                /\ RxKeeps
       [] RxHeader = "CAN" -> RxFail
       [] OTHER            -> BadName

\* RZ_ReceiveFile(), once more round its loop: ZRPOS with the position reached.
AskAgain ==
  IF r.n = 0 THEN RxFail
  ELSE /\ r' = [r EXCEPT !.n = @ - 1, !.at = "pos"]
       /\ Answers(Hdr("ZRPOS", Len(r.data))) /\ RxKeeps

\* Faulty: the position of ZEOF is not looked at
AnyEof(p) == TRUE

\* ZEOF ends the file only where all that was received ends.
EofHere(p) == p = Len(r.data)

\* Faulty: the position of ZDATA is not looked at
AnyData(p) == TRUE

\* ZDATA must begin where all that was received ends.
DataHere(p) == p = Len(r.data)

\* RZ_ReceiveFile() at NxtHdr.  Data outside a frame is junk: it is skipped, or, if
\* it is long, gives the same error as a damaged header.  RZ_ReceiveBatch() files a
\* resumed transfer under its own name and goes on to the next file.
ReceiveHeader ==
  /\ RxTakes /\ r.at = "pos"
  /\ CASE RxHeader = "ZDATA" /\ DataHere(Head(toRx).pos) ->
            r' = [r EXCEPT !.at = "data"] /\ UNCHANGED toTx /\ RxKeeps
       [] RxHeader = "ZEOF" /\ EofHere(Head(toRx).pos) ->
            /\ filed' = Append(filed, [name |-> r.file, data |-> r.data])
            /\ partial' = IF Filestart(r.file) = 0 THEN partial
                          ELSE [partial EXCEPT ![r.file] = <<>>]
            /\ r' = Idle /\ Answers(Hdr("ZRINIT", 0))
       [] RxHeader = "ZEOF" /\ ~EofHere(Head(toRx).pos) -> UNCHANGED <<r, toTx>> /\ RxKeeps
       [] RxHeader = "ZFILE" -> r' = [r EXCEPT !.at = "ext"] /\ UNCHANGED toTx /\ RxKeeps
       [] RxHeader \in {"SUB", "NAME", "OO"} -> (UNCHANGED <<r, toTx>> /\ RxKeeps) \/ AskAgain
       [] RxHeader \in {"CAN", "ZFIN", "ZRQINIT"} -> RxFail
       [] OTHER -> AskAgain

\* ZFILE repeated while its ZRPOS was on the way: its subpacket is read, whatever
\* it is, and ZRPOS sent again.
ReceiveNameAgain ==
  /\ RxTakes /\ r.at = "ext"
  /\ IF RxHeader = "CAN" THEN RxFail
     ELSE r' = [r EXCEPT !.at = "pos"] /\ Answers(Hdr("ZRPOS", Len(r.data))) /\ RxKeeps

\* RZ_ReceiveFile() at MoreData: RZ_SaveToDisk() appends the block.
ReceiveData ==
  /\ RxTakes /\ r.at = "data"
  /\ CASE RxHeader = "SUB" ->
            /\ r' = [r EXCEPT !.data = @ \o Head(toRx).data, !.n = Tries,
                              !.at = IF Head(toRx).end = "ZCRCG" THEN "data" ELSE "pos"]
            /\ UNCHANGED toTx /\ RxKeeps
       [] RxHeader = "CAN" -> RxFail
       [] OTHER            -> AskAgain

\* RZ_AckBibi()
AckBibi ==
  /\ RxTakes /\ r.at = "bibi"
  /\ r' = [r EXCEPT !.at = "done"]
  /\ IF RxHeader = "OO" THEN UNCHANGED toTx ELSE Answers(Hdr("ZFIN", 0))
  /\ RxKeeps

\* A timeout while the receiver reads.
RxTimeout ==
  CASE r.at = "init" -> InitAgain
    [] r.at = "sec"  -> BadName
    [] r.at = "ext"  -> /\ r' = [r EXCEPT !.at = "pos"]
                        /\ Answers(Hdr("ZRPOS", Len(r.data))) /\ RxKeeps
    [] r.at = "bibi" -> r' = [r EXCEPT !.at = "done"] /\ UNCHANGED toTx /\ RxKeeps
    [] OTHER         -> AskAgain

-----------------------------------------------------------------------------
(* Timers, the line and the operators *)

Ended == {"done", "fail"}
Quiet == /\ toRx = <<>> \/ r.at \in Ended
         /\ toTx = <<>> \/ z.at \in Ended
         /\ z.at \notin {"more", "data", "ended"}

\* A timer runs out when nothing is on its way to anybody.  The sender waits as long as
\* the receiver above 6144 bps and longer below, so either may give up first; the five
\* seconds of the drain loop are over before either.  Early: while something is.
RxTimer ==
  /\ RxReading /\ Quiet /\ z.at # "drain"
  /\ RxTimeout /\ UNCHANGED toRx /\ UNCHANGED rxOnly

TxTimer ==
  /\ TxReading /\ Quiet
  /\ TxTimeout /\ UNCHANGED toTx /\ UNCHANGED txOnly

Fault == up /\ env.noise > 0 /\ env' = [env EXCEPT !.noise = @ - 1]


RxEarly == /\ Fault /\ ~Quiet /\ RxReading /\ RxTimeout
           /\ UNCHANGED <<toRx, z, up, struck, gone>>
TxEarly == /\ Fault /\ ~Quiet /\ TxReading /\ TxTimeout
           /\ UNCHANGED <<toTx, r, up, filed, partial>>

\* A frame arrives damaged, or a header not at all.
Hit(c) == {<<Bad>> \o Tail(c)} \cup (IF Head(c).type \in Headers THEN {Tail(c)} ELSE {})

Noise ==
  /\ Fault
  /\ \/ /\ toRx # <<>> /\ Head(toRx).type \notin {"BAD", "CAN"}
        /\ toRx' \in Hit(toRx) /\ UNCHANGED toTx
     \/ /\ toTx # <<>> /\ Head(toTx).type \notin {"BAD", "CAN"}
        /\ toTx' \in Hit(toTx) /\ UNCHANGED toRx
  /\ UNCHANGED <<z, r, up, struck, gone, filed, partial>>

Quit == env.quits > 0 /\ env' = [env EXCEPT !.quits = @ - 1]

\* The operator of one side presses Escape.
TxEscape ==
  /\ Quit /\ up /\ z.at \notin Ended
  /\ z' = [z EXCEPT !.at = "fail"]
  /\ \E c \in Cleared(toRx) : toRx' = OnLine(c, <<Can>>)
  /\ UNCHANGED <<toTx, r, up, struck, gone, filed, partial>>

RxEscape ==
  /\ Quit /\ up /\ r.at \in {"init", "pos", "data"}
  /\ RxFail /\ UNCHANGED <<toRx, z, up, struck, gone>>

\* The carrier goes, and part of what was on its way with it: by accident, or
\* because one side has given up and hangs up.
CarrierLost ==
  /\ up /\ up' = FALSE
  /\ \E i \in 0 .. Len(toRx) : toRx' = SubSeq(toRx, 1, i)
  /\ \E i \in 0 .. Len(toTx) : toTx' = SubSeq(toTx, 1, i)
  /\ UNCHANGED <<z, r, struck, gone, filed, partial>>

LineDrop == Quit /\ CarrierLost
HangUp   == "fail" \in {z.at, r.at} /\ CarrierLost /\ UNCHANGED env

\* Faulty: the carrier is looked at only while a header is waited for
TxNoCarrierReading ==
  /\ ~up /\ toTx = <<>> /\ TxReading
  /\ z' = [z EXCEPT !.at = IF z.at = "fin" THEN "done" ELSE "fail"]
  /\ UNCHANGED <<toRx, toTx>> /\ TxKeeps /\ UNCHANGED txOnly

\* Without a carrier each side still reads what has arrived.
TxNoCarrier ==
  /\ ~up /\ z.at \notin Ended /\ (toTx = <<>> \/ ~TxReading)
  /\ z' = [z EXCEPT !.at = IF z.at = "fin" THEN "done" ELSE "fail"]
  /\ UNCHANGED <<toRx, toTx>> /\ TxKeeps /\ UNCHANGED txOnly

RxNoCarrier ==
  /\ ~up /\ r.at \notin Ended /\ toRx = <<>>
  /\ IF r.at = "bibi" THEN r' = [r EXCEPT !.at = "done"] /\ UNCHANGED toTx /\ RxKeeps
     ELSE RxFail
  /\ UNCHANGED toRx /\ UNCHANGED rxOnly

-----------------------------------------------------------------------------
(* A call *)

\* The first file begins with ZRQINIT, the receiver with ZRINIT.
Start(s) ==
  [tx  |-> [at |-> "init", idx |-> NextEntry(0, s), pos |-> 0, last |-> 0, cnt |-> 0,
            errs |-> Tries - 1],
   out |-> IF NextEntry(0, s) = 0 THEN <<>> ELSE <<Hdr("ZRQINIT", 0)>>]

Budget(n) == [call |-> n, noise |-> Faults[n].noise, quits |-> Faults[n].quits]

Init ==
  /\ struck = {} /\ gone = {} /\ filed = <<>>
  /\ z = Start({}).tx /\ toRx = Start({}).out
  /\ r = Idle /\ toTx = <<Hdr("ZRINIT", 0)>>
  /\ partial = [f \in Files |-> <<>>]
  /\ up = TRUE
  /\ env = Budget(1)

NewCall ==
  /\ z.at \in Ended /\ r.at \in Ended /\ env.call < Len(Faults)
  /\ z' = Start(struck).tx /\ toRx' = Start(struck).out
  /\ r' = Idle /\ toTx' = <<Hdr("ZRINIT", 0)>>
  /\ up' = TRUE
  /\ env' = Budget(env.call + 1)
  /\ UNCHANGED <<struck, gone, filed, partial>>

Sender   == \/ GetReceiverInfo \/ SendFile \/ SendData \/ SendEof \/ Interrupted
            \/ SyncWithReceiver \/ EndSend \/ TxTimer \/ TxNoCarrier
Receiver == \/ InitReceiver \/ ReceiveName \/ ReceiveHeader \/ ReceiveNameAgain
            \/ ReceiveData \/ AckBibi \/ RxTimer \/ RxNoCarrier
Line     == \/ RxEarly \/ TxEarly \/ Noise \/ TxEscape \/ RxEscape \/ LineDrop

Next == Sender \/ Receiver \/ Line \/ HangUp \/ NewCall

Spec == Init /\ [][Next]_vars

\* Both programs run on: they read what arrives and look at their timers; a mailer
\* that has given up hangs up, and calls again.
Fairness == WF_vars(Sender) /\ WF_vars(Receiver) /\ WF_vars(HangUp) /\ WF_vars(NewCall)
FairSpec == Spec /\ Fairness

-----------------------------------------------------------------------------
(* Properties *)

Arrived(f) == f \in Held \/ \E i \in DOMAIN filed : filed[i] = [name |-> f, data |-> Content(f)]

\* Nothing is deleted or flagged as sent before the other side has all of it.
NoMailLost == \A f \in struck \cup gone : Arrived(f)

\* What RZ_ReceiveBatch() files under a name is that file from first unit to last,
\* though neither blocks nor positions say which file they are of.
ReceivedIntact == \A i \in DOMAIN filed : filed[i].data = Content(filed[i].name)

\* Of a file that was cut off, or is being received, there is a beginning.
Beginnings ==
  /\ r.file # None => IsPrefix(r.data, Content(r.file))
  /\ \A f \in Files : IsPrefix(partial[f], Content(f))

\* The calls together do for each item of mail what MailTransfer promises.
Transfer == INSTANCE MailTransfer WITH
              Mail   <- {Outbound[i] : i \in DOMAIN Outbound},
              Before <- Held,
              there  <- Held \cup {f \in Files : Arrived(f)}
TransfersMail == Transfer!Spec

\* Whatever is lost and whoever gives up, both sides come to the end of every call.
CallsEnd == <>(env.call = Len(Faults) /\ z.at \in Ended /\ r.at \in Ended)
===============================================================================
