-------------------------------- MODULE Janus --------------------------------
(***************************************************************************)
(* The Janus bidirectional batch protocol of src/janus.c, run by two       *)
(* mailers over one telephone line.  Each side sends its outbound files    *)
(* and receives the other's at the same time; nothing but the last block   *)
(* of a file is acknowledged.  The line is a FIFO in each direction that   *)
(* may garble or swallow a packet.  A file is a model value; its contents  *)
(* are the sequence of its units, a unit being <<file, position>>.         *)
(***************************************************************************)
EXTENDS Integers, Sequences

CONSTANTS
  Caller, Answerer,  \* the two mailers; the caller is the one with isOriginator
  Files, None,       \* file names; None is the null name that ends a batch
  Packets,           \* files that are .?UT packets: sent under an invented name
  KillSent,          \* files attached with '^' or '-': deleted once sent
  Outbound,          \* Outbound[s]: what getfname() finds for the peer, in order
  Size,              \* length of a file in units
  Held,              \* Held[s]: files s already has, same size and time
  Room,              \* Room[s]: Diskavail of s at the start of a session
  Requests,          \* Requests[s]: the lines of the .REQ file s has for its peer
  Answer,            \* Answer[r]: files respond_to_file_requests() finds for r
  MaxRequests        \* max_requests; 0 means no limit

CONSTANTS            \* bounds of the model
  BlkMax,            \* the largest block, in units (txblkmax)
  MaxIdle,           \* unanswered retries before brain_dead expires
  RposLimit,         \* RPOS packets at one position before going one-way (4)
  MaxHalts,          \* HALT retries of endbatch() (2)
  HaltAcks,          \* HALTACK packets endbatch() ends with (10)
  MaxNoise,          \* packets the line may garble or swallow and timers that may run
                     \* out while packets are in transit,
  MaxEarly,          \* and how many of these may be timers
  MaxQuits,          \* operator aborts and carrier losses
  MaxSessions        \* consecutive sessions between the two mailers

Stations == {Caller, Answerer}
Peer(s)  == IF s = Caller THEN Answerer ELSE Caller

ReqNames == UNION {{Requests[s][i] : i \in DOMAIN Requests[s]} : s \in Stations}

ASSUME StationsAssumption == Caller # Answerer
ASSUME FilesAssumption ==
  /\ None \notin Files
  /\ Packets \subseteq Files /\ KillSent \subseteq Files
  /\ Size \in [Files -> Nat]
  /\ Outbound \in [Stations -> Seq(Files)]
  /\ Held \in [Stations -> SUBSET Files]
  /\ Room \in [Stations -> Nat]
ASSUME RequestsAssumption ==
  /\ DOMAIN Requests = Stations
  /\ \A s \in Stations : Len(Requests[s]) \in Nat
  /\ \A s \in Stations : DOMAIN Requests[s] = 1 .. Len(Requests[s])
  /\ Answer \in [ReqNames -> Seq(Files)]
  /\ MaxRequests \in Nat
ASSUME BoundsAssumption ==
  /\ BlkMax \in Nat \ {0} /\ MaxIdle \in Nat \ {0}
  /\ RposLimit \in Nat /\ MaxHalts \in Nat /\ HaltAcks \in Nat \ {0}
  /\ MaxNoise \in Nat /\ MaxEarly \in Nat /\ MaxQuits \in Nat
  /\ MaxSessions \in Nat \ {0}

VARIABLES
  chan,      \* chan[s]: the packets on their way to s
  carrier,   \* the line is up
  phase,     \* phase[s]: in Janus()'s main loop, in endbatch(), or finished
  sendfirst, \* sendfirst[s]: s has a packet to send before it reads the next one
  tx,        \* tx[s]: the transmitting half of s
  rx,        \* rx[s]: the receiving half of s
  halts,     \* halts[s]: timeouts counted by endbatch()
  aborted,   \* aborted[s]: something_wrong
  marked,    \* .?LO lines flagged '~', as sent
  removed,   \* files unlinked by post-transfer cleanup
  got,       \* got[s]: files s received to the end, in order: name and data
  inbound,   \* inbound[s]: named files s has, complete, in its inbound area
  partial,   \* partial[s]: the BadWaZOO files s keeps for an aborted transfer
  reqdone,   \* reqdone[s]: lines of its .REQ file s has commented out
  env        \* what is left of the bounds on the environment

link == <<chan, carrier>>
disk == <<marked, removed, got, inbound, partial, reqdone>>
vars == <<chan, carrier, phase, sendfirst, tx, rx, halts, aborted, marked, removed, got,
          inbound, partial, reqdone, env>>

-----------------------------------------------------------------------------
(* Packets *)

PktTypes == {"FNAME", "FNACK", "BLK", "RPOS", "EOFACK", "FREQ", "FREQNAK",
             "FRNAKACK", "HALT", "HALTACK", "BAD"}

\* file: the name in FNAME; in FNACK and BLK the name or the file the packet
\* is about, which the code does not send and no handler below reads.
Packet == [type : PktTypes, file : Files \cup {None}, pos : Int, arg : Int]

Pkt(t)       == [type |-> t, file |-> None, pos |-> 0, arg |-> 0]
Fname(f)     == [type |-> "FNAME", file |-> f, pos |-> 0, arg |-> 0]
Fnack(f, p)  == [type |-> "FNACK", file |-> f, pos |-> p, arg |-> 0]
Blk(f, p, n) == [type |-> "BLK", file |-> f, pos |-> p, arg |-> n]
Rpos(p, t)   == [type |-> "RPOS", file |-> None, pos |-> p, arg |-> t]
Freq(i)      == [type |-> "FREQ", file |-> None, pos |-> 0, arg |-> i]

Content(f)      == [i \in 1 .. Size[f] |-> <<f, i>>]
Units(f, p, n)  == [i \in 1 .. n |-> <<f, p + i>>]

Send(s, p)      == chan' = [chan EXCEPT ![Peer(s)] = Append(@, p)]
Consume(s)      == chan' = [chan EXCEPT ![s] = Tail(@)]
Reply(s, p)     == chan' = [chan EXCEPT ![s] = Tail(@), ![Peer(s)] = Append(@, p)]

\* s is in the main loop and a packet of type t is the next one it reads.  A pass
\* of the loop looks at the timers, sends a packet if there is one to send, then
\* reads what has come in, for as long as more comes in: so nothing is read before
\* the first name is sent, nor between a timeout and the packet it has repeated.
Receives(s, t)  == /\ phase[s] = "run" /\ ~sendfirst[s]
                   /\ chan[s] # <<>>
                   /\ Head(chan[s]).type = t

-----------------------------------------------------------------------------
(* The transmitting half *)

Waits == {"XRCVFNACK", "XRCVFRNAKACK", "XRCVEOFACK"}

\* dexists() and the '~' of the .?LO line
Offerable(f) == f \notin marked /\ f \notin removed

DoAfter(f) == IF f \in Packets \cup KillSent THEN "DELETE_AFTER" ELSE "NOTHING_AFTER"

\* Faulty: the scan starts at entry i itself
NextEntryAgain(s, i) ==
  LET left == {j \in DOMAIN Outbound[s] : j >= i /\ j > 0 /\ Offerable(Outbound[s][j])}
  IN  IF left = {} THEN 0 ELSE CHOOSE j \in left : \A k \in left : j <= k

\* getfname(): the next entry of the outbound scan that starts after entry i,
\* or 0, which also restarts the scan, when there is none
NextEntry(s, i) ==
  LET left == {j \in DOMAIN Outbound[s] : j > i /\ Offerable(Outbound[s][j])}
  IN  IF left = {} THEN 0 ELSE CHOOSE j \in left : \A k \in left : j <= k

FirstOf(s, t, i) ==
  LET j == NextEntry(s, i)
  IN  IF j = 0
      THEN [t EXCEPT !.idx = 0, !.file = None]
      ELSE [t EXCEPT !.idx = j, !.file = Outbound[s][j],
                     !.doafter = DoAfter(Outbound[s][j])]

\* getfname(GOOD_XFER) for transmitter t: clean up after the file being closed
\* (idx = 0 when that is a requested file: floflag is down), open the next one
CleanUp(t) ==
  /\ marked'  = IF t.file # None /\ t.idx # 0 /\ t.file \notin Packets
                THEN marked \cup {t.file} ELSE marked
  /\ removed' = IF t.file # None /\ t.doafter = "DELETE_AFTER"
                THEN removed \cup {t.file} ELSE removed

\* Faulty: an empty list does not end the service
ServeForever(t, q) == [t EXCEPT !.reqtmp = q, !.sendreq = TRUE,
                                !.file = IF q = <<>> THEN None ELSE Head(q)]

\* get_reqname(): open the first requested file of q
Serve(t, q) == [t EXCEPT !.reqtmp = q, !.sendreq = q # <<>>,
                         !.file = IF q = <<>> THEN None ELSE Head(q)]

\* After a requested file: the next one of JANUSREQ.TMP, else back to the
\* outbound scan.  get_reqname() has closed Txfile, so there is no cleanup.
NextRequested(s, t) ==
  LET u == Serve(t, Tail(t.reqtmp))
  IN  IF u.sendreq THEN u ELSE FirstOf(s, u, t.idx)

\* The file under way is dealt with: choose what XSENDFNAME offers next
NextFile(s, t) ==
  IF t.sendreq
  THEN /\ tx' = [tx EXCEPT ![s] = [NextRequested(s, t) EXCEPT
                                     !.state = "XSENDFNAME", !.retry = FALSE]]
       /\ UNCHANGED <<marked, removed>>
  ELSE /\ tx' = [tx EXCEPT ![s] = [FirstOf(s, t, t.idx) EXCEPT
                                     !.state = "XSENDFNAME", !.retry = FALSE]]
       /\ CleanUp(t)

-----------------------------------------------------------------------------
(* Leaving the main loop *)

\* endbatch() on entry: tell the other end to halt.  q is the line afterwards
\* if the loop goes on; HALT is queued behind it if s leaves the loop.
LeaveOrStay(s, q, leaving) ==
  IF leaving
  THEN /\ chan' = [q EXCEPT ![Peer(s)] = Append(@, Pkt("HALT"))]
       /\ phase' = [phase EXCEPT ![s] = "end"]
  ELSE chan' = q /\ UNCHANGED phase

\* Faulty: getfname(GOOD_XFER) on the way out
GiveUpCleaningUp(s, q) ==
  /\ aborted' = [aborted EXCEPT ![s] = TRUE]
  /\ partial' = IF rx[s].state = "RRCVBLK" /\ rx[s].file \notin Packets
                THEN [partial EXCEPT ![s][rx[s].file] = rx[s].data]
                ELSE partial
  /\ LeaveOrStay(s, q, TRUE)
  /\ CleanUp(tx[s])
  /\ UNCHANGED <<carrier, sendfirst, tx, rx, halts, got, inbound, reqdone>>

\* giveup: log what was received of the current file, keep what was not sent
\* (getfname(ABORT_XFER) touches neither the file nor its .?LO line).  Nothing
\* reads tx and rx after the main loop.
GiveUp(s, q) ==
  /\ aborted' = [aborted EXCEPT ![s] = TRUE]
  /\ partial' = IF rx[s].state = "RRCVBLK" /\ rx[s].file \notin Packets
                THEN [partial EXCEPT ![s][rx[s].file] = rx[s].data]
                ELSE partial
  /\ LeaveOrStay(s, q, TRUE)
  /\ UNCHANGED <<carrier, sendfirst, tx, rx, halts, marked, removed, got, inbound,
                reqdone>>

Heard(t) == [t EXCEPT !.idle = 0]    \* brain_dead is set again

-----------------------------------------------------------------------------
(* Transmitting: the switch on xstate *)

\* read() of at most one block; a short or a last block ends the file
SendBlk(s) ==
  /\ phase[s] = "run" /\ tx[s].state = "XSENDBLK" /\ ~tx[s].inhibit
  /\ \E size \in 1 .. BlkMax :
       LET t    == tx[s]
           rest == IF t.pos < Size[t.file] THEN Size[t.file] - t.pos ELSE 0
           n    == IF size < rest THEN size ELSE rest
           last == n < size \/ t.pos + n >= Size[t.file]
       IN  /\ Send(s, Blk(t.file, t.pos, n))
           /\ tx' = [tx EXCEPT ![s] =
                [t EXCEPT !.last  = t.pos, !.pos = t.pos + n,
                          !.state = IF last THEN "XRCVEOFACK" ELSE "XSENDBLK",
                          !.retry = last,
                          !.idle  = IF last THEN t.idle ELSE 0]]
  /\ sendfirst' = [sendfirst EXCEPT ![s] = FALSE]
  /\ UNCHANGED <<carrier, phase, rx, halts, aborted, disk, env>>

\* Faulty: xmit_retry is not set
SendFnameOnce(s) ==
  /\ phase[s] = "run" /\ tx[s].state = "XSENDFNAME"
  /\ Send(s, Fname(tx[s].file))
  /\ tx' = [tx EXCEPT ![s] = [tx[s] EXCEPT !.state = "XRCVFNACK", !.retry = FALSE]]
  /\ sendfirst' = [sendfirst EXCEPT ![s] = FALSE]
  /\ UNCHANGED <<carrier, phase, rx, halts, aborted, disk, env>>

SendFname(s) ==
  /\ phase[s] = "run" /\ tx[s].state = "XSENDFNAME"
  /\ Send(s, Fname(tx[s].file))
  /\ tx' = [tx EXCEPT ![s] = [tx[s] EXCEPT !.state = "XRCVFNACK", !.retry = TRUE]]
  /\ sendfirst' = [sendfirst EXCEPT ![s] = FALSE]
  /\ UNCHANGED <<carrier, phase, rx, halts, aborted, disk, env>>

SendFreqNak(s) ==
  /\ phase[s] = "run" /\ tx[s].state = "XSENDFREQNAK"
  /\ Send(s, Pkt("FREQNAK"))
  /\ tx' = [tx EXCEPT ![s] = [tx[s] EXCEPT !.state = "XRCVFRNAKACK", !.retry = TRUE]]
  /\ sendfirst' = [sendfirst EXCEPT ![s] = FALSE]
  /\ UNCHANGED <<carrier, phase, rx, halts, aborted, disk, env>>

-----------------------------------------------------------------------------
(* Time.  A timer runs out when nothing else can happen on the line, the    *)
(* rpos_retry timers (TimeoutSecs / 2) before the others, or else at the    *)
(* expense of env.early: while packets are in transit, or out of that order.*)

Sending(s) == /\ phase[s] = "run"
              /\ \/ tx[s].state \in {"XSENDFNAME", "XSENDFREQNAK"}
                 \/ tx[s].state = "XSENDBLK" /\ ~tx[s].inhibit
Quiet    == \A s \in Stations : ~Sending(s) /\ (phase[s] = "done" \/ chan[s] = <<>>)
LongQuiet == Quiet /\ \A s \in Stations : ~(phase[s] = "run" /\ rx[s].waiting)

Elapse(quiet) == \/ quiet /\ UNCHANGED env
                 \/ ~quiet /\ env.early > 0 /\ env.noise > 0
                    /\ env' = [env EXCEPT !.early = @ - 1, !.noise = @ - 1]

\* long_time_gone(&xmit_retry)
XmitTimeout(s) ==
  /\ phase[s] = "run" /\ tx[s].retry /\ tx[s].idle < MaxIdle
  /\ Elapse(LongQuiet)
  /\ LET t == tx[s]
     IN  tx' = [tx EXCEPT ![s] =
           [t EXCEPT !.retry = FALSE, !.idle = t.idle + 1,
                     !.state = CASE t.state = "XRCVFNACK"    -> "XSENDFNAME"
                                 [] t.state = "XRCVFRNAKACK" -> "XSENDFREQNAK"
                                 [] t.state = "XRCVEOFACK"   -> "XSENDBLK"
                                 [] OTHER                    -> t.state,
                     !.pos = IF t.state = "XRCVEOFACK" THEN t.last ELSE t.pos]]
  /\ UNCHANGED <<link, phase, rx, halts, aborted, disk>>
  /\ sendfirst' = [sendfirst EXCEPT ![s] = Sending(s)']

\* long_time_gone(&rpos_retry)
RposTimeout(s) ==
  /\ phase[s] = "run" /\ rx[s].waiting
  /\ Elapse(Quiet)
  /\ rx' = [rx EXCEPT ![s] = [rx[s] EXCEPT !.waiting = FALSE, !.samesec = FALSE]]
  /\ UNCHANGED <<link, phase, sendfirst, tx, halts, aborted, disk>>

\* Faulty: a retry sets brain_dead again
StillTryingForEver(s) == \/ phase[s] = "run" /\ tx[s].retry
                         \/ phase[s] = "end"

\* The peer's own timer comes first: its packet would set brain_dead again
StillTrying(s) == \/ phase[s] = "run" /\ tx[s].retry /\ tx[s].idle < MaxIdle
                  \/ phase[s] = "end"

\* long_time_gone(&brain_dead)
BrainDead(s) ==
  /\ phase[s] = "run" /\ LongQuiet /\ ~StillTrying(s)
  /\ tx[s].idle = MaxIdle \/ ~StillTrying(Peer(s))
  /\ GiveUp(s, chan)
  /\ UNCHANGED env

\* rcvpkt(): the operator presses ESC
Escape(s) ==
  /\ phase[s] = "run" /\ ~sendfirst[s] /\ env.quits > 0
  /\ env' = [env EXCEPT !.quits = @ - 1]
  /\ GiveUp(s, chan)

\* rcvpkt(): carrier is gone and the input buffer is empty
NoCarrier(s) ==
  /\ phase[s] = "run" /\ ~sendfirst[s] /\ ~carrier /\ chan[s] = <<>>
  /\ GiveUp(s, chan)
  /\ UNCHANGED env

-----------------------------------------------------------------------------
(* Receiving: the switch on pkttype *)

\* Faulty: a block from further on will do
AtRxposOrAfter(s) == Head(chan[s]).pos >= rx[s].pos

\* The block just read is the next one of the file
AtRxpos(s) == Head(chan[s]).pos = rx[s].pos

\* Faulty: off by one
CompletesEarly(r, n) == r.pos + n + 1 >= Size[r.file]

\* n more units make the file complete
Completes(r, n) == r.pos + n >= Size[r.file]

\* A block at Rxpos: append it; at Rxlen close the file and acknowledge it
RecvBlock(s) ==
  /\ Receives(s, "BLK") /\ rx[s].state = "RRCVBLK"
  /\ AtRxpos(s)
  /\ LET b    == Head(chan[s])
         r    == rx[s]
         data == r.data \o Units(b.file, b.pos, b.arg)
         full == Completes(r, b.arg)
         name == r.file
     IN  /\ rx' = [rx EXCEPT ![s] =
              [r EXCEPT !.pos = r.pos + b.arg, !.data = data, !.room = r.room - b.arg,
                        !.lastblk = b.pos, !.waiting = FALSE, !.cnt = 0,
                        !.state = IF full THEN "RRCVFNAME" ELSE "RRCVBLK"]]
         /\ IF full
            THEN /\ got' = [got EXCEPT ![s] = Append(@, [name |-> name, data |-> data])]
                 /\ inbound' = IF name \notin Packets /\ Len(data) = Size[name]
                               THEN [inbound EXCEPT ![s] = @ \cup {name}]
                               ELSE inbound
                 /\ partial' = [partial EXCEPT ![s][name] = <<>>]
                 /\ Reply(s, Pkt("EOFACK"))
            ELSE /\ Consume(s)
                 /\ UNCHANGED <<got, inbound, partial>>
  /\ tx' = [tx EXCEPT ![s] = Heard(@)]
  /\ UNCHANGED <<carrier, phase, sendfirst, halts, aborted, marked, removed, reqdone,
                env>>

\* Faulty: without the test of isOriginator
EitherMayGoOneWay(s) == tx[s].state # "XDONE"

\* The called side, while it has something to send, may stop sending files
MayGoOneWay(s) == s # Caller /\ tx[s].state # "XDONE"

\* A munged block, or one from elsewhere in the file: ask for Rxpos, at most
\* once per rpos_retry, and after RposLimit tries stop sending files meanwhile.
\* rpos_sttime tells a series of RPOS from the one before if the clock has
\* ticked, which it need not have unless an rpos_retry ran out (samesec).
RecvGap(s) ==
  /\ rx[s].state = "RRCVBLK"
  /\ \/ Receives(s, "BAD")
     \/ Receives(s, "BLK") /\ ~AtRxpos(s)
  /\ LET b      == Head(chan[s])
         r      == rx[s]
         t      == tx[s]
         isblk  == b.type = "BLK"
         back   == isblk /\ b.pos < r.lastblk
         asks   == back \/ ~r.waiting
         count  == IF back THEN 0 ELSE r.cnt
         oneway == count > RposLimit
         first  == count = 0 \/ oneway
     IN  /\ \E tick \in IF ~(asks /\ first) THEN {0} ELSE IF r.samesec THEN {0, 1} ELSE {1} :
              /\ rx' = [rx EXCEPT ![s] =
                   [r EXCEPT !.lastblk = IF isblk THEN b.pos ELSE r.lastblk,
                             !.cnt     = IF ~asks THEN r.cnt
                                         ELSE IF first THEN 1 ELSE r.cnt + 1,
                             !.sttime  = r.sttime + tick,
                             !.samesec = r.samesec \/ tick = 1,
                             !.waiting = TRUE]]
              /\ IF asks THEN Reply(s, Rpos(r.pos, r.sttime + tick)) ELSE Consume(s)
         /\ tx' = [tx EXCEPT ![s] =
              [t EXCEPT !.inhibit = t.inhibit \/ (asks /\ oneway /\ MayGoOneWay(s)),
                        !.idle = IF isblk THEN 0 ELSE t.idle]]
  /\ UNCHANGED <<carrier, phase, sendfirst, halts, aborted, disk, env>>

\* Not receiving a file: whatever was a block is acknowledged between files
\* and dropped once the peer has nothing left
RecvStray(s) ==
  /\ rx[s].state # "RRCVBLK"
  /\ Receives(s, "BLK") \/ Receives(s, "BAD")
  /\ IF rx[s].state = "RRCVFNAME" THEN Reply(s, Pkt("EOFACK")) ELSE Consume(s)
  /\ tx' = [tx EXCEPT ![s] = IF Head(chan[s]).type = "BLK" THEN Heard(@) ELSE @]
  /\ UNCHANGED <<carrier, phase, sendfirst, rx, halts, aborted, disk, env>>

\* Faulty: a BadWaZOO file is found, but its length is not asked for
StartAtZero(s, f) == IF f \in inbound[s] \/ Size[f] > rx[s].room THEN -1 ELSE 0

\* procfname(): where to start receiving f, or -1 to refuse it
Start(s, f) ==
  LET from == Len(partial[s][f])
  IN  IF from > 0
      THEN IF Size[f] - from > rx[s].room THEN -1 ELSE from
      ELSE IF f \in inbound[s] \/ Size[f] > rx[s].room THEN -1 ELSE 0

\* Faulty: the BadWaZOO file is truncated when it is opened
ProcFnameTruncating(s, f) ==
  IF f = None
  THEN [rx[s] EXCEPT !.file = None, !.pos = 0, !.data = <<>>]
  ELSE [rx[s] EXCEPT !.file = f, !.pos = IF Start(s, f) = -1 THEN -1 ELSE 0, !.data = <<>>]

ProcFname(s, f) ==
  IF f = None
  THEN [rx[s] EXCEPT !.file = None, !.pos = 0, !.data = <<>>]
  ELSE [rx[s] EXCEPT !.file = f, !.pos = Start(s, f), !.data = partial[s][f]]

\* Faulty: without the test of req_started
ServedOnAsking(s, r) == reqdone[s] < Len(Requests[s])

\* get_filereq(): the request under way is answered, mark_done() comments it out
Served(s, r) == r.started /\ reqdone[s] < Len(Requests[s])

\* Faulty: either will do
HalfBatchOver(xstate, rstate) == xstate = "XDONE" \/ rstate = "RDONE"

\* Nothing left to send, nor to receive
BatchOver(xstate, rstate) == xstate = "XDONE" /\ rstate = "RDONE"

\* A null name is answered with a file request while there is one to make,
\* any other with the position to start at; a null name then ends reception
RecvFname(s) ==
  /\ Receives(s, "FNAME")
  /\ LET f     == Head(chan[s]).file
         r     == IF rx[s].state = "RRCVFNAME" THEN ProcFname(s, f) ELSE rx[s]
         null  == r.file = None
         done  == IF null /\ Served(s, r) THEN reqdone[s] + 1 ELSE reqdone[s]
         asks  == null /\ done < Len(Requests[s])
         state == IF r.pos = -1 THEN r.state ELSE IF null THEN "RDONE" ELSE "RRCVBLK"
     IN  /\ reqdone' = [reqdone EXCEPT ![s] = done]
         /\ IF asks
            THEN /\ rx' = [rx EXCEPT ![s] = [r EXCEPT !.attempting = TRUE,
                                                      !.started = FALSE]]
                 /\ tx' = [tx EXCEPT ![s] = Heard(@)]
                 /\ Reply(s, Freq(done + 1))
                 /\ UNCHANGED phase
            ELSE /\ rx' = [rx EXCEPT ![s] =
                      [r EXCEPT !.state = state, !.attempting = FALSE,
                                !.started = r.started \/ r.attempting]]
                 /\ tx' = [tx EXCEPT ![s] =
                      [Heard(tx[s]) EXCEPT !.inhibit = tx[s].inhibit /\ state # "RDONE"]]
                 /\ LeaveOrStay(s,
                      [chan EXCEPT ![s] = Tail(@), ![Peer(s)] = Append(@, Fnack(f, r.pos))],
                      BatchOver(tx[s].state, state))
  /\ UNCHANGED <<carrier, sendfirst, halts, aborted, marked, removed, got, inbound,
                partial, env>>

\* The answer to a file name: send the file from there, pass on to the next
\* one if it is refused, or, for the null name, be done with sending
RecvFnack(s) ==
  /\ Receives(s, "FNACK")
  /\ LET p == Head(chan[s]).pos
         t == Heard(tx[s])
         q == [chan EXCEPT ![s] = Tail(@)]
     IN  \/ /\ t.state # "XRCVFNACK"
            /\ tx' = [tx EXCEPT ![s] = t]
            /\ LeaveOrStay(s, q, FALSE)
            /\ UNCHANGED <<marked, removed>>
         \/ /\ t.state = "XRCVFNACK" /\ t.file = None
            /\ tx' = [tx EXCEPT ![s] = [t EXCEPT !.state = "XDONE", !.retry = FALSE]]
            /\ LeaveOrStay(s, q, BatchOver("XDONE", rx[s].state))
            /\ UNCHANGED <<marked, removed>>
         \/ /\ t.state = "XRCVFNACK" /\ t.file # None /\ p > -1
            /\ tx' = [tx EXCEPT ![s] = [t EXCEPT !.state = "XSENDBLK",
                                                 !.pos = p, !.retry = FALSE]]
            /\ LeaveOrStay(s, q, FALSE)
            /\ UNCHANGED <<marked, removed>>
         \/ /\ t.state = "XRCVFNACK" /\ t.file # None /\ p = -1
            /\ NextFile(s, IF t.sendreq THEN t
                           ELSE [t EXCEPT !.doafter = "NOTHING_AFTER"])
            /\ LeaveOrStay(s, q, FALSE)
  /\ UNCHANGED <<carrier, sendfirst, rx, halts, aborted, got, inbound, partial,
                reqdone, env>>

\* A file request, in answer to the null name
RecvFreq(s) ==
  /\ Receives(s, "FREQ")
  /\ Consume(s)
  /\ LET ans     == Answer[Requests[Peer(s)][Head(chan[s]).arg]]
         allowed == MaxRequests = 0 \/ tx[s].reqlim > 0
         t       == Heard(tx[s])
     IN  tx' = [tx EXCEPT ![s] =
           IF t.state # "XRCVFNACK" THEN t
           ELSE IF ~allowed THEN [t EXCEPT !.state = "XSENDFREQNAK", !.retry = FALSE]
           ELSE [Serve(t, ans) EXCEPT
                   !.state  = IF ans = <<>> THEN "XSENDFREQNAK" ELSE "XSENDFNAME",
                   !.reqlim = IF MaxRequests = 0 THEN t.reqlim ELSE t.reqlim - Len(ans),
                   !.retry  = FALSE]]
  /\ UNCHANGED <<carrier, phase, sendfirst, rx, halts, aborted, disk, env>>

\* The last request matched nothing
RecvFreqNak(s) ==
  /\ Receives(s, "FREQNAK")
  /\ rx' = [rx EXCEPT ![s] = [rx[s] EXCEPT !.attempting = FALSE, !.started = TRUE]]
  /\ tx' = [tx EXCEPT ![s] = Heard(@)]
  /\ Reply(s, Pkt("FRNAKACK"))
  /\ UNCHANGED <<carrier, phase, sendfirst, halts, aborted, disk, env>>

RecvFrnakAck(s) ==
  /\ Receives(s, "FRNAKACK")
  /\ Consume(s)
  /\ LET t == Heard(tx[s])
     IN  IF t.state = "XRCVFRNAKACK"
         THEN /\ tx' = [tx EXCEPT ![s] = [FirstOf(s, t, t.idx) EXCEPT
                                            !.state = "XSENDFNAME", !.retry = FALSE]]
              /\ CleanUp(t)
         ELSE tx' = [tx EXCEPT ![s] = t] /\ UNCHANGED <<marked, removed>>
  /\ UNCHANGED <<carrier, phase, sendfirst, rx, halts, aborted, got, inbound, partial,
                reqdone, env>>

\* The file has arrived; or, waiting for a FNACK, the name was not understood
RecvEofAck(s) ==
  /\ Receives(s, "EOFACK")
  /\ Consume(s)
  /\ LET t == Heard(tx[s])
     IN  \/ t.state = "XRCVEOFACK" /\ NextFile(s, t)
         \/ /\ t.state = "XRCVFNACK"
            /\ tx' = [tx EXCEPT ![s] = [t EXCEPT !.state = "XSENDFNAME", !.retry = FALSE]]
            /\ UNCHANGED <<marked, removed>>
         \/ /\ t.state \notin {"XRCVEOFACK", "XRCVFNACK"}
            /\ tx' = [tx EXCEPT ![s] = t]
            /\ UNCHANGED <<marked, removed>>
  /\ UNCHANGED <<carrier, phase, sendfirst, rx, halts, aborted, got, inbound, partial,
                reqdone, env>>

\* Go back to the position asked for, once per series of RPOS.  CLEAR_OUTBOUND
\* purges what the serial driver has not sent yet, possibly in mid-packet.
RecvRpos(s) ==
  /\ Receives(s, "RPOS")
  /\ LET p    == Head(chan[s])
         t    == Heard(tx[s])
         acts == t.state \in {"XSENDBLK", "XRCVEOFACK"} /\ p.arg # t.rpostime
         out  == chan[Peer(s)]
     IN  IF acts
         THEN /\ tx' = [tx EXCEPT ![s] =
                   [t EXCEPT !.state = "XSENDBLK", !.rpostime = p.arg, !.retry = FALSE,
                             !.pos = p.pos, !.last = p.pos]]
              /\ \E k \in 0 .. Len(out) :
                   \E q \in {SubSeq(out, 1, k)} \cup
                            IF k < Len(out) THEN {Append(SubSeq(out, 1, k), Pkt("BAD"))}
                            ELSE {} :
                     chan' = [chan EXCEPT ![s] = Tail(@), ![Peer(s)] = q]
         ELSE tx' = [tx EXCEPT ![s] = t] /\ Consume(s)
  /\ UNCHANGED <<carrier, phase, sendfirst, rx, halts, aborted, disk, env>>

RecvHaltAck(s) ==
  /\ Receives(s, "HALTACK")
  /\ Consume(s)
  /\ tx' = [tx EXCEPT ![s] = Heard(@)]
  /\ UNCHANGED <<carrier, phase, sendfirst, rx, halts, aborted, disk, env>>

RecvHalt(s) ==
  /\ Receives(s, "HALT")
  /\ GiveUp(s, [chan EXCEPT ![s] = Tail(@)])
  /\ UNCHANGED env

-----------------------------------------------------------------------------
(* endbatch() *)

InEnd(s) == phase[s] = "end"

\* The loop is over: announce it insistently
Finish(s, q) ==
  /\ phase' = [phase EXCEPT ![s] = "done"]
  /\ chan' = [q EXCEPT ![Peer(s)] = @ \o [i \in 1 .. HaltAcks |-> Pkt("HALTACK")]]

EndRecv(s) ==
  /\ InEnd(s) /\ chan[s] # <<>>
  /\ LET p == Head(chan[s])
     IN  \/ /\ p.type \in {"HALT", "HALTACK"}
            /\ Finish(s, [chan EXCEPT ![s] = Tail(@)])
            /\ UNCHANGED halts
         \/ /\ p.type = "BAD"
            /\ Consume(s)
            /\ UNCHANGED <<phase, halts>>
         \/ /\ p.type \notin {"HALT", "HALTACK", "BAD"}
            /\ Reply(s, Pkt("HALT"))
            /\ halts' = [halts EXCEPT ![s] = 0]
            /\ UNCHANGED phase
  /\ UNCHANGED <<carrier, sendfirst, tx, rx, aborted, disk, env>>

EndTimeout(s) ==
  /\ InEnd(s)
  /\ Elapse(LongQuiet)
  /\ IF halts[s] = MaxHalts
     THEN Finish(s, chan) /\ UNCHANGED halts
     ELSE /\ Send(s, Pkt("HALT"))
          /\ halts' = [halts EXCEPT ![s] = @ + 1]
          /\ UNCHANGED phase
  /\ UNCHANGED <<carrier, sendfirst, tx, rx, aborted, disk>>

\* The operator presses ESC, or endbatch()'s own brain_dead expires
EndEscape(s) ==
  /\ InEnd(s) /\ env.quits > 0
  /\ env' = [env EXCEPT !.quits = @ - 1]
  /\ Finish(s, chan)
  /\ UNCHANGED <<carrier, sendfirst, tx, rx, halts, aborted, disk>>

EndNoCarrier(s) ==
  /\ InEnd(s) /\ ~carrier /\ chan[s] = <<>>
  /\ Finish(s, chan)
  /\ UNCHANGED <<carrier, sendfirst, tx, rx, halts, aborted, disk, env>>

-----------------------------------------------------------------------------
(* The line, and the next session *)

\* The mailer that has finished hangs up
HangUp(s) ==
  /\ phase[s] = "done" /\ carrier
  /\ carrier' = FALSE
  /\ UNCHANGED <<chan, phase, sendfirst, tx, rx, halts, aborted, disk, env>>

\* Carrier is lost, and with it the end of what was in transit
LineDrop ==
  /\ carrier /\ env.quits > 0
  /\ \E s \in Stations : phase[s] # "done"
  /\ carrier' = FALSE
  /\ \E cut \in [Stations -> 0 .. 1] :
       chan' = [s \in Stations |->
                  IF cut[s] = 0 THEN chan[s] ELSE SubSeq(chan[s], 1, Len(chan[s]) \div 2)]
  /\ env' = [env EXCEPT !.quits = @ - 1]
  /\ UNCHANGED <<phase, sendfirst, tx, rx, halts, aborted, disk>>

\* Line noise: the packet arrives with a bad CRC, or not as a packet at all
Noise(s) ==
  /\ chan[s] # <<>> /\ phase[s] # "done" /\ env.noise > 0
  /\ Head(chan[s]).type # "BAD"
  /\ \/ chan' = [chan EXCEPT ![s] = <<Pkt("BAD")>> \o Tail(@)]
     \/ Consume(s)
  /\ env' = [env EXCEPT !.noise = @ - 1]
  /\ UNCHANGED <<carrier, phase, sendfirst, tx, rx, halts, aborted, disk>>

\* Janus() up to its main loop
TxStart(s) == FirstOf(s, [state |-> "XSENDFNAME", file |-> None, idx |-> 0, pos |-> 0,
                          last |-> 0, retry |-> FALSE, doafter |-> "NOTHING_AFTER",
                          sendreq |-> FALSE, reqtmp |-> <<>>, reqlim |-> MaxRequests,
                          inhibit |-> FALSE, rpostime |-> 0, idle |-> 0], 0)
RxStart(s) == [state |-> "RRCVFNAME", file |-> None, pos |-> 0, data |-> <<>>,
               room |-> Room[s], cnt |-> 0, sttime |-> 0, samesec |-> FALSE, waiting |-> FALSE,
               lastblk |-> 0, attempting |-> FALSE, started |-> FALSE]

\* One of the two calls again; what was received may have been tossed meanwhile
NewSession ==
  /\ \A s \in Stations : phase[s] = "done"
  /\ env.sessions > 1
  /\ env' = [env EXCEPT !.sessions = @ - 1]
  /\ chan' = [s \in Stations |-> <<>>]
  /\ carrier' = TRUE
  /\ phase' = [s \in Stations |-> "run"]
  /\ sendfirst' = [s \in Stations |-> TRUE]
  /\ tx' = [s \in Stations |-> TxStart(s)]
  /\ rx' = [s \in Stations |-> RxStart(s)]
  /\ halts' = [s \in Stations |-> 0]
  /\ aborted' = [s \in Stations |-> FALSE]
  /\ \/ UNCHANGED inbound
     \/ inbound' = [s \in Stations |-> {}]
  /\ UNCHANGED <<marked, removed, got, partial, reqdone>>

Init ==
  /\ chan = [s \in Stations |-> <<>>]
  /\ carrier = TRUE
  /\ phase = [s \in Stations |-> "run"]
  /\ sendfirst = [s \in Stations |-> TRUE]
  /\ marked = {} /\ removed = {}
  /\ tx = [s \in Stations |-> TxStart(s)]
  /\ rx = [s \in Stations |-> RxStart(s)]
  /\ halts = [s \in Stations |-> 0]
  /\ aborted = [s \in Stations |-> FALSE]
  /\ got = [s \in Stations |-> <<>>]
  /\ inbound = Held
  /\ partial = [s \in Stations |-> [f \in Files |-> <<>>]]
  /\ reqdone = [s \in Stations |-> 0]
  /\ env = [noise |-> MaxNoise, early |-> MaxEarly, quits |-> MaxQuits,
            sessions |-> MaxSessions]

Transmit(s) == SendBlk(s) \/ SendFname(s) \/ SendFreqNak(s)
Receive(s)  == \/ RecvBlock(s) \/ RecvGap(s) \/ RecvStray(s)
               \/ RecvFname(s) \/ RecvFnack(s) \/ RecvFreq(s) \/ RecvFreqNak(s)
               \/ RecvFrnakAck(s) \/ RecvEofAck(s) \/ RecvRpos(s)
               \/ RecvHaltAck(s) \/ RecvHalt(s)
Timers(s)   == XmitTimeout(s) \/ RposTimeout(s) \/ BrainDead(s)
EndBatch(s) == EndRecv(s) \/ EndTimeout(s) \/ EndNoCarrier(s)

Next == \/ \E s \in Stations : \/ Transmit(s) \/ Receive(s) \/ Timers(s)
                               \/ EndBatch(s) \/ NoCarrier(s) \/ HangUp(s)
                               \/ Escape(s) \/ EndEscape(s) \/ Noise(s)
        \/ LineDrop
        \/ NewSession

Spec == Init /\ [][Next]_vars

-----------------------------------------------------------------------------
(* Types *)

UnitSeqs == Seq(Files \X Nat)

PacketTo(s) == {p \in Packet :
  /\ p.type = "BLK"  => p.file \in Files /\ p.pos \in Nat /\ p.arg \in Nat
  /\ p.type = "RPOS" => p.pos \in Nat
  /\ p.type = "FREQ" => p.arg \in 1 .. Len(Requests[Peer(s)])}

Lines == {c \in [Stations -> Seq(Packet)] : \A s \in Stations : c[s] \in Seq(PacketTo(s))}

TxRecord == [state : {"XDONE", "XSENDFNAME", "XRCVFNACK", "XSENDBLK", "XRCVEOFACK",
                      "XSENDFREQNAK", "XRCVFRNAKACK"},
             file : Files \cup {None}, idx : Nat, pos : Nat, last : Nat,
             retry : BOOLEAN, doafter : {"DELETE_AFTER", "NOTHING_AFTER"},
             sendreq : BOOLEAN, reqtmp : Seq(Files), reqlim : Int,
             inhibit : BOOLEAN, rpostime : Int, idle : Nat]

TxType == {t \in TxRecord :
  /\ t.state \in {"XSENDBLK", "XRCVEOFACK"} => t.file \in Files
  /\ t.sendreq => t.reqtmp # <<>>}

RxRecord == [state : {"RDONE", "RRCVFNAME", "RRCVBLK"}, file : Files \cup {None},
             pos : Int, data : UnitSeqs, room : Int, cnt : Nat, sttime : Nat,
             samesec : BOOLEAN, waiting : BOOLEAN, lastblk : Nat,
             attempting : BOOLEAN, started : BOOLEAN]

RxType == {r \in RxRecord :
  /\ r.state = "RRCVBLK" => r.file \in Files /\ r.pos \in Nat
  /\ r.state = "RDONE"   => r.file = None}

\* Every variable keeps its type: the records of the two halves, the packets
\* in transit, the files on disk.
TypeOK ==
  /\ chan \in Lines
  /\ carrier \in BOOLEAN
  /\ phase \in [Stations -> {"run", "end", "done"}]
  /\ sendfirst \in [Stations -> BOOLEAN]
  /\ tx \in [Stations -> TxType]
  /\ rx \in [Stations -> RxType]
  /\ halts \in [Stations -> Nat]
  /\ aborted \in [Stations -> BOOLEAN]
  /\ marked \subseteq Files /\ removed \subseteq Files
  /\ got \in [Stations -> Seq([name : Files, data : UnitSeqs])]
  /\ inbound \in [Stations -> SUBSET Files]
  /\ partial \in [Stations -> [Files -> UnitSeqs]]
  /\ reqdone \in [Stations -> Nat]
  /\ env \in [noise : Nat, early : Nat, quits : Nat, sessions : Nat]

-----------------------------------------------------------------------------
(* Properties *)

ToSend(s)     == {Outbound[s][i] : i \in DOMAIN Outbound[s]}
Arrived(s, f) == \/ f \in Held[s]
                 \/ \E i \in DOMAIN got[s] : got[s][i] = [name |-> f, data |-> Content(f)]

\* getfname() flags a .?LO line '~' and unlinks a sent file only when the peer
\* has all of it: mail is not struck off the outbound before it has arrived.
NoMailLost == \A s \in Stations : \A f \in ToSend(s) :
                f \in marked \cup removed => Arrived(Peer(s), f)

\* What rxclose(GOOD_XFER) files under a name is that file from first unit to
\* last, through RPOS, retransmission, refusal and resumption.
ReceivedIntact == \A s \in Stations : \A i \in DOMAIN got[s] :
                    got[s][i].data = Content(got[s][i].name)

\* Every unit a file is made of lies at its own offset, in the file being
\* received, in what is kept of an aborted one and in the complete ones: whatever
\* is lost, repeated or refused, data is neither skipped nor written twice.
InOrder(d)  == \A i \in DOMAIN d : d[i][2] = i
UnitsInPlace == \A s \in Stations :
  /\ phase[s] = "run" /\ rx[s].state = "RRCVBLK" =>
       rx[s].pos = Len(rx[s].data) /\ InOrder(rx[s].data)
  /\ \A f \in Files : InOrder(partial[s][f])
  /\ \A i \in DOMAIN got[s] : InOrder(got[s][i].data)

\* A side that leaves the main loop without something_wrong has had all its
\* mail delivered and has received all of the peer's.
CleanEndMeansAll == \A s \in Stations :
  phase[s] # "run" /\ ~aborted[s] =>
    /\ \A f \in ToSend(s) : Arrived(Peer(s), f)
    /\ \A f \in ToSend(Peer(s)) : Arrived(s, f)

\* A transmitter waiting for an acknowledgement has its retry timer running,
\* and only then: no lost packet leaves it waiting for ever.
RetryArmed == \A s \in Stations :
  phase[s] = "run" => (tx[s].retry <=> tx[s].state \in Waits)

\* Only the called side goes one-way, and not past the end of what it receives
\* (nothing would release tx_inhibit after that).
OneWayIsTemporary == \A s \in Stations :
  phase[s] = "run" /\ tx[s].inhibit => s # Caller /\ rx[s].state # "RDONE"

\* No retry makes the receiver file the same file twice.
ReceivedOnce == \A s \in Stations : \A i, j \in DOMAIN got[s] :
                  got[s][i].name = got[s][j].name => i = j

\* A line of the .REQ file is commented out only once all it asked for is here.
RequestsServed == \A s \in Stations : \A i \in 1 .. reqdone[s] :
  LET ans == Answer[Requests[s][i]]
  IN  \A k \in DOMAIN ans : Arrived(s, ans[k])

\* Post-transfer cleanup is for the outbound: a file that was sent because the
\* peer asked for it stays where it is.
RequestedFilesStay == \A r \in DOMAIN Answer : \A k \in DOMAIN Answer[r] :
                        Answer[r][k] \notin removed

\* "ACK to filename packet we just sent": the answer that decides what becomes
\* of a file is an answer to that file's name.
FnackIsForOurFile == \A s \in Stations :
  Receives(s, "FNACK") /\ tx[s].state = "XRCVFNACK" => Head(chan[s]).file = tx[s].file

\* A BadWaZOO file only grows, until its transfer is complete.
PartialKept == [][\A s \in Stations, f \in Files :
                    \/ Len(partial'[s][f]) >= Len(partial[s][f])
                    \/ Arrived(s, f)']_vars
\* The session does what MailTransfer promises of each item of mail.
Mail     == UNION {{<<s, f>> : f \in ToSend(s)} : s \in Stations}
Transfer == INSTANCE MailTransfer WITH
              Before <- {m \in Mail : m[2] \in Held[Peer(m[1])]},
              there  <- {m \in Mail : Arrived(Peer(m[1]), m[2])},
              struck <- {m \in Mail : m[2] \in marked \cup removed}

TransfersMail == Transfer!Spec

-----------------------------------------------------------------------------
(* Liveness *)

\* The main loop never blocks: it transmits what it can, reads what has come
\* in and looks at its timers, for ever; and the mailer hangs up after Janus().
Fairness == \A s \in Stations :
  /\ WF_vars(Transmit(s)) /\ WF_vars(Receive(s)) /\ WF_vars(Timers(s))
  /\ WF_vars(EndBatch(s)) /\ WF_vars(NoCarrier(s)) /\ WF_vars(HangUp(s))

FairSpec == Spec /\ Fairness

\* Both mailers get out of Janus(), in every session and whatever the line does.
SessionEnds == []<>(\A s \in Stations : phase[s] = "done")

\* All of the mail gets through in the one session, on a line that garbles and
\* swallows packets now and then, unless an operator stops a session, the carrier
\* is lost, or more packets are lost than brain_dead leaves time to repeat.
AllArrive ==
  <>(\/ env.quits < MaxQuits
     \/ MaxNoise - env.noise > MaxIdle
     \/ \A s \in Stations : \A f \in ToSend(s) : Arrived(Peer(s), f))
=============================================================================
