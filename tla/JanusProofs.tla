------------------------------ MODULE JanusProofs ------------------------------
(***************************************************************************)
(* Proofs about Janus, for any files, any line noise and any number of     *)
(* sessions.                                                               *)
(***************************************************************************)
EXTENDS Janus, SequenceTheorems, WellFoundedInduction, NaturalsInduction, TLAPS

-----------------------------------------------------------------------------
(* The two stations, the packets and the lines between them *)

\* Each station is the other's peer.
LEMMA PeerFacts ==
  ASSUME NEW s \in Stations
  PROVE  Peer(s) \in Stations /\ Peer(s) # s /\ Peer(Peer(s)) = s
BY StationsAssumption DEF Stations, Peer

\* The packets the two sides exchange are packets.
LEMMA PacketFacts ==
  ASSUME NEW s \in Stations
  PROVE  /\ \A t \in PktTypes \ {"BLK", "RPOS", "FREQ"} : Pkt(t) \in PacketTo(s)
         /\ \A f \in Files \cup {None} : Fname(f) \in PacketTo(s)
         /\ \A f \in Files \cup {None}, p \in Int : Fnack(f, p) \in PacketTo(s)
         /\ \A f \in Files, p \in Nat, n \in Nat : Blk(f, p, n) \in PacketTo(s)
         /\ \A p \in Nat, t \in Int : Rpos(p, t) \in PacketTo(s)
         /\ \A i \in 1 .. Len(Requests[Peer(s)]) : Freq(i) \in PacketTo(s)
<1>1. \A t \in PktTypes \ {"BLK", "RPOS", "FREQ"} : Pkt(t) \in PacketTo(s)
  BY DEF PacketTo, Packet, Pkt, PktTypes
<1>2. \A f \in Files \cup {None} : Fname(f) \in PacketTo(s)
  BY DEF PacketTo, Packet, Pkt, PktTypes, Fname
<1>3. \A f \in Files \cup {None}, p \in Int : Fnack(f, p) \in PacketTo(s)
  BY DEF PacketTo, Packet, Pkt, PktTypes, Fnack
<1>4. \A f \in Files, p \in Nat, n \in Nat : Blk(f, p, n) \in PacketTo(s)
  BY DEF PacketTo, Packet, PktTypes, Blk
<1>5. \A p \in Nat, t \in Int : Rpos(p, t) \in PacketTo(s)
  BY DEF PacketTo, Packet, Pkt, PktTypes, Rpos
<1>6. \A i \in 1 .. Len(Requests[Peer(s)]) : Freq(i) \in PacketTo(s)
  BY RequestsAssumption, PeerFacts DEF PacketTo, Packet, Pkt, PktTypes, Freq
<1> QED BY <1>1, <1>2, <1>3, <1>4, <1>5, <1>6

\* A packet may be added at the end of a line, or taken from its front.
LEMMA LineFacts ==
  ASSUME NEW c \in Lines, NEW s \in Stations
  PROVE  /\ \A p \in PacketTo(s) : [c EXCEPT ![s] = Append(@, p)] \in Lines
         /\ c[s] # <<>> => [c EXCEPT ![s] = Tail(@)] \in Lines
         /\ c[s] # <<>> => Head(c[s]) \in PacketTo(s)
         /\ \A q \in Seq(PacketTo(s)) : [c EXCEPT ![s] = q] \in Lines
<1>1. \A q \in Seq(PacketTo(s)) : q \in Seq(Packet)
  <2>1. PacketTo(s) \subseteq Packet BY DEF PacketTo
  <2> QED BY <2>1, SeqMonotonic
<1>2. \A q \in Seq(PacketTo(s)) : [c EXCEPT ![s] = q] \in Lines
  BY <1>1 DEF Lines
<1>3. c[s] \in Seq(PacketTo(s))
  BY DEF Lines
<1>4. \A p \in PacketTo(s) : Append(c[s], p) \in Seq(PacketTo(s))
  BY <1>3, AppendProperties
<1>5. c[s] # <<>> => Head(c[s]) \in PacketTo(s) /\ Tail(c[s]) \in Seq(PacketTo(s))
  BY <1>3, HeadTailProperties
<1> QED BY <1>2, <1>4, <1>5

\* A reply: one packet read, one sent.
LEMMA ReplyFacts ==
  ASSUME NEW c \in Lines, NEW s \in Stations, c[s] # <<>>, NEW p \in PacketTo(Peer(s))
  PROVE  [c EXCEPT ![s] = Tail(@), ![Peer(s)] = Append(@, p)] \in Lines
<1> DEFINE d == [c EXCEPT ![s] = Tail(@)]
<1>1. d \in Lines BY LineFacts
<1>2. [d EXCEPT ![Peer(s)] = Append(@, p)] \in Lines BY <1>1, PeerFacts, LineFacts
<1> QED BY <1>2, PeerFacts DEF Lines

\* The next outbound entry, if there is one, is an entry.
LEMMA NextEntryType ==
  ASSUME NEW s \in Stations, NEW i \in Nat
  PROVE  /\ NextEntry(s, i) \in Nat
         /\ NextEntry(s, i) # 0 => NextEntry(s, i) \in DOMAIN Outbound[s]
<1> DEFINE left == {j \in DOMAIN Outbound[s] : j > i /\ Offerable(Outbound[s][j])}
<1>1. left \subseteq Nat /\ left \subseteq DOMAIN Outbound[s]
  BY FilesAssumption
<1>2. CASE left = {}
  BY <1>2 DEF NextEntry
<1>3. CASE left # {}
  <2>1. PICK x \in left : \A y \in left : <<y, x>> \notin OpToRel(<, Nat)
    BY <1>1, <1>3, WFMin, NatLessThanWellFounded, Zenon
  <2>2. \A y \in left : ~(y < x)
    BY <1>1, <2>1, Zenon DEF OpToRel
  <2>3. \A y \in left : x <= y
    BY <1>1, <2>2
  <2> HIDE DEF left
  <2>4. (CHOOSE j \in left : \A k \in left : j <= k) \in left
    BY <2>3
  <2>5. NextEntry(s, i) \in left
    BY <1>3, <2>4 DEF NextEntry, left
  <2> QED BY <1>1, <2>5
<1> QED BY <1>2, <1>3

-----------------------------------------------------------------------------
(* Type correctness *)

TxParts(t) == t \in TxRecord /\ (t.sendreq => t.reqtmp # <<>>)

\* What the outbound scan leaves is a transmitter about to offer a file.
LEMMA FirstOfType ==
  ASSUME NEW s \in Stations, NEW t, TxParts(t)
  PROVE  /\ FirstOf(s, t, t.idx) \in TxRecord
         /\ [FirstOf(s, t, t.idx) EXCEPT !.state = "XSENDFNAME", !.retry = FALSE] \in TxType
         /\ FirstOf(s, t, t.idx).state = t.state
<1> DEFINE j == NextEntry(s, t.idx)
<1>1. j \in Nat /\ (j # 0 => j \in DOMAIN Outbound[s])
  BY NextEntryType DEF TxParts, TxRecord
<1>2. j # 0 => Outbound[s][j] \in Files
  <2>1. Outbound[s] \in Seq(Files) BY FilesAssumption
  <2> QED BY <1>1, <2>1, LenProperties, ElementOfSeq
<1>3. \A f \in Files : DoAfter(f) \in {"DELETE_AFTER", "NOTHING_AFTER"}
  BY DEF DoAfter
<1> HIDE DEF j
<1>4. CASE j = 0
  <2>1. FirstOf(s, t, t.idx) = [t EXCEPT !.idx = 0, !.file = None]
    BY <1>4 DEF FirstOf, j
  <2> DEFINE u == FirstOf(s, t, t.idx)
  <2>2. u \in TxRecord
    <3>1. t \in TxRecord BY DEF TxParts
    <3>2. [t EXCEPT !.idx = 0] \in TxRecord BY <3>1 DEF TxRecord
    <3> QED BY <2>1, <3>2 DEF TxRecord
  <2>5. u.state = t.state
    BY <2>1 DEF TxParts, TxRecord
  <2>3. u.sendreq => u.reqtmp # <<>>
    BY <2>1 DEF TxParts, TxRecord
  <2> HIDE DEF u
  <2>4. [u EXCEPT !.state = "XSENDFNAME", !.retry = FALSE] \in TxType
    BY <2>2, <2>3 DEF TxRecord, TxType
  <2> QED BY <2>2, <2>4, <2>5 DEF u
<1>5. CASE j # 0
  <2> DEFINE f == Outbound[s][j]
             d == DoAfter(f)
             u == [t EXCEPT !.idx = j, !.file = f, !.doafter = d]
  <2>1. FirstOf(s, t, t.idx) = u
    BY <1>5 DEF FirstOf, j
  <2>2. f \in Files /\ d \in {"DELETE_AFTER", "NOTHING_AFTER"}
    BY <1>2, <1>3, <1>5
  <2>3. t \in TxRecord /\ (t.sendreq => t.reqtmp # <<>>)
    BY DEF TxParts
  <2> HIDE DEF f, d
  <2>4. u \in TxRecord /\ u.state = t.state /\ u.sendreq = t.sendreq /\ u.reqtmp = t.reqtmp
    BY <1>1, <2>2, <2>3 DEF TxRecord
  <2> HIDE DEF u
  <2>5. [u EXCEPT !.state = "XSENDFNAME", !.retry = FALSE] \in TxType
    BY <2>3, <2>4 DEF TxRecord, TxType
  <2> QED BY <2>1, <2>4, <2>5
<1> QED BY <1>4, <1>5

\* So is one with a list of requested files to send.
LEMMA ServeType ==
  ASSUME NEW t \in TxRecord, NEW q \in Seq(Files)
  PROVE  TxParts(Serve(t, q)) /\ Serve(t, q).idx = t.idx
<1>1. q # <<>> => Head(q) \in Files
  BY HeadTailProperties
<1> QED BY <1>1 DEF TxParts, TxRecord, Serve

\* Choosing the next file, and cleaning up after the last one, keeps the types.
LEMMA NextFileType ==
  ASSUME tx \in [Stations -> TxType], marked \subseteq Files, removed \subseteq Files,
         NEW s \in Stations, NEW t \in TxType, NextFile(s, t)
  PROVE  /\ tx' \in [Stations -> TxType]
         /\ marked' \subseteq Files /\ removed' \subseteq Files
<1>0. TxParts(t)
  BY DEF TxParts, TxType
<1>1. CASE t.sendreq
  <2> DEFINE u == Serve(t, Tail(t.reqtmp))
  <2>1. Tail(t.reqtmp) \in Seq(Files)
    BY <1>1, HeadTailProperties DEF TxType, TxRecord
  <2>2. TxParts(u) /\ u.idx = t.idx
    BY <2>1, ServeType DEF TxType
  <2>3. [NextRequested(s, t) EXCEPT !.state = "XSENDFNAME", !.retry = FALSE] \in TxType
    <3> HIDE DEF u
    <3>1. CASE u.sendreq
      BY <2>2, <3>1 DEF NextRequested, u, TxParts, TxType, TxRecord
    <3>2. CASE ~u.sendreq
      <4>1. NextRequested(s, t) = FirstOf(s, u, u.idx)
        BY <2>2, <3>2 DEF NextRequested, u
      <4> QED BY <4>1, <2>2, FirstOfType
    <3> QED BY <3>1, <3>2
  <2> QED BY <1>1, <2>3 DEF NextFile
<1>2. CASE ~t.sendreq
  <2> DEFINE w == [FirstOf(s, t, t.idx) EXCEPT !.state = "XSENDFNAME", !.retry = FALSE]
  <2>1. w \in TxType
    BY <1>0, FirstOfType
  <2>2. tx' \in [Stations -> TxType]
    <3>1. tx' = [tx EXCEPT ![s] = w]
      BY <1>2 DEF NextFile
    <3> HIDE DEF w
    <3> QED BY <2>1, <3>1 DEF TypeOK
  <2>3. t.file \in Files \cup {None}
    BY DEF TxType, TxRecord
  <2> QED BY <1>2, <2>2, <2>3 DEF NextFile, CleanUp
<1> QED BY <1>1, <1>2

\* Leaving the main loop sends one more packet.
LEMMA LeaveOrStayType ==
  ASSUME NEW s \in Stations, NEW q \in Lines, NEW leaving \in BOOLEAN,
         phase \in [Stations -> {"run", "end", "done"}], LeaveOrStay(s, q, leaving)
  PROVE  chan' \in Lines /\ phase' \in [Stations -> {"run", "end", "done"}]
<1>1. Pkt("HALT") \in PacketTo(Peer(s))
  BY PeerFacts, PacketFacts DEF PktTypes
<1>2. [q EXCEPT ![Peer(s)] = Append(@, Pkt("HALT"))] \in Lines
  BY <1>1, PeerFacts, LineFacts
<1> QED BY <1>2 DEF LeaveOrStay

\* Janus() starts with both halves typed.
LEMMA StartType ==
  \A s \in Stations : TxStart(s) \in TxType /\ RxStart(s) \in RxType
<1>1. \A s \in Stations : TxStart(s) \in TxType
  <2> SUFFICES ASSUME NEW s \in Stations PROVE TxStart(s) \in TxType
    OBVIOUS
  <2> DEFINE t == [state |-> "XSENDFNAME", file |-> None, idx |-> 0, pos |-> 0,
                   last |-> 0, retry |-> FALSE, doafter |-> "NOTHING_AFTER",
                   sendreq |-> FALSE, reqtmp |-> <<>>, reqlim |-> MaxRequests,
                   inhibit |-> FALSE, rpostime |-> 0, idle |-> 0]
  <2>1. t \in TxRecord
    BY RequestsAssumption DEF TxRecord
  <2>2. TxParts(t) /\ t.idx = 0 /\ t.state = "XSENDFNAME"
    BY <2>1 DEF TxParts
  <2>3. TxStart(s) = FirstOf(s, t, 0)
    BY DEF TxStart
  <2>4. TxStart(s).sendreq = FALSE
    BY DEF TxStart, FirstOf
  <2> HIDE DEF t
  <2>5. TxStart(s) \in TxRecord /\ TxStart(s).state = "XSENDFNAME"
    BY <2>2, <2>3, FirstOfType
  <2> QED BY <2>4, <2>5 DEF TxType
<1>2. \A s \in Stations : RxStart(s) \in RxType
  BY FilesAssumption DEF RxStart, RxType, RxRecord, UnitSeqs
<1> QED BY <1>1, <1>2

\* Init satisfies TypeOK.
LEMMA TypeInit == Init => TypeOK
<1> SUFFICES ASSUME Init PROVE TypeOK
  OBVIOUS
<1>1. chan \in Lines
  <2>1. chan = [s \in Stations |-> <<>>] BY DEF Init
  <2>2. <<>> \in Seq(Packet) /\ \A s \in Stations : <<>> \in Seq(PacketTo(s))
    BY EmptySeq
  <2> QED BY <2>1, <2>2 DEF Lines
<1>4. chan \in Lines /\ carrier \in BOOLEAN /\ phase \in [Stations -> {"run", "end", "done"}]
  BY <1>1 DEF Init
<1>5. tx \in [Stations -> TxType] /\ rx \in [Stations -> RxType]
  BY StartType DEF Init
<1>6. halts \in [Stations -> Nat] /\ aborted \in [Stations -> BOOLEAN]
      /\ sendfirst \in [Stations -> BOOLEAN]
      /\ marked \subseteq Files /\ removed \subseteq Files
  BY DEF Init
<1>7. got \in [Stations -> Seq([name : Files, data : UnitSeqs])]
      /\ inbound \in [Stations -> SUBSET Files]
      /\ partial \in [Stations -> [Files -> UnitSeqs]] /\ reqdone \in [Stations -> Nat]
  BY FilesAssumption DEF Init, UnitSeqs
<1>8. env \in [noise : Nat, early : Nat, quits : Nat, sessions : Nat]
  BY BoundsAssumption DEF Init
<1> QED BY <1>4, <1>5, <1>6, <1>7, <1>8 DEF TypeOK

\* Sending keeps the types.
LEMMA TypeTransmit ==
  ASSUME TypeOK, NEW s \in Stations, Transmit(s)
  PROVE  TypeOK'
<1> USE DEF disk
<1>1. CASE SendBlk(s)
  <2>1. PICK size \in 1 .. BlkMax :
          LET t    == tx[s]
              rest == IF t.pos < Size[t.file] THEN Size[t.file] - t.pos ELSE 0
              n    == IF size < rest THEN size ELSE rest
              last == n < size \/ t.pos + n >= Size[t.file]
          IN  /\ Send(s, Blk(t.file, t.pos, n))
              /\ tx' = [tx EXCEPT ![s] =
                   [t EXCEPT !.last  = t.pos, !.pos = t.pos + n,
                             !.state = IF last THEN "XRCVEOFACK" ELSE "XSENDBLK",
                             !.retry = last,
                             !.idle  = IF last THEN t.idle ELSE 0]]
    BY <1>1 DEF SendBlk
  <2> DEFINE t    == tx[s]
             rest == IF t.pos < Size[t.file] THEN Size[t.file] - t.pos ELSE 0
             n    == IF size < rest THEN size ELSE rest
  <2>2. t \in TxType /\ t.file \in Files /\ Size[t.file] \in Nat /\ size \in Nat
    <3>1. t \in TxType BY DEF TypeOK
    <3>2. t.state = "XSENDBLK" BY <1>1 DEF SendBlk
    <3>3. t.file \in Files BY <3>1, <3>2 DEF TxType
    <3>4. size \in Nat BY BoundsAssumption
    <3> QED BY <3>1, <3>3, <3>4, FilesAssumption
  <2>3. n \in Nat /\ t.pos \in Nat
    BY <2>2 DEF TxType, TxRecord
  <2>4. chan' \in Lines
    <3>1. Blk(t.file, t.pos, n) \in PacketTo(Peer(s))
      BY <2>2, <2>3, PeerFacts, PacketFacts
    <3> HIDE DEF t, n
    <3>2. chan' = [chan EXCEPT ![Peer(s)] = Append(@, Blk(t.file, t.pos, n))]
      BY <2>1 DEF Send, t, n
    <3> QED BY <3>1, <3>2, PeerFacts, LineFacts DEF TypeOK
  <2>5. tx' \in [Stations -> TxType]
    <3> DEFINE last == n < size \/ t.pos + n >= Size[t.file]
    <3>1. [t EXCEPT !.last  = t.pos, !.pos = t.pos + n,
                    !.state = IF last THEN "XRCVEOFACK" ELSE "XSENDBLK",
                    !.retry = last,
                    !.idle  = IF last THEN t.idle ELSE 0] \in TxType
      <4> HIDE DEF last, n
      <4> HIDE DEF t
      <4>1. t.pos + n \in Nat /\ last \in BOOLEAN
        BY <2>3 DEF last
      <4> QED BY <2>2, <2>3, <4>1 DEF TxType, TxRecord
    <3> QED BY <2>1, <3>1 DEF TypeOK
  <2> QED BY <1>1, <2>4, <2>5 DEF SendBlk, TypeOK
<1>2. CASE SendFname(s)
  <2>1. tx[s].file \in Files \cup {None}
    BY DEF TypeOK, TxType, TxRecord
  <2>2. chan' \in Lines
    BY <1>2, <2>1, PeerFacts, PacketFacts, LineFacts DEF SendFname, Send, TypeOK
  <2>3. tx' \in [Stations -> TxType]
    <3>1. tx[s] \in TxType BY DEF TypeOK
    <3>2. [tx[s] EXCEPT !.state = "XRCVFNACK", !.retry = TRUE] \in TxType
      BY <3>1 DEF TxType, TxRecord
    <3> QED BY <1>2, <3>2 DEF SendFname, TypeOK
  <2> QED BY <1>2, <2>2, <2>3 DEF SendFname, TypeOK
<1>3. CASE SendFreqNak(s)
  <2>1. Pkt("FREQNAK") \in PacketTo(Peer(s))
    BY PeerFacts, PacketFacts DEF PktTypes
  <2>2. chan' \in Lines
    BY <1>3, <2>1, PeerFacts, LineFacts DEF SendFreqNak, Send, TypeOK
  <2>3. tx' \in [Stations -> TxType]
    <3>1. tx[s] \in TxType BY DEF TypeOK
    <3>2. [tx[s] EXCEPT !.state = "XRCVFRNAKACK", !.retry = TRUE] \in TxType
      BY <3>1 DEF TxType, TxRecord
    <3> QED BY <1>3, <3>2 DEF SendFreqNak, TypeOK
  <2> QED BY <1>3, <2>2, <2>3 DEF SendFreqNak, TypeOK
<1> QED BY <1>1, <1>2, <1>3 DEF Transmit


\* A packet that has come in is of a packet's type.
LEMMA HeadType ==
  ASSUME TypeOK, NEW s \in Stations, chan[s] # <<>>
  PROVE  /\ Head(chan[s]) \in PacketTo(s)
         /\ [chan EXCEPT ![s] = Tail(@)] \in Lines
         /\ \A p \in PacketTo(Peer(s)) :
              [chan EXCEPT ![s] = Tail(@), ![Peer(s)] = Append(@, p)] \in Lines
BY LineFacts, ReplyFacts DEF TypeOK

\* brain_dead, set again, keeps the type.
LEMMA HeardType ==
  ASSUME NEW t \in TxType
  PROVE  /\ Heard(t) \in TxType /\ Heard(t).state = t.state /\ Heard(t).file = t.file
         /\ Heard(t).sendreq = t.sendreq /\ Heard(t).retry = t.retry
         /\ Heard(t).inhibit = t.inhibit
BY DEF Heard, TxType, TxRecord

\* The use of a timer is paid for, or free.
LEMMA ElapseType ==
  ASSUME TypeOK, NEW quiet \in BOOLEAN, Elapse(quiet)
  PROVE  env' \in [noise : Nat, early : Nat, quits : Nat, sessions : Nat]
<1>1. env \in [noise : Nat, early : Nat, quits : Nat, sessions : Nat]
  BY DEF TypeOK
<1>2. env.early > 0 /\ env.noise > 0 => env.early - 1 \in Nat /\ env.noise - 1 \in Nat
  BY <1>1
<1>3. env' = env \/ (env.early - 1 \in Nat /\ env.noise - 1 \in Nat
                      /\ env' = [env EXCEPT !.early = @ - 1, !.noise = @ - 1])
  BY <1>2 DEF Elapse
<1> QED BY <1>1, <1>3

\* Giving up keeps the types.
LEMMA GiveUpType ==
  ASSUME TypeOK, NEW s \in Stations, NEW q \in Lines, GiveUp(s, q),
         env' \in [noise : Nat, early : Nat, quits : Nat, sessions : Nat]
  PROVE  TypeOK'
<1>1. chan' \in Lines /\ phase' \in [Stations -> {"run", "end", "done"}]
  BY LeaveOrStayType DEF GiveUp, TypeOK
<1>2. partial' \in [Stations -> [Files -> UnitSeqs]]
  <2>1. rx[s].data \in UnitSeqs
    BY DEF TypeOK, RxType, RxRecord
  <2> QED BY <2>1 DEF GiveUp, TypeOK
<1> QED BY <1>1, <1>2 DEF GiveUp, TypeOK

\* Timers keep the types.
LEMMA TypeTimers ==
  ASSUME TypeOK, NEW s \in Stations, Timers(s)
  PROVE  TypeOK'
<1> USE DEF disk, link
<1>0. Quiet \in BOOLEAN /\ LongQuiet \in BOOLEAN
  BY DEF Quiet, LongQuiet
<1>1. CASE XmitTimeout(s)
  <2>1. env' \in [noise : Nat, early : Nat, quits : Nat, sessions : Nat]
    BY <1>0, <1>1, ElapseType DEF XmitTimeout
  <2>2. tx[s] \in TxType
    BY DEF TypeOK
  <2> DEFINE t  == tx[s]
             st == CASE t.state = "XRCVFNACK"    -> "XSENDFNAME"
                     [] t.state = "XRCVFRNAKACK" -> "XSENDFREQNAK"
                     [] t.state = "XRCVEOFACK"   -> "XSENDBLK"
                     [] OTHER                    -> t.state
             ps == IF t.state = "XRCVEOFACK" THEN t.last ELSE t.pos
  <2>3. [t EXCEPT !.retry = FALSE, !.idle = t.idle + 1, !.state = st, !.pos = ps] \in TxType
    <3>1. /\ st \in {"XDONE", "XSENDFNAME", "XRCVFNACK", "XSENDBLK", "XRCVEOFACK",
                    "XSENDFREQNAK", "XRCVFRNAKACK"}
          /\ ps \in Nat /\ t.idle + 1 \in Nat
          /\ st \in {"XSENDBLK", "XRCVEOFACK"} => t.file \in Files
      BY <2>2 DEF TxType, TxRecord
    <3> HIDE DEF st, ps
    <3> QED BY <2>2, <3>1 DEF TxType, TxRecord
  <2>4. tx' = [tx EXCEPT ![s] = [t EXCEPT !.retry = FALSE, !.idle = t.idle + 1,
                                          !.state = st, !.pos = ps]]
    BY <1>1 DEF XmitTimeout
  <2>5. tx' \in [Stations -> TxType]
    BY <2>3, <2>4 DEF TypeOK
  <2>6. sendfirst' \in [Stations -> BOOLEAN]
    <3>1. Sending(s)' \in BOOLEAN BY DEF Sending
    <3> QED BY <1>1, <3>1 DEF XmitTimeout, TypeOK
  <2> QED BY <1>1, <2>1, <2>5, <2>6 DEF XmitTimeout, TypeOK
<1>2. CASE RposTimeout(s)
  <2>1. env' \in [noise : Nat, early : Nat, quits : Nat, sessions : Nat]
    BY <1>0, <1>2, ElapseType DEF RposTimeout
  <2>0. rx[s] \in RxType BY DEF TypeOK
  <2>2. [rx[s] EXCEPT !.waiting = FALSE, !.samesec = FALSE] \in RxType
    BY <2>0 DEF RxType, RxRecord
  <2>3. rx' \in [Stations -> RxType]
    BY <1>2, <2>2 DEF RposTimeout, TypeOK
  <2> QED BY <1>2, <2>1, <2>3 DEF RposTimeout, TypeOK
<1>3. CASE BrainDead(s)
  BY <1>3, GiveUpType DEF BrainDead, TypeOK
<1> QED BY <1>1, <1>2, <1>3 DEF Timers

\* A transmitter that has heard from the peer keeps the type of its half.
LEMMA TxHeard ==
  ASSUME TypeOK, NEW s \in Stations
  PROVE  /\ tx[s] \in TxType
         /\ [tx EXCEPT ![s] = Heard(@)] \in [Stations -> TxType]
<1>1. tx[s] \in TxType BY DEF TypeOK
<1> QED BY <1>1, HeardType DEF TypeOK

\* n more units of one file, put at the end of a sequence of units.
LEMMA MoreUnits ==
  ASSUME NEW d \in UnitSeqs, NEW f \in Files, NEW p \in Nat, NEW n \in Nat
  PROVE  /\ d \o Units(f, p, n) \in UnitSeqs
         /\ Len(d \o Units(f, p, n)) = Len(d) + n
         /\ \A i \in 1 .. Len(d) : (d \o Units(f, p, n))[i] = d[i]
         /\ \A i \in 1 .. n : (d \o Units(f, p, n))[Len(d) + i] = <<f, p + i>>
<1> DEFINE u == Units(f, p, n)
<1>1. u \in [1 .. n -> Files \X Nat]
  BY DEF Units
<1>2. u \in UnitSeqs /\ Len(u) = n
  <2>1. u \in Seq(Files \X Nat) BY <1>1 DEF Seq
  <2> QED BY <1>1, <2>1, LenProperties DEF UnitSeqs
<1>3. \A i \in 1 .. n : u[i] = <<f, p + i>>
  BY DEF Units
<1> HIDE DEF u
<1>4. d \o u \in UnitSeqs /\ Len(d \o u) = Len(d) + n
  BY <1>2, ConcatProperties DEF UnitSeqs
<1>5. \A i \in 1 .. Len(d) + n : (d \o u)[i] = IF i <= Len(d) THEN d[i] ELSE u[i - Len(d)]
  BY <1>2, ConcatProperties DEF UnitSeqs
<1>6. Len(d) \in Nat BY LenProperties DEF UnitSeqs
<1> QED BY <1>3, <1>4, <1>5, <1>6 DEF u

\* A block at Rxpos keeps the types.
LEMMA TypeRecvBlock ==
  ASSUME TypeOK, NEW s \in Stations, RecvBlock(s)
  PROVE  TypeOK'
<1> DEFINE b    == Head(chan[s])
           r    == rx[s]
           data == r.data \o Units(b.file, b.pos, b.arg)
           full == Completes(r, b.arg)
<1>1. b \in PacketTo(s) /\ b.type = "BLK"
  BY HeadType DEF RecvBlock, Receives
<1>2. b.file \in Files /\ b.pos \in Nat /\ b.arg \in Nat
  BY <1>1 DEF PacketTo
<1>3. r \in RxType /\ r \in RxRecord /\ r.file \in Files /\ r.pos \in Nat
  BY DEF TypeOK, RxType, RecvBlock
<1>4. data \in UnitSeqs
  <2>1. r.data \in UnitSeqs BY <1>3 DEF RxRecord
  <2> QED BY <1>2, <2>1, MoreUnits
<1>5. rx' = [rx EXCEPT ![s] =
              [r EXCEPT !.pos = r.pos + b.arg, !.data = data, !.room = r.room - b.arg,
                        !.lastblk = b.pos, !.waiting = FALSE, !.cnt = 0,
                        !.state = IF full THEN "RRCVFNAME" ELSE "RRCVBLK"]]
  BY DEF RecvBlock
<1>6. /\ got' = IF full THEN [got EXCEPT ![s] = Append(@, [name |-> r.file, data |-> data])]
                ELSE got
      /\ inbound' \in {inbound, [inbound EXCEPT ![s] = @ \cup {r.file}]}
      /\ partial' = IF full THEN [partial EXCEPT ![s][r.file] = <<>>] ELSE partial
      /\ IF full THEN Reply(s, Pkt("EOFACK")) ELSE Consume(s)
      /\ tx' = [tx EXCEPT ![s] = Heard(@)]
      /\ UNCHANGED <<carrier, phase, sendfirst, halts, aborted, marked, removed, reqdone,
                     env>>
  BY DEF RecvBlock
<1>7. chan[s] # <<>>
  BY DEF RecvBlock, Receives
<1> HIDE DEF b, full, data, r
<1>8. [r EXCEPT !.pos = r.pos + b.arg, !.data = data, !.room = r.room - b.arg,
                !.lastblk = b.pos, !.waiting = FALSE, !.cnt = 0,
                !.state = IF full THEN "RRCVFNAME" ELSE "RRCVBLK"] \in RxType
  <2> DEFINE pos  == r.pos + b.arg
             room == r.room - b.arg
             st   == IF full THEN "RRCVFNAME" ELSE "RRCVBLK"
  <2>1. pos \in Nat /\ room \in Int
    BY <1>2, <1>3 DEF RxRecord
  <2>2. st \in {"RRCVFNAME", "RRCVBLK"}
    OBVIOUS
  <2> HIDE DEF pos, room, st
  <2>3. [r EXCEPT !.pos = pos, !.data = data, !.room = room] \in RxRecord
    <3> DEFINE q1 == [r EXCEPT !.pos = pos]
               q2 == [q1 EXCEPT !.data = data]
    <3>1. q1 \in RxRecord BY <1>3, <2>1 DEF RxRecord
    <3> HIDE DEF q1
    <3>2. q2 \in RxRecord BY <1>4, <3>1 DEF RxRecord
    <3> HIDE DEF q2
    <3>3. [q2 EXCEPT !.room = room] \in RxRecord BY <2>1, <3>2 DEF RxRecord
    <3> QED BY <3>3 DEF q1, q2
  <2> DEFINE q == [r EXCEPT !.pos = pos, !.data = data, !.room = room]
  <2>5. q.pos = pos /\ q.file = r.file
    BY <1>3 DEF RxRecord
  <2> HIDE DEF q
  <2>6. [q EXCEPT !.lastblk = b.pos, !.waiting = FALSE, !.cnt = 0, !.state = st] \in RxType
    BY <1>2, <1>3, <2>1, <2>2, <2>3, <2>5 DEF RxType, RxRecord, q
  <2> QED BY <2>6 DEF q, pos, room, st
<1>9. rx' \in [Stations -> RxType]
  BY <1>5, <1>8 DEF TypeOK
<1>10. chan' \in Lines
  <2>1. Pkt("EOFACK") \in PacketTo(Peer(s))
    BY PeerFacts, PacketFacts DEF PktTypes
  <2> QED BY <1>6, <1>7, <2>1, HeadType DEF Reply, Consume
<1>11. got' \in [Stations -> Seq([name : Files, data : UnitSeqs])]
  <2>1. got[s] \in Seq([name : Files, data : UnitSeqs])
    BY DEF TypeOK
  <2>2. Append(got[s], [name |-> r.file, data |-> data]) \in Seq([name : Files, data : UnitSeqs])
    BY <1>3, <1>4, <2>1, AppendProperties
  <2> QED BY <1>6, <2>2 DEF TypeOK
<1>12. inbound' \in [Stations -> SUBSET Files]
  <2>1. inbound \in [Stations -> SUBSET Files] BY DEF TypeOK
  <2>2. [inbound EXCEPT ![s] = @ \cup {r.file}] \in [Stations -> SUBSET Files]
    <3>1. inbound[s] \cup {r.file} \in SUBSET Files BY <1>3, <2>1
    <3> QED BY <2>1, <3>1
  <2> QED BY <1>6, <2>1, <2>2
<1>13. partial' \in [Stations -> [Files -> UnitSeqs]]
  <2>1. <<>> \in UnitSeqs BY DEF UnitSeqs
  <2> QED BY <1>3, <1>6, <2>1 DEF TypeOK
<1>14. tx' \in [Stations -> TxType]
  BY <1>6, TxHeard
<1> QED BY <1>6, <1>9, <1>10, <1>11, <1>12, <1>13, <1>14 DEF TypeOK

\* A gap in the file keeps the types.
LEMMA TypeRecvGap ==
  ASSUME TypeOK, NEW s \in Stations, RecvGap(s)
  PROVE  TypeOK'
<1> DEFINE b      == Head(chan[s])
           r      == rx[s]
           t      == tx[s]
           isblk  == b.type = "BLK"
           back   == isblk /\ b.pos < r.lastblk
           asks   == back \/ ~r.waiting
           count  == IF back THEN 0 ELSE r.cnt
           oneway == count > RposLimit
           first  == count = 0 \/ oneway
           inhib  == t.inhibit \/ (asks /\ oneway /\ MayGoOneWay(s))
           blk    == IF isblk THEN b.pos ELSE r.lastblk
           cnt    == IF ~asks THEN r.cnt ELSE IF first THEN 1 ELSE r.cnt + 1
           idle   == IF isblk THEN 0 ELSE t.idle
<1>1. b \in PacketTo(s) /\ (isblk => b.pos \in Nat) /\ chan[s] # <<>>
  <2>1. chan[s] # <<>> BY DEF RecvGap, Receives
  <2>2. b \in PacketTo(s) BY <2>1, HeadType
  <2> QED BY <2>1, <2>2 DEF PacketTo
<1>2. r \in RxType /\ r \in RxRecord /\ r.pos \in Nat /\ r.state = "RRCVBLK"
  BY DEF TypeOK, RxType, RecvGap
<1>3. t \in TxType
  BY DEF TypeOK
<1>4. PICK tick \in {0, 1} :
        /\ rx' = [rx EXCEPT ![s] =
             [r EXCEPT !.lastblk = blk, !.cnt = cnt, !.sttime = r.sttime + tick,
                       !.samesec = r.samesec \/ tick = 1, !.waiting = TRUE]]
        /\ IF asks THEN Reply(s, Rpos(r.pos, r.sttime + tick)) ELSE Consume(s)
  BY DEF RecvGap
<1>5. tx' = [tx EXCEPT ![s] = [t EXCEPT !.inhibit = inhib, !.idle = idle]]
  BY DEF RecvGap
<1>6. UNCHANGED <<carrier, phase, sendfirst, halts, aborted, disk, env>>
  BY DEF RecvGap
<1>7. blk \in Nat /\ cnt \in Nat /\ idle \in Nat /\ inhib \in BOOLEAN
      /\ (r.samesec \/ tick = 1) \in BOOLEAN /\ r.sttime + tick \in Nat
  <2> HIDE DEF b, r, t, inhib, first, asks
  <2>1. blk \in Nat /\ cnt \in Nat BY <1>1, <1>2 DEF RxRecord
  <2>2. idle \in Nat BY <1>3 DEF TxType, TxRecord
  <2>3. r.sttime + tick \in Nat BY <1>2 DEF RxRecord
  <2>4. t.inhibit \in BOOLEAN BY <1>3 DEF TxType, TxRecord
  <2> QED BY <2>1, <2>2, <2>3, <2>4 DEF inhib
<1> HIDE DEF b, r, t, isblk, back, asks, count, oneway, first, inhib, blk, cnt, idle
<1>8. [r EXCEPT !.lastblk = blk, !.cnt = cnt, !.sttime = r.sttime + tick,
                !.samesec = r.samesec \/ tick = 1, !.waiting = TRUE] \in RxType
  BY <1>2, <1>7 DEF RxType, RxRecord
<1>9. rx' \in [Stations -> RxType]
  BY <1>4, <1>8 DEF TypeOK
<1>10. tx' \in [Stations -> TxType]
  <2>1. [t EXCEPT !.inhibit = inhib, !.idle = idle] \in TxType
    BY <1>3, <1>7 DEF TxType, TxRecord
  <2> QED BY <1>5, <2>1 DEF TypeOK
<1>11. chan' \in Lines
  <2>1. Rpos(r.pos, r.sttime + tick) \in PacketTo(Peer(s))
    BY <1>2, <1>7, PeerFacts, PacketFacts
  <2> QED BY <1>1, <1>4, <2>1, HeadType DEF Reply, Consume
<1> QED BY <1>6, <1>9, <1>10, <1>11 DEF TypeOK, disk

\* A stray block keeps the types.
LEMMA TypeRecvStray ==
  ASSUME TypeOK, NEW s \in Stations, RecvStray(s)
  PROVE  TypeOK'
<1>1. chan[s] # <<>> BY DEF RecvStray, Receives
<1>2. chan' \in Lines
  <2>1. Pkt("EOFACK") \in PacketTo(Peer(s))
    BY PeerFacts, PacketFacts DEF PktTypes
  <2> QED BY <1>1, <2>1, HeadType DEF RecvStray, Reply, Consume
<1>3. tx' \in [Stations -> TxType]
  <2>1. tx[s] \in TxType BY DEF TypeOK
  <2> QED BY <2>1, HeardType DEF RecvStray, TypeOK
<1> QED BY <1>2, <1>3 DEF RecvStray, TypeOK, disk

\* A reply that may end the main loop keeps the line and the phase typed.
LEMMA StayAfterReply ==
  ASSUME TypeOK, NEW s \in Stations, chan[s] # <<>>, NEW p \in PacketTo(Peer(s)),
         NEW leaving \in BOOLEAN,
         LeaveOrStay(s, [chan EXCEPT ![s] = Tail(@), ![Peer(s)] = Append(@, p)], leaving)
  PROVE  chan' \in Lines /\ phase' \in [Stations -> {"run", "end", "done"}]
<1> DEFINE q == [chan EXCEPT ![s] = Tail(@), ![Peer(s)] = Append(@, p)]
<1>1. q \in Lines BY HeadType
<1>2. LeaveOrStay(s, q, leaving) OBVIOUS
<1>3. phase \in [Stations -> {"run", "end", "done"}] BY DEF TypeOK
<1> HIDE DEF q
<1> QED BY <1>1, <1>2, <1>3, LeaveOrStayType

\* A receiving half with another file, position and data keeps its type.
With(r, f, p, d) == [r EXCEPT !.file = f, !.pos = p, !.data = d]

\* That is what the name says.
LEMMA RxWith ==
  ASSUME NEW r \in RxRecord, NEW f \in Files \cup {None}, NEW p \in Int, NEW d \in UnitSeqs
  PROVE  /\ With(r, f, p, d) \in RxRecord
         /\ With(r, f, p, d).state = r.state
         /\ With(r, f, p, d).file = f
         /\ With(r, f, p, d).pos = p
<1> DEFINE q1 == [r EXCEPT !.file = f]
           q2 == [q1 EXCEPT !.pos = p]
           q3 == [q2 EXCEPT !.data = d]
<1>1. q1 \in RxRecord /\ q1.state = r.state /\ q1.file = f
  BY DEF RxRecord
<1> HIDE DEF q1
<1>2. q2 \in RxRecord /\ q2.state = r.state /\ q2.file = f /\ q2.pos = p
  BY <1>1 DEF RxRecord
<1> HIDE DEF q2
<1>3. q3 \in RxRecord /\ q3.state = r.state /\ q3.file = f /\ q3.pos = p
  BY <1>2 DEF RxRecord
<1> QED BY <1>3 DEF q1, q2, With

\* procfname() leaves the receiving half typed, and at a real position unless
\* the file is refused.
LEMMA ProcFnameType ==
  ASSUME TypeOK, NEW s \in Stations, rx[s].state = "RRCVFNAME", NEW f \in Files \cup {None}
  PROVE  /\ ProcFname(s, f) \in RxType
         /\ ProcFname(s, f).state = "RRCVFNAME"
         /\ ProcFname(s, f).pos \in Nat \cup {-1}
<1>1. rx[s] \in RxType /\ rx[s] \in RxRecord
  BY DEF TypeOK, RxType
<1>2. CASE f = None
  <2>1. <<>> \in UnitSeqs BY DEF UnitSeqs
  <2>2. ProcFname(s, f) = [rx[s] EXCEPT !.file = None, !.pos = 0, !.data = <<>>]
    BY <1>2 DEF ProcFname
  <2>3. /\ ProcFname(s, f) \in RxRecord /\ ProcFname(s, f).state = "RRCVFNAME"
        /\ ProcFname(s, f).pos = 0
    <3> DEFINE r == rx[s]
               d == <<>>
               p == 0
    <3>1. r \in RxRecord /\ d \in UnitSeqs /\ p \in Int BY <1>1, <2>1
    <3> HIDE DEF r, d, p
    <3>2. /\ With(r, f, p, d) \in RxRecord
          /\ With(r, f, p, d).state = r.state
          /\ With(r, f, p, d).pos = p
      BY <3>1, RxWith
    <3>3. ProcFname(s, f) = With(r, f, p, d)
      BY <1>2, <2>2 DEF r, d, p, With
    <3> QED BY <3>2, <3>3 DEF r, p
  <2> QED BY <2>3 DEF RxType
<1>3. CASE f # None
  <2>1. partial[s][f] \in UnitSeqs
    BY <1>3 DEF TypeOK
  <2>2. Len(partial[s][f]) \in Nat
    BY <2>1, LenProperties DEF UnitSeqs
  <2>3. Start(s, f) \in Nat \cup {-1}
    BY <2>2 DEF Start
  <2>4. ProcFname(s, f) = [rx[s] EXCEPT !.file = f, !.pos = Start(s, f), !.data = partial[s][f]]
    BY <1>3 DEF ProcFname
  <2>5. /\ ProcFname(s, f) \in RxRecord /\ ProcFname(s, f).state = "RRCVFNAME"
        /\ ProcFname(s, f).pos = Start(s, f)
    <3> DEFINE r == rx[s]
               d == partial[s][f]
               p == Start(s, f)
    <3>1. r \in RxRecord /\ d \in UnitSeqs /\ p \in Int BY <1>1, <2>1, <2>3
    <3> HIDE DEF r, d, p
    <3>2. /\ With(r, f, p, d) \in RxRecord
          /\ With(r, f, p, d).state = r.state
          /\ With(r, f, p, d).pos = p
      BY <3>1, RxWith
    <3>3. ProcFname(s, f) = With(r, f, p, d)
      BY <2>4 DEF r, d, p, With
    <3> QED BY <3>2, <3>3 DEF r, p
  <2> QED BY <2>3, <2>5 DEF RxType
<1> QED BY <1>2, <1>3

\* A file name keeps the types.
LEMMA TypeRecvFname ==
  ASSUME TypeOK, NEW s \in Stations, RecvFname(s)
  PROVE  TypeOK'
<1> DEFINE f     == Head(chan[s]).file
           r     == IF rx[s].state = "RRCVFNAME" THEN ProcFname(s, f) ELSE rx[s]
           null  == r.file = None
           done  == IF null /\ Served(s, r) THEN reqdone[s] + 1 ELSE reqdone[s]
           asks  == null /\ done < Len(Requests[s])
           state == IF r.pos = -1 THEN r.state ELSE IF null THEN "RDONE" ELSE "RRCVBLK"
           leave == BatchOver(tx[s].state, state)
<1>1. chan[s] # <<>> /\ f \in Files \cup {None}
  <2>1. chan[s] # <<>> BY DEF RecvFname, Receives
  <2>2. Head(chan[s]) \in Packet BY <2>1, HeadType DEF PacketTo
  <2> QED BY <2>1, <2>2 DEF Packet
<1>2. r \in RxType /\ (r.pos \in Nat \cup {-1} \/ r.state = "RDONE")
  <2>1. rx[s] \in RxType BY DEF TypeOK
  <2>2. rx[s].state \in {"RDONE", "RRCVFNAME", "RRCVBLK"} BY <2>1 DEF RxType, RxRecord
  <2>3. rx[s].state = "RRCVBLK" => rx[s].pos \in Nat BY <2>1 DEF RxType
  <2> HIDE DEF f
  <2> QED BY <1>1, <2>1, <2>2, <2>3, ProcFnameType
<1>3. done \in Nat /\ (asks => done + 1 \in 1 .. Len(Requests[s]))
  <2>1. reqdone[s] \in Nat BY DEF TypeOK
  <2>2. Len(Requests[s]) \in Nat BY RequestsAssumption
  <2> HIDE DEF null, r
  <2> QED BY <2>1, <2>2
<1>4. reqdone' \in [Stations -> Nat]
  <2>1. reqdone' = [reqdone EXCEPT ![s] = done] BY DEF RecvFname
  <2> HIDE DEF done
  <2> QED BY <1>3, <2>1 DEF TypeOK
<1>5. UNCHANGED <<carrier, sendfirst, halts, aborted, marked, removed, got, inbound,
                  partial, env>>
  BY DEF RecvFname
<1>6. tx[s] \in TxType BY DEF TypeOK
<1>7. CASE asks
  <2>1. /\ rx' = [rx EXCEPT ![s] = [r EXCEPT !.attempting = TRUE, !.started = FALSE]]
        /\ tx' = [tx EXCEPT ![s] = Heard(@)]
        /\ Reply(s, Freq(done + 1))
        /\ UNCHANGED phase
    BY <1>7 DEF RecvFname
  <2>2. Freq(done + 1) \in PacketTo(Peer(s))
    <3>1. \A i \in 1 .. Len(Requests[Peer(Peer(s))]) : Freq(i) \in PacketTo(Peer(s))
      BY PeerFacts, PacketFacts
    <3>2. Peer(Peer(s)) = s BY PeerFacts
    <3> HIDE DEF done, asks
    <3> QED BY <1>3, <1>7, <3>1, <3>2
  <2> HIDE DEF r, done
  <2>3. [r EXCEPT !.attempting = TRUE, !.started = FALSE] \in RxType
    BY <1>2 DEF RxType, RxRecord
  <2>4. rx' \in [Stations -> RxType] BY <2>1, <2>3 DEF TypeOK
  <2>5. tx' \in [Stations -> TxType] BY <2>1, TxHeard
  <2>6. chan' \in Lines BY <1>1, <2>1, <2>2, HeadType DEF Reply
  <2> QED BY <1>4, <1>5, <2>1, <2>4, <2>5, <2>6 DEF TypeOK
<1>8. CASE ~asks
  <2>1. /\ rx' = [rx EXCEPT ![s] = [r EXCEPT !.state = state, !.attempting = FALSE,
                                             !.started = r.started \/ r.attempting]]
        /\ tx' = [tx EXCEPT ![s] = [Heard(tx[s]) EXCEPT
                                      !.inhibit = tx[s].inhibit /\ state # "RDONE"]]
        /\ LeaveOrStay(s, [chan EXCEPT ![s] = Tail(@), ![Peer(s)] = Append(@, Fnack(f, r.pos))],
                       leave)
    BY <1>8 DEF RecvFname
  <2> HIDE DEF f, r, done, asks
  <2>2. r.pos \in Int BY <1>2 DEF RxType, RxRecord
  <2>3. Fnack(f, r.pos) \in PacketTo(Peer(s))
    BY <1>1, <2>2, PeerFacts, PacketFacts
  <2>4. leave \in BOOLEAN BY DEF BatchOver
  <2>5. chan' \in Lines /\ phase' \in [Stations -> {"run", "end", "done"}]
    <3> HIDE DEF leave
    <3> QED BY <1>1, <2>1, <2>3, <2>4, StayAfterReply
  <2>6. [r EXCEPT !.state = state, !.attempting = FALSE,
                  !.started = r.started \/ r.attempting] \in RxType
    <3>1. /\ state \in {"RDONE", "RRCVFNAME", "RRCVBLK"}
          /\ state = "RRCVBLK" => r.file \in Files /\ r.pos \in Nat
          /\ state = "RDONE" => r.file = None
          /\ (r.started \/ r.attempting) \in BOOLEAN
      BY <1>2 DEF RxType, RxRecord
    <3> HIDE DEF state
    <3> QED BY <1>2, <3>1 DEF RxType, RxRecord
  <2>7. rx' \in [Stations -> RxType] BY <2>1, <2>6 DEF TypeOK
  <2>8. tx' \in [Stations -> TxType]
    <3> DEFINE t == Heard(tx[s])
               i == tx[s].inhibit /\ state # "RDONE"
    <3>1. t \in TxType BY <1>6, HeardType
    <3>2. i \in BOOLEAN BY <1>6 DEF TxType, TxRecord
    <3> HIDE DEF t, i
    <3>3. [t EXCEPT !.inhibit = i] \in TxType BY <3>1, <3>2 DEF TxType, TxRecord
    <3> QED BY <2>1, <3>3 DEF TypeOK, t, i
  <2> QED BY <1>4, <1>5, <2>5, <2>7, <2>8 DEF TypeOK
<1> QED BY <1>7, <1>8

\* The packet just read is consumed, and the main loop left or not.
LEMMA StayAfterRead ==
  ASSUME TypeOK, NEW s \in Stations, chan[s] # <<>>, NEW leaving \in BOOLEAN,
         LeaveOrStay(s, [chan EXCEPT ![s] = Tail(@)], leaving)
  PROVE  chan' \in Lines /\ phase' \in [Stations -> {"run", "end", "done"}]
<1> DEFINE q == [chan EXCEPT ![s] = Tail(@)]
<1>1. q \in Lines BY HeadType
<1>2. LeaveOrStay(s, q, leaving) OBVIOUS
<1>3. phase \in [Stations -> {"run", "end", "done"}] BY DEF TypeOK
<1> HIDE DEF q
<1> QED BY <1>1, <1>2, <1>3, LeaveOrStayType

\* The answer to a file name keeps the types.
LEMMA TypeRecvFnack ==
  ASSUME TypeOK, NEW s \in Stations, RecvFnack(s)
  PROVE  TypeOK'
<1> DEFINE p == Head(chan[s]).pos
           t == Heard(tx[s])
           q == [chan EXCEPT ![s] = Tail(@)]
<1>1. chan[s] # <<>> BY DEF RecvFnack, Receives
<1>2. t \in TxType BY TxHeard, HeardType
<1>3. UNCHANGED <<carrier, sendfirst, rx, halts, aborted, got, inbound, partial, reqdone,
                  env>>
  BY DEF RecvFnack
<1>4. tx \in [Stations -> TxType] /\ marked \subseteq Files /\ removed \subseteq Files
  BY DEF TypeOK
<1>5. p \in Int
  BY <1>1, HeadType DEF PacketTo, Packet
<1>6. \E leaving \in BOOLEAN : LeaveOrStay(s, q, leaving)
  BY <1>5 DEF RecvFnack, BatchOver
<1>7. chan' \in Lines /\ phase' \in [Stations -> {"run", "end", "done"}]
  BY <1>1, <1>6, StayAfterRead
<1>8. tx' \in [Stations -> TxType] /\ marked' \subseteq Files /\ removed' \subseteq Files
  <2>0. \/ /\ t.state # "XRCVFNACK"
           /\ tx' = [tx EXCEPT ![s] = t]
           /\ UNCHANGED <<marked, removed>>
        \/ /\ t.state = "XRCVFNACK" /\ t.file = None
           /\ tx' = [tx EXCEPT ![s] = [t EXCEPT !.state = "XDONE", !.retry = FALSE]]
           /\ UNCHANGED <<marked, removed>>
        \/ /\ t.state = "XRCVFNACK" /\ t.file # None /\ p > -1
           /\ tx' = [tx EXCEPT ![s] = [t EXCEPT !.state = "XSENDBLK", !.pos = p,
                                                !.retry = FALSE]]
           /\ UNCHANGED <<marked, removed>>
        \/ /\ t.state = "XRCVFNACK" /\ t.file # None /\ p = -1
           /\ NextFile(s, IF t.sendreq THEN t ELSE [t EXCEPT !.doafter = "NOTHING_AFTER"])
    BY DEF RecvFnack
  <2>1. CASE t.state # "XRCVFNACK"
    <3>1. tx' = [tx EXCEPT ![s] = t] /\ UNCHANGED <<marked, removed>>
      BY <2>1 DEF RecvFnack
    <3> HIDE DEF t
    <3> QED BY <1>2, <1>4, <3>1
  <2>2. CASE t.state = "XRCVFNACK" /\ t.file = None
    <3>1. tx' = [tx EXCEPT ![s] = [t EXCEPT !.state = "XDONE", !.retry = FALSE]]
          /\ UNCHANGED <<marked, removed>>
      BY <2>2 DEF RecvFnack
    <3> HIDE DEF t
    <3>2. [t EXCEPT !.state = "XDONE", !.retry = FALSE] \in TxType
      BY <1>2 DEF TxType, TxRecord
    <3> QED BY <1>4, <3>1, <3>2
  <2>3. CASE t.state = "XRCVFNACK" /\ t.file # None /\ p > -1
    <3>0. p # -1 BY <1>5, <2>3
    <3>1. tx' = [tx EXCEPT ![s] = [t EXCEPT !.state = "XSENDBLK", !.pos = p,
                                            !.retry = FALSE]]
          /\ UNCHANGED <<marked, removed>>
      BY <2>3, <2>0, <3>0, Zenon
    <3>2. p \in Nat BY <1>5, <2>3
    <3>3. t.file \in Files BY <1>2, <2>3 DEF TxType, TxRecord
    <3> HIDE DEF t, p
    <3>4. [t EXCEPT !.state = "XSENDBLK", !.pos = p, !.retry = FALSE] \in TxType
      BY <1>2, <3>2, <3>3 DEF TxType, TxRecord
    <3> QED BY <1>4, <3>1, <3>4
  <2>4. CASE t.state = "XRCVFNACK" /\ t.file # None /\ p = -1
    <3> DEFINE u == IF t.sendreq THEN t ELSE [t EXCEPT !.doafter = "NOTHING_AFTER"]
    <3>0. ~(p > -1) BY <1>5, <2>4
    <3>1. NextFile(s, u)
      BY <2>4, <2>0, <3>0, Zenon
    <3> HIDE DEF t
    <3>2. u \in TxType
      BY <1>2 DEF TxType, TxRecord
    <3> HIDE DEF u
    <3> QED BY <1>4, <3>1, <3>2, NextFileType
  <2>5. \/ t.state # "XRCVFNACK"
        \/ t.state = "XRCVFNACK" /\ t.file = None
        \/ t.state = "XRCVFNACK" /\ t.file # None /\ (p > -1 \/ p = -1)
    BY DEF RecvFnack
  <2> QED BY <2>1, <2>2, <2>3, <2>4, <2>5
<1> QED BY <1>3, <1>7, <1>8 DEF TypeOK

\* What is found for a request that has come in is a list of files.
LEMMA AnswerType ==
  ASSUME TypeOK, NEW s \in Stations, RecvFreq(s)
  PROVE  Answer[Requests[Peer(s)][Head(chan[s]).arg]] \in Seq(Files)
<1>1. chan[s] # <<>> /\ Head(chan[s]).type = "FREQ"
  BY DEF RecvFreq, Receives
<1>2. Head(chan[s]).arg \in 1 .. Len(Requests[Peer(s)])
  BY <1>1, HeadType DEF PacketTo
<1>3. Peer(s) \in Stations
  BY PeerFacts
<1>4. Requests[Peer(s)][Head(chan[s]).arg] \in ReqNames
  BY <1>2, <1>3, RequestsAssumption DEF ReqNames
<1> QED BY <1>4, RequestsAssumption

\* A file request keeps the types.
LEMMA TypeRecvFreq ==
  ASSUME TypeOK, NEW s \in Stations, RecvFreq(s)
  PROVE  TypeOK'
<1> DEFINE a   == Head(chan[s]).arg
           ans == Answer[Requests[Peer(s)][a]]
           allowed == MaxRequests = 0 \/ tx[s].reqlim > 0
           t   == Heard(tx[s])
           lim == IF MaxRequests = 0 THEN t.reqlim ELSE t.reqlim - Len(ans)
           st  == IF ans = <<>> THEN "XSENDFREQNAK" ELSE "XSENDFNAME"
           v   == Serve(t, ans)
<1>1. chan[s] # <<>> /\ Head(chan[s]).type = "FREQ" BY DEF RecvFreq, Receives
<1>2. t \in TxType BY TxHeard, HeardType
<1>3. UNCHANGED <<carrier, phase, sendfirst, rx, halts, aborted, disk, env>>
  BY DEF RecvFreq
<1>4. chan' \in Lines
  BY <1>1, HeadType DEF RecvFreq, Consume
<1>5. ans \in Seq(Files)
  BY AnswerType
<1>6. tx' = [tx EXCEPT ![s] =
        IF t.state # "XRCVFNACK" THEN t
        ELSE IF ~allowed THEN [t EXCEPT !.state = "XSENDFREQNAK", !.retry = FALSE]
        ELSE [v EXCEPT !.state = st, !.reqlim = lim, !.retry = FALSE]]
  BY DEF RecvFreq
<1>7. [t EXCEPT !.state = "XSENDFREQNAK", !.retry = FALSE] \in TxType
  <2> HIDE DEF t
  <2> QED BY <1>2 DEF TxType, TxRecord
<1>8. [v EXCEPT !.state = st, !.reqlim = lim, !.retry = FALSE] \in TxType
  <2>1. TxParts(v)
    <3>1. t \in TxRecord BY <1>2 DEF TxType
    <3> HIDE DEF t, ans
    <3> QED BY <1>5, <3>1, ServeType
  <2>2. lim \in Int
    <3>1. t.reqlim \in Int BY <1>2 DEF TxType, TxRecord
    <3>2. Len(ans) \in Nat BY <1>5, LenProperties
    <3> HIDE DEF t, ans
    <3> QED BY <3>1, <3>2
  <2>3. st \in {"XSENDFREQNAK", "XSENDFNAME"} OBVIOUS
  <2> HIDE DEF v, st, lim
  <2> QED BY <2>1, <2>2, <2>3 DEF TxParts, TxType, TxRecord
<1> HIDE DEF t, v, st, lim, allowed
<1>9. tx' \in [Stations -> TxType]
  BY <1>2, <1>6, <1>7, <1>8 DEF TypeOK
<1> QED BY <1>3, <1>4, <1>9 DEF TypeOK, disk

\* A refused request, and its acknowledgement, keep the types.
LEMMA TypeRecvFreqNak ==
  ASSUME TypeOK, NEW s \in Stations, RecvFreqNak(s)
  PROVE  TypeOK'
<1>1. chan[s] # <<>> BY DEF RecvFreqNak, Receives
<1>2. chan' \in Lines
  <2>1. Pkt("FRNAKACK") \in PacketTo(Peer(s))
    BY PeerFacts, PacketFacts DEF PktTypes
  <2> QED BY <1>1, <2>1, HeadType DEF RecvFreqNak, Reply
<1>3. rx' \in [Stations -> RxType]
  <2>1. rx[s] \in RxType BY DEF TypeOK
  <2>2. [rx[s] EXCEPT !.attempting = FALSE, !.started = TRUE] \in RxType
    BY <2>1 DEF RxType, RxRecord
  <2> QED BY <2>2 DEF RecvFreqNak, TypeOK
<1>4. tx' \in [Stations -> TxType]
  BY TxHeard DEF RecvFreqNak
<1> QED BY <1>2, <1>3, <1>4 DEF RecvFreqNak, TypeOK, disk

\* So does the acknowledgement of a refused request.
LEMMA TypeRecvFrnakAck ==
  ASSUME TypeOK, NEW s \in Stations, RecvFrnakAck(s)
  PROVE  TypeOK'
<1> DEFINE t == Heard(tx[s])
<1>1. chan[s] # <<>> BY DEF RecvFrnakAck, Receives
<1>2. chan' \in Lines
  BY <1>1, HeadType DEF RecvFrnakAck, Consume
<1>3. t \in TxType BY TxHeard, HeardType
<1>4. tx' \in [Stations -> TxType] /\ marked' \subseteq Files /\ removed' \subseteq Files
  <2>0. tx \in [Stations -> TxType] /\ marked \subseteq Files /\ removed \subseteq Files
    BY DEF TypeOK
  <2>1. CASE t.state = "XRCVFRNAKACK"
    <3>1. tx' = [tx EXCEPT ![s] = [FirstOf(s, t, t.idx) EXCEPT
                                     !.state = "XSENDFNAME", !.retry = FALSE]]
          /\ CleanUp(t)
      BY <2>1 DEF RecvFrnakAck
    <3>2. TxParts(t) /\ t.file \in Files \cup {None}
      BY <1>3 DEF TxParts, TxType, TxRecord
    <3> HIDE DEF t
    <3>3. tx' \in [Stations -> TxType]
      BY <2>0, <3>1, <3>2, FirstOfType
    <3> QED BY <2>0, <3>1, <3>2, <3>3 DEF CleanUp
  <2>2. CASE t.state # "XRCVFRNAKACK"
    <3>1. tx' = [tx EXCEPT ![s] = t] /\ UNCHANGED <<marked, removed>>
      BY <2>2 DEF RecvFrnakAck
    <3> HIDE DEF t
    <3> QED BY <1>3, <2>0, <3>1
  <2> QED BY <2>1, <2>2
<1> QED BY <1>2, <1>4 DEF RecvFrnakAck, TypeOK

\* The acknowledgement of a whole file keeps the types.
LEMMA TypeRecvEofAck ==
  ASSUME TypeOK, NEW s \in Stations, RecvEofAck(s)
  PROVE  TypeOK'
<1> DEFINE t == Heard(tx[s])
<1>1. chan[s] # <<>> BY DEF RecvEofAck, Receives
<1>2. chan' \in Lines
  BY <1>1, HeadType DEF RecvEofAck, Consume
<1>3. t \in TxType BY TxHeard, HeardType
<1>4. tx' \in [Stations -> TxType] /\ marked' \subseteq Files /\ removed' \subseteq Files
  <2>0. tx \in [Stations -> TxType] /\ marked \subseteq Files /\ removed \subseteq Files
    BY DEF TypeOK
  <2>1. CASE t.state = "XRCVEOFACK"
    <3>1. NextFile(s, t) BY <2>1 DEF RecvEofAck
    <3> HIDE DEF t
    <3> QED BY <1>3, <2>0, <3>1, NextFileType
  <2>2. CASE t.state = "XRCVFNACK"
    <3>1. tx' = [tx EXCEPT ![s] = [t EXCEPT !.state = "XSENDFNAME", !.retry = FALSE]]
          /\ UNCHANGED <<marked, removed>>
      BY <2>2 DEF RecvEofAck
    <3> HIDE DEF t
    <3>2. [t EXCEPT !.state = "XSENDFNAME", !.retry = FALSE] \in TxType
      BY <1>3 DEF TxType, TxRecord
    <3> QED BY <2>0, <3>1, <3>2
  <2>3. CASE t.state \notin {"XRCVEOFACK", "XRCVFNACK"}
    <3>1. tx' = [tx EXCEPT ![s] = t] /\ UNCHANGED <<marked, removed>>
      BY <2>3 DEF RecvEofAck
    <3> HIDE DEF t
    <3> QED BY <1>3, <2>0, <3>1
  <2> QED BY <2>1, <2>2, <2>3
<1> QED BY <1>2, <1>4 DEF RecvEofAck, TypeOK

\* Part of a line is a line, whatever is cut off.
LEMMA CutLine ==
  ASSUME NEW s \in Stations, NEW c \in Seq(PacketTo(s)), NEW k \in 0 .. Len(c)
  PROVE  SubSeq(c, 1, k) \in Seq(PacketTo(s))
BY SubSeqProperties

\* A request for another position keeps the types.
LEMMA TypeRecvRpos ==
  ASSUME TypeOK, NEW s \in Stations, RecvRpos(s)
  PROVE  TypeOK'
<1> DEFINE p    == Head(chan[s])
           t    == Heard(tx[s])
           acts == t.state \in {"XSENDBLK", "XRCVEOFACK"} /\ p.arg # t.rpostime
           out  == chan[Peer(s)]
<1>1. chan[s] # <<>> /\ p.type = "RPOS" BY DEF RecvRpos, Receives
<1>2. t \in TxType BY TxHeard, HeardType
<1>3. p.pos \in Nat /\ p.arg \in Int
  BY <1>1, HeadType DEF PacketTo, Packet
<1>4. UNCHANGED <<carrier, phase, sendfirst, rx, halts, aborted, disk, env>>
  BY DEF RecvRpos
<1>5. CASE acts
  <2>1. /\ tx' = [tx EXCEPT ![s] =
             [t EXCEPT !.state = "XSENDBLK", !.rpostime = p.arg, !.retry = FALSE,
                       !.pos = p.pos, !.last = p.pos]]
        /\ \E k \in 0 .. Len(out) :
             \E q \in {SubSeq(out, 1, k)} \cup
                      IF k < Len(out) THEN {Append(SubSeq(out, 1, k), Pkt("BAD"))} ELSE {} :
               chan' = [chan EXCEPT ![s] = Tail(@), ![Peer(s)] = q]
    BY <1>5 DEF RecvRpos
  <2>2. out \in Seq(PacketTo(Peer(s)))
    BY PeerFacts DEF TypeOK, Lines
  <2>3. PICK q : /\ q \in Seq(PacketTo(Peer(s)))
                 /\ chan' = [chan EXCEPT ![s] = Tail(@), ![Peer(s)] = q]
    <3>1. Pkt("BAD") \in PacketTo(Peer(s))
      BY PeerFacts, PacketFacts DEF PktTypes
    <3>2. \A k \in 0 .. Len(out) : /\ SubSeq(out, 1, k) \in Seq(PacketTo(Peer(s)))
                                   /\ Append(SubSeq(out, 1, k), Pkt("BAD")) \in Seq(PacketTo(Peer(s)))
      <4> SUFFICES ASSUME NEW k \in 0 .. Len(out)
                   PROVE  /\ SubSeq(out, 1, k) \in Seq(PacketTo(Peer(s)))
                          /\ Append(SubSeq(out, 1, k), Pkt("BAD")) \in Seq(PacketTo(Peer(s)))
        OBVIOUS
      <4>1. SubSeq(out, 1, k) \in Seq(PacketTo(Peer(s)))
        BY <2>2, PeerFacts, CutLine
      <4> QED BY <3>1, <4>1, AppendProperties
    <3> HIDE DEF out
    <3> QED BY <2>1, <3>2
  <2>4. chan' \in Lines
    <3> DEFINE d == [chan EXCEPT ![s] = Tail(@)]
    <3>1. d \in Lines BY <1>1, HeadType
    <3>2. [d EXCEPT ![Peer(s)] = q] \in Lines
      BY <2>3, <3>1, PeerFacts, LineFacts
    <3>3. chan' = [d EXCEPT ![Peer(s)] = q]
      BY <2>3, PeerFacts DEF TypeOK, Lines
    <3> QED BY <3>2, <3>3
  <2>5. tx' \in [Stations -> TxType]
    <3>1. t.file \in Files BY <1>2, <1>5 DEF TxType
    <3> HIDE DEF t, p
    <3>2. [t EXCEPT !.state = "XSENDBLK", !.rpostime = p.arg, !.retry = FALSE,
                    !.pos = p.pos, !.last = p.pos] \in TxType
      BY <1>2, <1>3, <3>1 DEF TxType, TxRecord
    <3> QED BY <2>1, <3>2 DEF TypeOK
  <2> QED BY <1>4, <2>4, <2>5 DEF TypeOK, disk
<1>6. CASE ~acts
  <2>1. tx' = [tx EXCEPT ![s] = t] /\ Consume(s)
    BY <1>6 DEF RecvRpos
  <2>2. chan' \in Lines BY <1>1, <2>1, HeadType DEF Consume
  <2>3. tx' \in [Stations -> TxType] BY <1>2, <2>1 DEF TypeOK
  <2> QED BY <1>4, <2>2, <2>3 DEF TypeOK, disk
<1> QED BY <1>5, <1>6

\* Every packet the main loop reads keeps the types.
LEMMA TypeReceive ==
  ASSUME TypeOK, NEW s \in Stations, Receive(s)
  PROVE  TypeOK'
<1>1. CASE RecvHaltAck(s)
  <2>1. chan[s] # <<>> BY <1>1 DEF RecvHaltAck, Receives
  <2>2. chan' \in Lines BY <1>1, <2>1, HeadType DEF RecvHaltAck, Consume
  <2>3. tx' \in [Stations -> TxType] BY <1>1, TxHeard DEF RecvHaltAck
  <2> QED BY <1>1, <2>2, <2>3 DEF RecvHaltAck, TypeOK, disk
<1>2. CASE RecvHalt(s)
  <2>1. chan[s] # <<>> BY <1>2 DEF RecvHalt, Receives
  <2> DEFINE q == [chan EXCEPT ![s] = Tail(@)]
  <2>2. q \in Lines BY <2>1, HeadType
  <2>3. GiveUp(s, q) /\ UNCHANGED env BY <1>2 DEF RecvHalt
  <2>4. env' \in [noise : Nat, early : Nat, quits : Nat, sessions : Nat]
    BY <2>3 DEF TypeOK
  <2> HIDE DEF q
  <2> QED BY <2>2, <2>3, <2>4, GiveUpType
<1> QED BY <1>1, <1>2, TypeRecvBlock, TypeRecvGap, TypeRecvStray, TypeRecvFname,
           TypeRecvFnack, TypeRecvFreq, TypeRecvFreqNak, TypeRecvFrnakAck,
           TypeRecvEofAck, TypeRecvRpos DEF Receive

\* The end of endbatch() keeps the types: q is the line with the last packet read.
LEMMA FinishType ==
  ASSUME TypeOK, NEW s \in Stations, NEW q \in Lines, Finish(s, q)
  PROVE  chan' \in Lines /\ phase' \in [Stations -> {"run", "end", "done"}]
<1> DEFINE acks == [i \in 1 .. HaltAcks |-> Pkt("HALTACK")]
           old  == q[Peer(s)]
<1>1. acks \in Seq(PacketTo(Peer(s)))
  <2>1. Pkt("HALTACK") \in PacketTo(Peer(s))
    BY PeerFacts, PacketFacts DEF PktTypes
  <2>2. acks \in [1 .. HaltAcks -> PacketTo(Peer(s))]
    BY <2>1
  <2> QED BY <2>2, BoundsAssumption DEF Seq
<1>2. old \in Seq(PacketTo(Peer(s)))
  BY PeerFacts DEF Lines
<1>3. chan' = [q EXCEPT ![Peer(s)] = old \o acks]
  BY DEF Finish
<1>4. phase' = [phase EXCEPT ![s] = "done"]
  BY DEF Finish
<1> HIDE DEF acks, old
<1>5. old \o acks \in Seq(PacketTo(Peer(s)))
  BY <1>1, <1>2, ConcatProperties
<1>6. chan' \in Lines
  BY <1>3, <1>5, PeerFacts, LineFacts
<1> QED BY <1>4, <1>6 DEF TypeOK

\* endbatch() keeps the types.
LEMMA TypeEndBatch ==
  ASSUME TypeOK, NEW s \in Stations, EndBatch(s) \/ EndEscape(s)
  PROVE  TypeOK'
<1> USE DEF disk
<1>0. chan \in Lines /\ env \in [noise : Nat, early : Nat, quits : Nat, sessions : Nat]
      /\ halts \in [Stations -> Nat] /\ phase \in [Stations -> {"run", "end", "done"}]
  BY DEF TypeOK
<1>1. CASE EndRecv(s)
  <2> DEFINE q == [chan EXCEPT ![s] = Tail(@)]
  <2>1. chan[s] # <<>> BY <1>1 DEF EndRecv
  <2>2. \/ Finish(s, q) /\ UNCHANGED halts
        \/ Consume(s) /\ UNCHANGED <<phase, halts>>
        \/ Reply(s, Pkt("HALT")) /\ halts' = [halts EXCEPT ![s] = 0] /\ UNCHANGED phase
    BY <1>1 DEF EndRecv
  <2>3. q \in Lines BY <2>1, HeadType
  <2>4. Pkt("HALT") \in PacketTo(Peer(s))
    BY PeerFacts, PacketFacts DEF PktTypes
  <2>5. chan' \in Lines /\ phase' \in [Stations -> {"run", "end", "done"}]
    <3>1. CASE Finish(s, q)
      <4> HIDE DEF q
      <4> QED BY <2>3, <3>1, FinishType
    <3>2. CASE Consume(s) /\ UNCHANGED phase
      BY <1>0, <2>3, <3>2 DEF Consume
    <3>3. CASE Reply(s, Pkt("HALT")) /\ UNCHANGED phase
      BY <1>0, <2>1, <2>4, <3>3, HeadType DEF Reply
    <3> QED BY <2>2, <3>1, <3>2, <3>3
  <2>6. halts' \in [Stations -> Nat]
    BY <1>0, <2>2
  <2> QED BY <1>1, <2>5, <2>6 DEF EndRecv, TypeOK
<1>2. CASE EndTimeout(s)
  <2>0. LongQuiet \in BOOLEAN BY DEF LongQuiet
  <2>1. env' \in [noise : Nat, early : Nat, quits : Nat, sessions : Nat]
    BY <1>2, <2>0, ElapseType DEF EndTimeout
  <2>2. CASE halts[s] = MaxHalts
    <3>1. chan' \in Lines /\ phase' \in [Stations -> {"run", "end", "done"}]
      BY <1>0, <1>2, <2>2, FinishType DEF EndTimeout
    <3>2. halts' \in [Stations -> Nat]
      BY <1>0, <1>2, <2>2 DEF EndTimeout
    <3> QED BY <1>2, <2>1, <3>1, <3>2 DEF EndTimeout, TypeOK
  <2>3. CASE halts[s] # MaxHalts
    <3>1. Pkt("HALT") \in PacketTo(Peer(s))
      BY PeerFacts, PacketFacts DEF PktTypes
    <3>2. chan' \in Lines
      <4>1. chan' = [chan EXCEPT ![Peer(s)] = Append(@, Pkt("HALT"))]
        BY <1>2, <2>3 DEF EndTimeout, Send
      <4> QED BY <1>0, <3>1, <4>1, PeerFacts, LineFacts
    <3>3. UNCHANGED phase
      BY <1>2, <2>3 DEF EndTimeout
    <3>4. halts' \in [Stations -> Nat]
      <4>1. halts' = [halts EXCEPT ![s] = @ + 1]
        BY <1>2, <2>3 DEF EndTimeout
      <4> QED BY <1>0, <4>1
    <3> QED BY <1>2, <2>1, <3>2, <3>3, <3>4 DEF EndTimeout, TypeOK
  <2> QED BY <2>2, <2>3
<1>3. CASE EndNoCarrier(s)
  <2>1. chan' \in Lines /\ phase' \in [Stations -> {"run", "end", "done"}]
    BY <1>0, <1>3, FinishType DEF EndNoCarrier
  <2> QED BY <1>3, <2>1 DEF EndNoCarrier, TypeOK
<1>4. CASE EndEscape(s)
  <2>1. chan' \in Lines /\ phase' \in [Stations -> {"run", "end", "done"}]
    BY <1>0, <1>4, FinishType DEF EndEscape
  <2>2. env' \in [noise : Nat, early : Nat, quits : Nat, sessions : Nat]
    BY <1>0, <1>4 DEF EndEscape
  <2> QED BY <1>4, <2>1, <2>2 DEF EndEscape, TypeOK
<1> QED BY <1>1, <1>2, <1>3, <1>4 DEF EndBatch

\* What the line, the operator and the next call do keeps the types.
LEMMA TypeEnvironment ==
  ASSUME TypeOK, NEW s \in Stations,
         \/ NoCarrier(s) \/ HangUp(s) \/ Escape(s) \/ Noise(s) \/ LineDrop \/ NewSession
  PROVE  TypeOK'
<1> USE DEF disk
<1>0. chan \in Lines /\ env \in [noise : Nat, early : Nat, quits : Nat, sessions : Nat]
  BY DEF TypeOK
<1>1. CASE NoCarrier(s)
  BY <1>0, <1>1, GiveUpType DEF NoCarrier
<1>2. CASE HangUp(s)
  BY <1>2 DEF HangUp, TypeOK
<1>3. CASE Escape(s)
  <2>1. env' \in [noise : Nat, early : Nat, quits : Nat, sessions : Nat]
    BY <1>0, <1>3 DEF Escape
  <2> QED BY <1>0, <1>3, <2>1, GiveUpType DEF Escape
<1>4. CASE Noise(s)
  <2>1. env' \in [noise : Nat, early : Nat, quits : Nat, sessions : Nat]
    BY <1>0, <1>4 DEF Noise
  <2>2. chan[s] # <<>> BY <1>4 DEF Noise
  <2>3. chan' \in Lines
    <3>1. CASE chan' = [chan EXCEPT ![s] = <<Pkt("BAD")>> \o Tail(@)]
      <4> DEFINE q == <<Pkt("BAD")>> \o Tail(chan[s])
      <4>1. Tail(chan[s]) \in Seq(PacketTo(s))
        BY <1>0, <2>2, HeadTailProperties DEF Lines
      <4>2. <<Pkt("BAD")>> \in Seq(PacketTo(s))
        BY PacketFacts DEF PktTypes
      <4>3. q \in Seq(PacketTo(s))
        BY <4>1, <4>2, ConcatProperties
      <4> HIDE DEF q
      <4>4. [chan EXCEPT ![s] = q] \in Lines BY <1>0, <4>3, LineFacts
      <4> QED BY <3>1, <4>4 DEF q
    <3>2. CASE Consume(s)
      BY <2>2, <3>2, HeadType DEF Consume
    <3> QED BY <1>4, <3>1, <3>2 DEF Noise
  <2> QED BY <1>4, <2>1, <2>3 DEF Noise, TypeOK
<1>5. CASE LineDrop
  <2>1. env' \in [noise : Nat, early : Nat, quits : Nat, sessions : Nat]
    BY <1>0, <1>5 DEF LineDrop
  <2>2. PICK cut \in [Stations -> 0 .. 1] :
          chan' = [u \in Stations |->
                     IF cut[u] = 0 THEN chan[u] ELSE SubSeq(chan[u], 1, Len(chan[u]) \div 2)]
    BY <1>5 DEF LineDrop
  <2>3. \A u \in Stations : chan'[u] \in Seq(PacketTo(u))
    <3> SUFFICES ASSUME NEW u \in Stations PROVE chan'[u] \in Seq(PacketTo(u))
      OBVIOUS
    <3>1. chan[u] \in Seq(PacketTo(u)) BY <1>0 DEF Lines
    <3>2. Len(chan[u]) \in Nat BY <3>1, LenProperties
    <3>3. Len(chan[u]) \div 2 \in 0 .. Len(chan[u])
      <4>1. \A n \in Nat : n \div 2 \in 0 .. n OBVIOUS
      <4> QED BY <3>2, <4>1
    <3>4. SubSeq(chan[u], 1, Len(chan[u]) \div 2) \in Seq(PacketTo(u))
      BY <3>1, <3>3, CutLine
    <3> QED BY <2>2, <3>1, <3>4
  <2>4. chan' \in [Stations -> Seq(Packet)]
    <3>1. \A u \in Stations : PacketTo(u) \subseteq Packet BY DEF PacketTo
    <3>2. \A u \in Stations : chan'[u] \in Seq(Packet)
      BY <2>3, <3>1, SeqMonotonic
    <3>3. chan' = [u \in Stations |-> chan'[u]] BY <2>2
    <3> QED BY <3>2, <3>3
  <2>5. chan' \in Lines BY <2>3, <2>4 DEF Lines
  <2> QED BY <1>5, <2>1, <2>5 DEF LineDrop, TypeOK
<1>6. CASE NewSession
  <2>1. chan' \in Lines
    <3>1. chan' = [u \in Stations |-> <<>>] BY <1>6 DEF NewSession
    <3>2. <<>> \in Seq(Packet) /\ \A u \in Stations : <<>> \in Seq(PacketTo(u))
      BY EmptySeq
    <3> QED BY <3>1, <3>2 DEF Lines
  <2>2. env' \in [noise : Nat, early : Nat, quits : Nat, sessions : Nat]
    BY <1>0, <1>6 DEF NewSession
  <2>3. tx' \in [Stations -> TxType] /\ rx' \in [Stations -> RxType]
    BY <1>6, StartType DEF NewSession
  <2>4. inbound' \in [Stations -> SUBSET Files]
    <3>1. inbound \in [Stations -> SUBSET Files] BY DEF TypeOK
    <3> QED BY <1>6, <3>1 DEF NewSession
  <2>5. carrier' \in BOOLEAN /\ phase' \in [Stations -> {"run", "end", "done"}]
    BY <1>6 DEF NewSession
  <2>6. halts' \in [Stations -> Nat] /\ aborted' \in [Stations -> BOOLEAN]
    BY <1>6 DEF NewSession
  <2> QED BY <1>6, <2>1, <2>2, <2>3, <2>4, <2>5, <2>6 DEF NewSession, TypeOK
<1> QED BY <1>1, <1>2, <1>3, <1>4, <1>5, <1>6

\* In every reachable state, for any files, requests and line, each variable of
\* the protocol has its type: in particular every packet in transit is one the
\* code can have sent, a transmitter that sends blocks has a file to send, and
\* a receiver that expects them has one to receive, at a real position.
THEOREM TypeCorrect == Spec => []TypeOK
<1>1. TypeOK /\ [Next]_vars => TypeOK'
  <2> SUFFICES ASSUME TypeOK, [Next]_vars PROVE TypeOK'
    OBVIOUS
  <2>1. CASE UNCHANGED vars
    BY <2>1 DEF vars, TypeOK
  <2>2. ASSUME NEW s \in Stations,
               \/ Transmit(s) \/ Receive(s) \/ Timers(s) \/ EndBatch(s) \/ NoCarrier(s)
               \/ HangUp(s) \/ Escape(s) \/ EndEscape(s) \/ Noise(s)
        PROVE  TypeOK'
    BY <2>2, TypeTransmit, TypeReceive, TypeTimers, TypeEndBatch, TypeEnvironment
  <2>3. CASE LineDrop \/ NewSession
    <3>1. Caller \in Stations BY DEF Stations
    <3> QED BY <2>3, <3>1, TypeEnvironment
  <2> QED BY <2>1, <2>2, <2>3 DEF Next
<1> QED BY TypeInit, <1>1, PTL DEF Spec

-----------------------------------------------------------------------------
(* The two halves of a station *)

\* What relates the state, the retry timer and tx_inhibit of one station.
Armed(t)     == t.retry <=> t.state \in Waits
InStep(s, t, r) == Armed(t) /\ (t.inhibit => s # Caller /\ r.state # "RDONE")
HalvesInStep == \A s \in Stations : InStep(s, tx[s], rx[s])

\* A step that changes the halves of one station leaves the other's alone.
LEMMA OneStation ==
  ASSUME TypeOK, HalvesInStep, NEW u \in Stations, NEW x, NEW y,
         tx' = [tx EXCEPT ![u] = x], rx' = [rx EXCEPT ![u] = y], InStep(u, x, y)
  PROVE  HalvesInStep'
<1> SUFFICES ASSUME NEW s \in Stations PROVE InStep(s, tx'[s], rx'[s])
  BY DEF HalvesInStep, InStep, Armed, Waits
<1>1. tx \in [Stations -> TxType] /\ rx \in [Stations -> RxType]
  BY DEF TypeOK
<1>2. CASE s = u
  BY <1>1, <1>2
<1>3. CASE s # u
  <2>1. tx'[s] = tx[s] /\ rx'[s] = rx[s] BY <1>1, <1>3
  <2> QED BY <2>1 DEF HalvesInStep
<1> QED BY <1>2, <1>3

\* So does one that changes only its transmitting half.
LEMMA OneTransmitter ==
  ASSUME TypeOK, HalvesInStep, NEW u \in Stations, NEW x,
         tx' = [tx EXCEPT ![u] = x], UNCHANGED rx, InStep(u, x, rx[u])
  PROVE  HalvesInStep'
<1>1. rx' = [rx EXCEPT ![u] = rx[u]]
  <2>1. rx \in [Stations -> RxType] BY DEF TypeOK
  <2> QED BY <2>1
<1> QED BY <1>1, OneStation

\* Hearing from the peer touches neither the timer's state nor tx_inhibit.
LEMMA HeardInStep ==
  ASSUME TypeOK, HalvesInStep, NEW s \in Stations
  PROVE  InStep(s, Heard(tx[s]), rx[s])
<1>1. tx[s] \in TxType BY DEF TypeOK
<1>2. InStep(s, tx[s], rx[s]) BY DEF HalvesInStep
<1> QED BY <1>1, <1>2, HeardType DEF InStep, Armed

\* A transmitter moved to state st, its timer running or not, and nothing more.
Move(t, st, on) == [t EXCEPT !.state = st, !.retry = on]

\* If the timer runs in the states that wait, all is well.
LEMMA MoveInStep ==
  ASSUME NEW s \in Stations, NEW t \in TxRecord, NEW r, NEW st, NEW on \in BOOLEAN,
         t.inhibit => s # Caller /\ r.state # "RDONE", on <=> st \in Waits
  PROVE  InStep(s, Move(t, st, on), r)
BY DEF Move, InStep, Armed, TxRecord

\* The outbound scan and the list of requested files leave tx_inhibit alone.
LEMMA ScanKeepsInhibit ==
  ASSUME NEW s \in Stations, NEW t \in TxRecord
  PROVE  /\ FirstOf(s, t, t.idx).inhibit = t.inhibit
         /\ \A q \in Seq(Files) : Serve(t, q).inhibit = t.inhibit
<1>1. FirstOf(s, t, t.idx).inhibit = t.inhibit
  BY DEF FirstOf, TxRecord
<1>2. \A q \in Seq(Files) : Serve(t, q).inhibit = t.inhibit
  BY DEF Serve, TxRecord
<1> QED BY <1>1, <1>2

\* Moving on to the next file keeps the halves in step.
LEMMA NextFileInStep ==
  ASSUME TypeOK, HalvesInStep, NEW s \in Stations, NEW t \in TxType,
         t.inhibit = tx[s].inhibit, NextFile(s, t), UNCHANGED rx
  PROVE  HalvesInStep'
<1>1. PICK u \in TxRecord : /\ u.inhibit = t.inhibit
                            /\ tx' = [tx EXCEPT ![s] = Move(u, "XSENDFNAME", FALSE)]
  <2>1. t \in TxRecord /\ TxParts(t) BY DEF TxType, TxParts
  <2>2. CASE t.sendreq
    <3> DEFINE w == Serve(t, Tail(t.reqtmp))
    <3>1. Tail(t.reqtmp) \in Seq(Files)
      BY <2>2, HeadTailProperties DEF TxType, TxRecord
    <3>2. TxParts(w) /\ w.idx = t.idx /\ w.inhibit = t.inhibit
      BY <2>1, <3>1, ServeType, ScanKeepsInhibit
    <3>3. NextRequested(s, t) \in TxRecord /\ NextRequested(s, t).inhibit = t.inhibit
      <4>1. NextRequested(s, t) = IF w.sendreq THEN w ELSE FirstOf(s, w, w.idx)
        BY <3>2 DEF NextRequested
      <4> HIDE DEF w
      <4>2. FirstOf(s, w, w.idx) \in TxRecord BY <3>2, FirstOfType
      <4>3. w \in TxRecord BY <3>2 DEF TxParts
      <4> QED BY <3>2, <4>1, <4>2, <4>3, ScanKeepsInhibit
    <3>4. tx' = [tx EXCEPT ![s] = Move(NextRequested(s, t), "XSENDFNAME", FALSE)]
      BY <2>2 DEF NextFile, Move
    <3> QED BY <3>3, <3>4
  <2>3. CASE ~t.sendreq
    <3>1. tx' = [tx EXCEPT ![s] = Move(FirstOf(s, t, t.idx), "XSENDFNAME", FALSE)]
      BY <2>3 DEF NextFile, Move
    <3> QED BY <2>1, <3>1, FirstOfType, ScanKeepsInhibit
  <2> QED BY <2>2, <2>3
<1>2. InStep(s, Move(u, "XSENDFNAME", FALSE), rx[s])
  <2>1. u.inhibit => s # Caller /\ rx[s].state # "RDONE"
    BY <1>1 DEF HalvesInStep, InStep
  <2> QED BY <2>1, MoveInStep DEF Waits
<1> QED BY <1>1, <1>2, OneTransmitter

\* Sending and the timers keep the halves in step.
LEMMA TransmitInStep ==
  ASSUME TypeOK, HalvesInStep, NEW s \in Stations, Transmit(s) \/ XmitTimeout(s) \/ RposTimeout(s)
  PROVE  HalvesInStep'
<1>1. tx[s] \in TxType /\ tx[s] \in TxRecord BY DEF TypeOK, TxType
<1>2. InStep(s, tx[s], rx[s]) BY DEF HalvesInStep
<1>3. CASE SendBlk(s)
  <2>1. PICK lst, ps, idle, on :
          /\ on \in BOOLEAN
          /\ tx' = [tx EXCEPT ![s] =
                  [tx[s] EXCEPT !.last = lst, !.pos = ps,
                                !.state = IF on THEN "XRCVEOFACK" ELSE "XSENDBLK",
                                !.retry = on, !.idle = idle]]
    <3>1. PICK size \in 1 .. BlkMax :
            LET t    == tx[s]
                rest == IF t.pos < Size[t.file] THEN Size[t.file] - t.pos ELSE 0
                n    == IF size < rest THEN size ELSE rest
                last == n < size \/ t.pos + n >= Size[t.file]
            IN  tx' = [tx EXCEPT ![s] =
                   [t EXCEPT !.last  = t.pos, !.pos = t.pos + n,
                             !.state = IF last THEN "XRCVEOFACK" ELSE "XSENDBLK",
                             !.retry = last,
                             !.idle  = IF last THEN t.idle ELSE 0]]
      BY <1>3 DEF SendBlk
    <3> DEFINE t    == tx[s]
               rest == IF t.pos < Size[t.file] THEN Size[t.file] - t.pos ELSE 0
               n    == IF size < rest THEN size ELSE rest
               on   == n < size \/ t.pos + n >= Size[t.file]
    <3>2. on \in BOOLEAN
      OBVIOUS
    <3> WITNESS t.pos, t.pos + n, IF on THEN t.idle ELSE 0, on
    <3> QED BY <3>1, <3>2
  <2> DEFINE x == [tx[s] EXCEPT !.last = lst, !.pos = ps,
                                !.state = IF on THEN "XRCVEOFACK" ELSE "XSENDBLK",
                                !.retry = on, !.idle = idle]
  <2>2. /\ x.state = IF on THEN "XRCVEOFACK" ELSE "XSENDBLK"
        /\ x.retry = on /\ x.inhibit = tx[s].inhibit
    BY <1>1 DEF TxRecord
  <2> HIDE DEF x
  <2>3. InStep(s, x, rx[s])
    BY <1>2, <2>2 DEF InStep, Armed, Waits
  <2> QED BY <1>3, <2>1, <2>3, OneTransmitter DEF SendBlk, x
<1>4. CASE SendFname(s)
  <2>1. tx' = [tx EXCEPT ![s] = Move(tx[s], "XRCVFNACK", TRUE)] /\ UNCHANGED rx
    BY <1>4 DEF SendFname, Move
  <2>2. InStep(s, Move(tx[s], "XRCVFNACK", TRUE), rx[s])
    BY <1>1, <1>2, MoveInStep DEF InStep, Waits
  <2> QED BY <2>1, <2>2, OneTransmitter
<1>5. CASE SendFreqNak(s)
  <2>1. tx' = [tx EXCEPT ![s] = Move(tx[s], "XRCVFRNAKACK", TRUE)] /\ UNCHANGED rx
    BY <1>5 DEF SendFreqNak, Move
  <2>2. InStep(s, Move(tx[s], "XRCVFRNAKACK", TRUE), rx[s])
    BY <1>1, <1>2, MoveInStep DEF InStep, Waits
  <2> QED BY <2>1, <2>2, OneTransmitter
<1>6. CASE XmitTimeout(s)
  <2> DEFINE t  == tx[s]
             st == CASE t.state = "XRCVFNACK"    -> "XSENDFNAME"
                     [] t.state = "XRCVFRNAKACK" -> "XSENDFREQNAK"
                     [] t.state = "XRCVEOFACK"   -> "XSENDBLK"
                     [] OTHER                    -> t.state
             ps == IF t.state = "XRCVEOFACK" THEN t.last ELSE t.pos
             x  == [t EXCEPT !.retry = FALSE, !.idle = t.idle + 1, !.state = st, !.pos = ps]
  <2>1. tx' = [tx EXCEPT ![s] = x] /\ UNCHANGED rx
    BY <1>6 DEF XmitTimeout
  <2>2. t.retry
    BY <1>6 DEF XmitTimeout
  <2>3. st \notin Waits
    BY <1>2, <2>2 DEF InStep, Armed, Waits
  <2>4. x.retry = FALSE /\ x.state = st /\ x.inhibit = t.inhibit
    <3> HIDE DEF st, ps
    <3> QED BY <1>1 DEF TxRecord
  <2> HIDE DEF x, st
  <2>5. InStep(s, x, rx[s])
    BY <1>2, <2>3, <2>4 DEF InStep, Armed
  <2> QED BY <2>1, <2>5, OneTransmitter
<1>7. CASE RposTimeout(s)
  <2> DEFINE y == [rx[s] EXCEPT !.waiting = FALSE, !.samesec = FALSE]
  <2>1. rx[s] \in RxRecord BY DEF TypeOK, RxType
  <2>2. y.state = rx[s].state BY <2>1 DEF RxRecord
  <2>3. rx' = [rx EXCEPT ![s] = y] /\ tx' = [tx EXCEPT ![s] = tx[s]]
    BY <1>7 DEF RposTimeout, TypeOK
  <2> HIDE DEF y
  <2>4. InStep(s, tx[s], y) BY <1>2, <2>2 DEF InStep
  <2> QED BY <2>3, <2>4, OneStation
<1> QED BY <1>3, <1>4, <1>5, <1>6, <1>7 DEF Transmit

\* So do the packets that do not concern the file being received.
LEMMA AnswersInStep ==
  ASSUME TypeOK, HalvesInStep, NEW s \in Stations,
         \/ RecvFnack(s) \/ RecvFreq(s) \/ RecvFrnakAck(s)
         \/ RecvEofAck(s) \/ RecvRpos(s) \/ RecvHaltAck(s)
  PROVE  HalvesInStep'
<1> DEFINE t == Heard(tx[s])
<1>1. t \in TxType /\ t \in TxRecord /\ t.inhibit = tx[s].inhibit
  BY TxHeard, HeardType DEF TxType
<1>2. InStep(s, t, rx[s]) BY HeardInStep
<1>3. \A st, on : on \in BOOLEAN /\ (on <=> st \in Waits) => InStep(s, Move(t, st, on), rx[s])
  <2> HIDE DEF t
  <2> QED BY <1>1, <1>2, MoveInStep DEF InStep
<1>4. CASE RecvFnack(s)
  <2>1. /\ UNCHANGED rx
        /\ \/ tx' = [tx EXCEPT ![s] = t]
           \/ tx' = [tx EXCEPT ![s] = Move(t, "XDONE", FALSE)]
           \/ \E p : tx' = [tx EXCEPT ![s] = [t EXCEPT !.state = "XSENDBLK", !.pos = p,
                                                       !.retry = FALSE]]
           \/ NextFile(s, IF t.sendreq THEN t ELSE [t EXCEPT !.doafter = "NOTHING_AFTER"])
    BY <1>4, Zenon DEF RecvFnack, Move
  <2>2. CASE tx' = [tx EXCEPT ![s] = t]
    BY <1>2, <2>1, <2>2, OneTransmitter
  <2>3. CASE tx' = [tx EXCEPT ![s] = Move(t, "XDONE", FALSE)]
    BY <1>3, <2>1, <2>3, OneTransmitter DEF Waits
  <2>4. ASSUME NEW p,
               tx' = [tx EXCEPT ![s] = [t EXCEPT !.state = "XSENDBLK", !.pos = p,
                                                 !.retry = FALSE]]
        PROVE  HalvesInStep'
    <3> DEFINE x == [t EXCEPT !.state = "XSENDBLK", !.pos = p, !.retry = FALSE]
    <3> HIDE DEF t
    <3>1. x.state = "XSENDBLK" /\ x.retry = FALSE /\ x.inhibit = t.inhibit
      BY <1>1 DEF TxRecord
    <3> HIDE DEF x
    <3>2. InStep(s, x, rx[s]) BY <1>2, <3>1 DEF InStep, Armed, Waits
    <3>3. tx' = [tx EXCEPT ![s] = x] BY <2>4 DEF x
    <3> QED BY <2>1, <3>2, <3>3, OneTransmitter
  <2>5. CASE NextFile(s, IF t.sendreq THEN t ELSE [t EXCEPT !.doafter = "NOTHING_AFTER"])
    <3> DEFINE u == IF t.sendreq THEN t ELSE [t EXCEPT !.doafter = "NOTHING_AFTER"]
    <3>1. NextFile(s, u) BY <2>5
    <3> HIDE DEF t
    <3>2. u \in TxType /\ u.inhibit = t.inhibit BY <1>1 DEF TxType, TxRecord
    <3> HIDE DEF u
    <3> QED BY <1>1, <2>1, <3>1, <3>2, NextFileInStep
  <2> QED BY <2>1, <2>2, <2>3, <2>4, <2>5
<1>5. CASE RecvFreq(s)
  <2> DEFINE ans == Answer[Requests[Peer(s)][Head(chan[s]).arg]]
             lim == IF MaxRequests = 0 THEN t.reqlim ELSE t.reqlim - Len(ans)
             st  == IF ans = <<>> THEN "XSENDFREQNAK" ELSE "XSENDFNAME"
             v   == Serve(t, ans)
             x   == [v EXCEPT !.state = st, !.reqlim = lim, !.retry = FALSE]
  <2>1. /\ UNCHANGED rx
        /\ \/ tx' = [tx EXCEPT ![s] = t]
           \/ tx' = [tx EXCEPT ![s] = Move(t, "XSENDFREQNAK", FALSE)]
           \/ tx' = [tx EXCEPT ![s] = x]
    BY <1>5 DEF RecvFreq, Move
  <2>2. InStep(s, x, rx[s])
    <3>1. v \in TxRecord /\ v.inhibit = t.inhibit
      <4>1. ans \in Seq(Files) BY <1>5, AnswerType
      <4> HIDE DEF t, ans
      <4> QED BY <1>1, <4>1, ServeType, ScanKeepsInhibit DEF TxParts
    <3> HIDE DEF v, lim, t
    <3>2. x.state = st /\ x.retry = FALSE /\ x.inhibit = t.inhibit
      BY <3>1 DEF TxRecord
    <3> HIDE DEF x
    <3> QED BY <1>2, <3>2 DEF InStep, Armed, Waits
  <2> HIDE DEF x, t
  <2> QED BY <1>2, <1>3, <2>1, <2>2, OneTransmitter DEF Waits
<1>6. CASE RecvFrnakAck(s)
  <2>1. /\ UNCHANGED rx
        /\ \/ tx' = [tx EXCEPT ![s] = t]
           \/ tx' = [tx EXCEPT ![s] = Move(FirstOf(s, t, t.idx), "XSENDFNAME", FALSE)]
    BY <1>6 DEF RecvFrnakAck, Move
  <2>2. FirstOf(s, t, t.idx) \in TxRecord /\ FirstOf(s, t, t.idx).inhibit = t.inhibit
    BY <1>1, FirstOfType, ScanKeepsInhibit DEF TxType, TxParts
  <2> HIDE DEF t
  <2>3. InStep(s, Move(FirstOf(s, t, t.idx), "XSENDFNAME", FALSE), rx[s])
    BY <1>2, <2>2, MoveInStep DEF InStep, Waits
  <2> QED BY <1>2, <2>1, <2>3, OneTransmitter
<1>7. CASE RecvEofAck(s)
  <2>1. /\ UNCHANGED rx
        /\ \/ tx' = [tx EXCEPT ![s] = t]
           \/ tx' = [tx EXCEPT ![s] = Move(t, "XSENDFNAME", FALSE)]
           \/ NextFile(s, t)
    BY <1>7 DEF RecvEofAck, Move
  <2> HIDE DEF t
  <2> QED BY <1>1, <1>2, <1>3, <2>1, OneTransmitter, NextFileInStep DEF Waits
<1>8. CASE RecvRpos(s)
  <2>1. /\ UNCHANGED rx
        /\ \/ tx' = [tx EXCEPT ![s] = t]
           \/ \E p, a : tx' = [tx EXCEPT ![s] =
                                 [t EXCEPT !.state = "XSENDBLK", !.rpostime = a,
                                           !.retry = FALSE, !.pos = p, !.last = p]]
    BY <1>8, Zenon DEF RecvRpos
  <2>2. ASSUME NEW p, NEW a,
               tx' = [tx EXCEPT ![s] = [t EXCEPT !.state = "XSENDBLK", !.rpostime = a,
                                                 !.retry = FALSE, !.pos = p, !.last = p]]
        PROVE  HalvesInStep'
    <3> DEFINE x == [t EXCEPT !.state = "XSENDBLK", !.rpostime = a,
                              !.retry = FALSE, !.pos = p, !.last = p]
    <3> HIDE DEF t
    <3>1. x.state = "XSENDBLK" /\ x.retry = FALSE /\ x.inhibit = t.inhibit
      BY <1>1 DEF TxRecord
    <3> HIDE DEF x
    <3>2. InStep(s, x, rx[s]) BY <1>2, <3>1 DEF InStep, Armed, Waits
    <3>3. tx' = [tx EXCEPT ![s] = x] BY <2>2 DEF x
    <3> QED BY <2>1, <3>2, <3>3, OneTransmitter
  <2> QED BY <1>2, <2>1, <2>2, OneTransmitter
<1>9. CASE RecvHaltAck(s)
  BY <1>2, <1>9, OneTransmitter DEF RecvHaltAck
<1> QED BY <1>4, <1>5, <1>6, <1>7, <1>8, <1>9

\* What a gap changes of the two halves; one-way mode is for the called side.
LEMMA GapChanges ==
  ASSUME NEW s \in Stations, RecvGap(s)
  PROVE  \E l, c, w, m, i, on :
           /\ on = TRUE => s # Caller
           /\ rx' = [rx EXCEPT ![s] = [rx[s] EXCEPT !.lastblk = l, !.cnt = c, !.sttime = w,
                                                   !.samesec = m, !.waiting = TRUE]]
           /\ tx' = [tx EXCEPT ![s] = [tx[s] EXCEPT !.inhibit = tx[s].inhibit \/ on,
                                                   !.idle = i]]
<1> DEFINE b      == Head(chan[s])
           r      == rx[s]
           isblk  == b.type = "BLK"
           back   == isblk /\ b.pos < r.lastblk
           asks   == back \/ ~r.waiting
           count  == IF back THEN 0 ELSE r.cnt
           oneway == count > RposLimit
           first  == count = 0 \/ oneway
           goes   == asks /\ oneway /\ MayGoOneWay(s)
<1>1. PICK tick \in {0, 1} :
        rx' = [rx EXCEPT ![s] =
          [r EXCEPT !.lastblk = IF isblk THEN b.pos ELSE r.lastblk,
                    !.cnt     = IF ~asks THEN r.cnt ELSE IF first THEN 1 ELSE r.cnt + 1,
                    !.sttime  = r.sttime + tick,
                    !.samesec = r.samesec \/ tick = 1,
                    !.waiting = TRUE]]
  BY DEF RecvGap
<1>2. tx' = [tx EXCEPT ![s] = [tx[s] EXCEPT !.inhibit = tx[s].inhibit \/ goes,
                                            !.idle = IF isblk THEN 0 ELSE tx[s].idle]]
  BY DEF RecvGap
<1> DEFINE l == IF isblk THEN b.pos ELSE r.lastblk
           c == IF ~asks THEN r.cnt ELSE IF first THEN 1 ELSE r.cnt + 1
           w == r.sttime + tick
           m == r.samesec \/ tick = 1
           i == IF isblk THEN 0 ELSE tx[s].idle
<1>3. goes = TRUE => s # Caller
  BY DEF MayGoOneWay
<1>4. rx' = [rx EXCEPT ![s] = [rx[s] EXCEPT !.lastblk = l, !.cnt = c, !.sttime = w,
                                            !.samesec = m, !.waiting = TRUE]]
  BY <1>1
<1>5. tx' = [tx EXCEPT ![s] = [tx[s] EXCEPT !.inhibit = tx[s].inhibit \/ goes,
                                            !.idle = i]]
  BY <1>2
<1> HIDE DEF l, c, w, m, i, goes
<1> QED BY <1>3, <1>4, <1>5, Zenon

\* The file being received, its name and its gaps keep the halves in step: one-way
\* mode is entered while a file is received and left when reception is over.
LEMMA FileInStep ==
  ASSUME TypeOK, HalvesInStep, NEW s \in Stations,
         \/ RecvBlock(s) \/ RecvGap(s) \/ RecvStray(s) \/ RecvFname(s) \/ RecvFreqNak(s)
  PROVE  HalvesInStep'
<1> DEFINE t == Heard(tx[s])
<1>1. t \in TxType /\ t \in TxRecord /\ t.inhibit = tx[s].inhibit
  BY TxHeard, HeardType DEF TxType
<1>2. InStep(s, t, rx[s]) BY HeardInStep
<1>3. rx[s] \in RxRecord /\ tx[s] \in TxRecord BY DEF TypeOK, RxType, TxType
<1>4. InStep(s, tx[s], rx[s]) BY DEF HalvesInStep
<1>5. CASE RecvBlock(s)
  <2> DEFINE st == IF Completes(rx[s], Head(chan[s]).arg)
                   THEN "RRCVFNAME" ELSE "RRCVBLK"
  <2>1. PICK p, d, m, l :
          /\ tx' = [tx EXCEPT ![s] = t]
          /\ rx' = [rx EXCEPT ![s] =
               [rx[s] EXCEPT !.pos = p, !.data = d, !.room = m, !.lastblk = l,
                             !.waiting = FALSE, !.cnt = 0, !.state = st]]
    BY <1>5 DEF RecvBlock
  <2> DEFINE y == [rx[s] EXCEPT !.pos = p, !.data = d, !.room = m, !.lastblk = l,
                                !.waiting = FALSE, !.cnt = 0, !.state = st]
  <2>2. st # "RDONE" OBVIOUS
  <2> HIDE DEF st
  <2>3. y.state = st BY <1>3 DEF RxRecord
  <2> HIDE DEF y, t
  <2>4. InStep(s, t, y) BY <1>2, <2>2, <2>3 DEF InStep
  <2> QED BY <2>1, <2>4, OneStation DEF y
<1>6. CASE RecvGap(s)
  <2>1. rx[s].state = "RRCVBLK" BY <1>6 DEF RecvGap
  <2>2. PICK l, c, w, m, i, on :
          /\ on = TRUE => s # Caller
          /\ rx' = [rx EXCEPT ![s] = [rx[s] EXCEPT !.lastblk = l, !.cnt = c, !.sttime = w,
                                                  !.samesec = m, !.waiting = TRUE]]
          /\ tx' = [tx EXCEPT ![s] = [tx[s] EXCEPT !.inhibit = tx[s].inhibit \/ on,
                                                  !.idle = i]]
    BY <1>6, GapChanges
  <2> DEFINE y == [rx[s] EXCEPT !.lastblk = l, !.cnt = c, !.sttime = w,
                                !.samesec = m, !.waiting = TRUE]
             h == tx[s].inhibit \/ on
             x == [tx[s] EXCEPT !.inhibit = h, !.idle = i]
  <2>3. y.state = rx[s].state BY <1>3 DEF RxRecord
  <2>4. h => s # Caller
    BY <1>4, <2>2 DEF InStep
  <2> HIDE DEF y, h
  <2>5. x.inhibit = h /\ x.state = tx[s].state /\ x.retry = tx[s].retry
    BY <1>3 DEF TxRecord
  <2> HIDE DEF x
  <2>6. InStep(s, x, y)
    BY <1>4, <2>1, <2>3, <2>4, <2>5 DEF InStep, Armed
  <2> QED BY <2>2, <2>6, OneStation DEF x, y, h
<1>7. CASE RecvStray(s)
  BY <1>2, <1>4, <1>7, OneTransmitter DEF RecvStray
<1>8. CASE RecvFname(s)
  <2> DEFINE f     == Head(chan[s]).file
             r     == IF rx[s].state = "RRCVFNAME" THEN ProcFname(s, f) ELSE rx[s]
             null  == r.file = None
             state == IF r.pos = -1 THEN r.state ELSE IF null THEN "RDONE" ELSE "RRCVBLK"
  <2>0. r \in RxRecord /\ r.state = rx[s].state
    <3>1. chan[s] # <<>> BY <1>8 DEF RecvFname, Receives
    <3>2. f \in Files \cup {None} BY <3>1, HeadType DEF PacketTo, Packet
    <3> HIDE DEF f
    <3> QED BY <1>3, <3>2, ProcFnameType DEF RxType
  <2>1. \/ /\ rx' = [rx EXCEPT ![s] = [r EXCEPT !.attempting = TRUE, !.started = FALSE]]
           /\ tx' = [tx EXCEPT ![s] = t]
        \/ \E a : /\ rx' = [rx EXCEPT ![s] = [r EXCEPT !.state = state, !.attempting = FALSE,
                                                       !.started = a]]
                  /\ tx' = [tx EXCEPT ![s] = [t EXCEPT !.inhibit = tx[s].inhibit
                                                                     /\ state # "RDONE"]]
    BY <1>8 DEF RecvFname
  <2> HIDE DEF r, t, f
  <2>2. CASE /\ rx' = [rx EXCEPT ![s] = [r EXCEPT !.attempting = TRUE, !.started = FALSE]]
             /\ tx' = [tx EXCEPT ![s] = t]
    <3> DEFINE y == [r EXCEPT !.attempting = TRUE, !.started = FALSE]
    <3>1. y.state = r.state BY <2>0 DEF RxRecord
    <3> HIDE DEF y
    <3>2. InStep(s, t, y) BY <1>2, <2>0, <3>1 DEF InStep
    <3> QED BY <2>2, <3>2, OneStation DEF y
  <2>3. ASSUME NEW a,
               rx' = [rx EXCEPT ![s] = [r EXCEPT !.state = state, !.attempting = FALSE,
                                                 !.started = a]],
               tx' = [tx EXCEPT ![s] = [t EXCEPT !.inhibit = tx[s].inhibit
                                                               /\ state # "RDONE"]]
        PROVE  HalvesInStep'
    <3> DEFINE h == tx[s].inhibit /\ state # "RDONE"
               y == [r EXCEPT !.state = state, !.attempting = FALSE, !.started = a]
               x == [t EXCEPT !.inhibit = h]
    <3>1. h => s # Caller /\ state # "RDONE" BY <1>4 DEF InStep
    <3> HIDE DEF state, h
    <3>2. y.state = state BY <2>0 DEF RxRecord
    <3>3. x.inhibit = h /\ x.state = t.state /\ x.retry = t.retry
      BY <1>1 DEF TxRecord
    <3> HIDE DEF x, y
    <3>4. InStep(s, x, y) BY <1>2, <3>1, <3>2, <3>3 DEF InStep, Armed
    <3> QED BY <2>3, <3>4, OneStation DEF x, y, h
  <2> QED BY <2>1, <2>2, <2>3
<1>9. CASE RecvFreqNak(s)
  <2> DEFINE y == [rx[s] EXCEPT !.attempting = FALSE, !.started = TRUE]
  <2>1. rx' = [rx EXCEPT ![s] = y] /\ tx' = [tx EXCEPT ![s] = t]
    BY <1>9 DEF RecvFreqNak
  <2>2. y.state = rx[s].state BY <1>3 DEF RxRecord
  <2> HIDE DEF y, t
  <2>3. InStep(s, t, y) BY <1>2, <2>2 DEF InStep
  <2> QED BY <2>1, <2>3, OneStation
<1> QED BY <1>5, <1>6, <1>7, <1>8, <1>9

\* The halves are in step when Janus() starts.
LEMMA StartInStep == \A s \in Stations : InStep(s, TxStart(s), RxStart(s))
<1> SUFFICES ASSUME NEW s \in Stations PROVE InStep(s, TxStart(s), RxStart(s))
  OBVIOUS
<1>1. /\ TxStart(s).state = "XSENDFNAME" /\ TxStart(s).retry = FALSE
      /\ TxStart(s).inhibit = FALSE
  BY DEF TxStart, FirstOf
<1> QED BY <1>1 DEF InStep, Armed, Waits

\* No step puts the halves out of step.
LEMMA NextInStep == TypeOK /\ HalvesInStep /\ [Next]_vars => HalvesInStep'
<1> SUFFICES ASSUME TypeOK, HalvesInStep, [Next]_vars PROVE HalvesInStep'
  OBVIOUS
<1>1. ASSUME UNCHANGED <<tx, rx>> PROVE HalvesInStep'
  BY <1>1 DEF HalvesInStep, InStep, Armed, Waits
<1>2. CASE UNCHANGED vars
  BY <1>1, <1>2 DEF vars
<1>3. CASE LineDrop
  BY <1>1, <1>3 DEF LineDrop
<1>4. CASE NewSession
  <2>1. tx' = [u \in Stations |-> TxStart(u)] /\ rx' = [u \in Stations |-> RxStart(u)]
    BY <1>4 DEF NewSession
  <2>2. \A u \in Stations : InStep(u, TxStart(u), RxStart(u))
    BY StartInStep
  <2> QED BY <2>1, <2>2 DEF HalvesInStep, InStep, Armed, Waits
<1>5. ASSUME NEW s \in Stations,
             \/ Transmit(s) \/ Receive(s) \/ Timers(s) \/ EndBatch(s) \/ NoCarrier(s)
             \/ HangUp(s) \/ Escape(s) \/ EndEscape(s) \/ Noise(s)
      PROVE  HalvesInStep'
  <2>1. CASE Transmit(s) \/ XmitTimeout(s) \/ RposTimeout(s)
    BY <2>1, TransmitInStep
  <2>2. CASE Receive(s)
    <3>1. CASE RecvHalt(s)
      BY <1>1, <3>1 DEF RecvHalt, GiveUp
    <3> QED BY <2>2, <3>1, AnswersInStep, FileInStep DEF Receive
  <2>3. CASE BrainDead(s) \/ NoCarrier(s) \/ Escape(s)
    BY <1>1, <2>3 DEF BrainDead, NoCarrier, Escape, GiveUp
  <2>4. CASE EndBatch(s) \/ EndEscape(s)
    BY <1>1, <2>4 DEF EndBatch, EndRecv, EndTimeout, EndNoCarrier, EndEscape
  <2>5. CASE HangUp(s) \/ Noise(s)
    BY <1>1, <2>5 DEF HangUp, Noise
  <2> QED BY <1>5, <2>1, <2>2, <2>3, <2>4, <2>5 DEF Timers
<1> QED BY <1>2, <1>3, <1>4, <1>5 DEF Next

LEMMA HalvesStay == Spec => []HalvesInStep
<1>1. Init => HalvesInStep
  BY StartInStep DEF Init, HalvesInStep
<1> QED BY TypeCorrect, NextInStep, <1>1, PTL DEF Spec

\* Every transmitter that waits has a running timer, whatever is lost.
THEOREM RetryCorrect == Spec => []RetryArmed
<1>1. HalvesInStep => RetryArmed
  BY DEF HalvesInStep, InStep, Armed, RetryArmed
<1> QED BY HalvesStay, <1>1, PTL

\* Only the called side goes one-way, and only until it has received everything.
THEOREM OneWayCorrect == Spec => []OneWayIsTemporary
<1>1. HalvesInStep => OneWayIsTemporary
  BY DEF HalvesInStep, InStep, OneWayIsTemporary
<1> QED BY HalvesStay, <1>1, PTL

-----------------------------------------------------------------------------
(* The place of every unit received *)

\* What is known of the file being received, of the partial files and of the
\* received ones, in the main loop and after it.
Placed(r)      == r.state = "RRCVBLK" => r.pos = Len(r.data) /\ InOrder(r.data)
ReceivedPlaced == /\ \A s \in Stations : Placed(rx[s])
                  /\ \A s \in Stations, f \in Files : InOrder(partial[s][f])
                  /\ \A s \in Stations : \A i \in DOMAIN got[s] : InOrder(got[s][i].data)

\* A block at the end of what was received continues it.
LEMMA BlockInOrder ==
  ASSUME NEW d \in UnitSeqs, InOrder(d), NEW f \in Files, NEW n \in Nat
  PROVE  InOrder(d \o Units(f, Len(d), n))
<1> DEFINE e == d \o Units(f, Len(d), n)
           m == Len(d)
<1>1. m \in Nat BY LenProperties DEF UnitSeqs
<1>2. /\ e \in UnitSeqs /\ Len(e) = m + n
      /\ \A i \in 1 .. m : e[i] = d[i]
      /\ \A i \in 1 .. n : e[m + i] = <<f, m + i>>
  BY <1>1, MoreUnits
<1>3. DOMAIN e = 1 .. m + n /\ DOMAIN d = 1 .. m
  BY <1>2, LenProperties DEF UnitSeqs
<1> HIDE DEF e, m
<1>4. ASSUME NEW i \in 1 .. m + n PROVE e[i][2] = i
  <2>1. CASE i \in 1 .. m
    BY <1>2, <1>3, <2>1 DEF InOrder
  <2>2. CASE i \notin 1 .. m
    <3>1. i - m \in 1 .. n /\ i = m + (i - m) BY <1>1, <2>2
    <3>2. e[i] = <<f, i>> BY <1>2, <3>1
    <3> QED BY <3>2
  <2> QED BY <2>1, <2>2
<1>5. InOrder(e) BY <1>3, <1>4 DEF InOrder
<1> QED BY <1>5 DEF e, m

\* A receiving half that changes at one station, with the files as they were.
LEMMA OneReceiver ==
  ASSUME TypeOK, ReceivedPlaced, NEW u \in Stations, NEW y,
         rx' = [rx EXCEPT ![u] = y], Placed(y), UNCHANGED <<partial, got>>
  PROVE  ReceivedPlaced'
<1>1. rx \in [Stations -> RxType] BY DEF TypeOK
<1>2. \A s \in Stations : Placed(rx'[s])
  <2> SUFFICES ASSUME NEW s \in Stations PROVE Placed(rx'[s])
    OBVIOUS
  <2>1. CASE s = u BY <1>1, <2>1
  <2>2. CASE s # u
    <3>1. rx'[s] = rx[s] BY <1>1, <2>2
    <3> QED BY <3>1 DEF ReceivedPlaced
  <2> QED BY <2>1, <2>2
<1> QED BY <1>2 DEF ReceivedPlaced, Placed, InOrder

\* A block at Rxpos goes to its place, in the file and when the file is closed.
LEMMA PlaceBlock ==
  ASSUME TypeOK, ReceivedPlaced, NEW s \in Stations, RecvBlock(s)
  PROVE  ReceivedPlaced'
<1> DEFINE b    == Head(chan[s])
           r    == rx[s]
           data == r.data \o Units(b.file, b.pos, b.arg)
           full == Completes(r, b.arg)
           st   == IF full THEN "RRCVFNAME" ELSE "RRCVBLK"
           ps   == r.pos + b.arg
           file == [name |-> r.file, data |-> data]
<1>1. /\ chan[s] # <<>> /\ b.type = "BLK"
      /\ r.state = "RRCVBLK" /\ b.pos = r.pos
  BY DEF RecvBlock, Receives, AtRxpos
<1>2. b.file \in Files /\ b.pos \in Nat /\ b.arg \in Nat
  BY <1>1, HeadType DEF PacketTo
<1>3. r \in RxRecord /\ r.file \in Files /\ r.data \in UnitSeqs
  <2>1. r \in RxType BY DEF TypeOK
  <2>2. r \in RxRecord BY <2>1 DEF RxType
  <2> QED BY <1>1, <2>1, <2>2 DEF RxType, RxRecord
<1>4. r.pos = Len(r.data) /\ InOrder(r.data)
  BY <1>1 DEF ReceivedPlaced, Placed
<1>5. InOrder(data) /\ data \in UnitSeqs /\ Len(data) = ps
  <2>1. data = r.data \o Units(b.file, Len(r.data), b.arg)
    BY <1>1, <1>4
  <2>2. Len(r.data) \in Nat BY <1>3, LenProperties DEF UnitSeqs
  <2> HIDE DEF r, b, data
  <2>3. InOrder(data) BY <1>2, <1>3, <1>4, <2>1, BlockInOrder
  <2>4. data \in UnitSeqs /\ Len(data) = Len(r.data) + b.arg
    <3> DEFINE d == r.data
               k == Len(d)
               n == b.arg
    <3>1. d \in UnitSeqs /\ k \in Nat /\ b.file \in Files /\ n \in Nat
      BY <1>2, <1>3, <2>2
    <3> HIDE DEF d, k, n
    <3>2. d \o Units(b.file, k, n) \in UnitSeqs /\ Len(d \o Units(b.file, k, n)) = Len(d) + n
      BY <3>1, MoreUnits
    <3> QED BY <2>1, <3>2 DEF d, k, n
  <2> QED BY <1>4, <2>3, <2>4
<1>6. PICK m, l :
        rx' = [rx EXCEPT ![s] = [r EXCEPT !.pos = ps, !.data = data, !.room = m, !.lastblk = l,
                                          !.waiting = FALSE, !.cnt = 0, !.state = st]]
  BY DEF RecvBlock
<1>7. \A u \in Stations : Placed(rx'[u])
  <2> DEFINE y == [r EXCEPT !.pos = ps, !.data = data, !.room = m, !.lastblk = l,
                            !.waiting = FALSE, !.cnt = 0, !.state = st]
  <2> HIDE DEF r, ps, data, st
  <2>1. y.pos = ps /\ y.data = data
    BY <1>3 DEF RxRecord
  <2> HIDE DEF y
  <2>2. Placed(y) BY <1>5, <2>1 DEF Placed
  <2>3. rx' = [rx EXCEPT ![s] = y] BY <1>6 DEF y
  <2> SUFFICES ASSUME NEW u \in Stations PROVE Placed(rx'[u])
    OBVIOUS
  <2>4. rx \in [Stations -> RxType] BY DEF TypeOK
  <2>5. CASE u = s BY <2>2, <2>3, <2>4, <2>5
  <2>6. CASE u # s
    <3>1. rx'[u] = rx[u] BY <2>3, <2>4, <2>6
    <3> QED BY <3>1 DEF ReceivedPlaced
  <2> QED BY <2>5, <2>6
<1>8. /\ got' = IF full THEN [got EXCEPT ![s] = Append(@, file)] ELSE got
      /\ partial' = IF full THEN [partial EXCEPT ![s][r.file] = <<>>] ELSE partial
  BY DEF RecvBlock
<1>9. file.data = data OBVIOUS
<1> HIDE DEF b, r, full, data, file
<1>10. \A u \in Stations, f \in Files : InOrder(partial'[u][f])
  <2>1. InOrder(<<>>) BY DEF InOrder
  <2>2. partial \in [Stations -> [Files -> UnitSeqs]] BY DEF TypeOK
  <2> SUFFICES ASSUME NEW u \in Stations, NEW f \in Files PROVE InOrder(partial'[u][f])
    OBVIOUS
  <2>3. partial'[u][f] \in {partial[u][f], <<>>} BY <1>8, <2>2
  <2> QED BY <2>1, <2>3 DEF ReceivedPlaced
<1>11. \A u \in Stations : \A i \in DOMAIN got'[u] : InOrder(got'[u][i].data)
  <2> SUFFICES ASSUME NEW u \in Stations, NEW i \in DOMAIN got'[u]
               PROVE  InOrder(got'[u][i].data)
    OBVIOUS
  <2>1. got \in [Stations -> Seq([name : Files, data : UnitSeqs])] BY DEF TypeOK
  <2>2. CASE got'[u] = got[u] BY <2>2 DEF ReceivedPlaced
  <2>3. CASE got'[u] = Append(got[u], file)
    <3> DEFINE g == got[u]
    <3>1. g \in Seq([name : Files, data : UnitSeqs]) BY <2>1
    <3>2. file \in [name : Files, data : UnitSeqs] BY <1>3, <1>5 DEF file
    <3>3. Len(g) \in Nat /\ DOMAIN g = 1 .. Len(g) BY <3>1, LenProperties
    <3>4. /\ Append(g, file) \in Seq([name : Files, data : UnitSeqs])
          /\ Len(Append(g, file)) = Len(g) + 1
          /\ \A j \in 1 .. Len(g) : Append(g, file)[j] = g[j]
          /\ Append(g, file)[Len(g) + 1] = file
      BY <3>1, <3>2, AppendProperties
    <3>5. i \in 1 .. Len(g) + 1
      BY <2>3, <3>4, LenProperties
    <3>6. CASE i = Len(g) + 1
      BY <1>5, <1>9, <2>3, <3>4, <3>6
    <3>7. CASE i \in 1 .. Len(g)
      <4>1. got'[u][i] = g[i] BY <2>3, <3>4, <3>7
      <4> QED BY <3>3, <3>7, <4>1 DEF ReceivedPlaced
    <3> QED BY <3>3, <3>5, <3>6, <3>7
  <2> QED BY <1>8, <2>1, <2>2, <2>3
<1> QED BY <1>7, <1>10, <1>11 DEF ReceivedPlaced, Placed, InOrder

\* procfname() starts a file at the end of what is kept of it.
LEMMA PlaceFname ==
  ASSUME TypeOK, ReceivedPlaced, NEW s \in Stations, RecvFname(s)
  PROVE  ReceivedPlaced'
<1> DEFINE f     == Head(chan[s]).file
           r     == IF rx[s].state = "RRCVFNAME" THEN ProcFname(s, f) ELSE rx[s]
           null  == r.file = None
           state == IF r.pos = -1 THEN r.state ELSE IF null THEN "RDONE" ELSE "RRCVBLK"
<1>1. f \in Files \cup {None}
  <2>1. chan[s] # <<>> BY DEF RecvFname, Receives
  <2> QED BY <2>1, HeadType DEF PacketTo, Packet
<1>2. rx[s] \in RxType /\ rx[s] \in RxRecord /\ rx[s].state \in {"RDONE", "RRCVFNAME", "RRCVBLK"}
  <2>1. rx[s] \in RxType BY DEF TypeOK
  <2>2. rx[s] \in RxRecord BY <2>1 DEF RxType
  <2> QED BY <2>1, <2>2 DEF RxRecord
<1>3. Placed(rx[s]) BY DEF ReceivedPlaced
<1>4. r \in RxRecord /\ r.state = rx[s].state
  <2> HIDE DEF f
  <2> QED BY <1>1, <1>2, ProcFnameType DEF RxType
<1>5. r.pos # -1 /\ ~null => r.pos = Len(r.data) /\ InOrder(r.data)
  <2>1. CASE rx[s].state = "RRCVBLK"
    BY <1>3, <2>1 DEF Placed
  <2>2. CASE rx[s].state = "RDONE"
    BY <1>2, <2>2 DEF RxType
  <2>3. CASE rx[s].state = "RRCVFNAME" /\ f = None
    <3>1. r = [rx[s] EXCEPT !.file = None, !.pos = 0, !.data = <<>>]
      BY <2>3 DEF ProcFname
    <3> HIDE DEF r
    <3>2. r.file = None BY <1>2, <3>1 DEF RxRecord
    <3> QED BY <3>2
  <2>4. CASE rx[s].state = "RRCVFNAME" /\ f # None
    <3> DEFINE d  == partial[s][f]
               st == Start(s, f)
    <3>1. r = [rx[s] EXCEPT !.file = f, !.pos = st, !.data = d]
      BY <2>4 DEF ProcFname
    <3>2. d \in UnitSeqs /\ InOrder(d)
      BY <1>1, <2>4 DEF TypeOK, ReceivedPlaced
    <3>3. st # -1 => st = Len(d)
      <4>1. Len(d) \in Nat BY <3>2, LenProperties DEF UnitSeqs
      <4> QED BY <4>1 DEF Start
    <3> HIDE DEF r, d, st
    <3>4. r.pos = st /\ r.data = d
      BY <1>2, <3>1 DEF RxRecord
    <3> QED BY <3>2, <3>3, <3>4
  <2> QED BY <1>2, <2>1, <2>2, <2>3, <2>4
<1>6. UNCHANGED <<partial, got>> BY DEF RecvFname
<1>7. \/ null /\ rx' = [rx EXCEPT ![s] = [r EXCEPT !.attempting = TRUE, !.started = FALSE]]
      \/ \E a : rx' = [rx EXCEPT ![s] = [r EXCEPT !.state = state, !.attempting = FALSE,
                                                  !.started = a]]
  BY DEF RecvFname
<1> HIDE DEF r, f
<1>8. CASE null /\ rx' = [rx EXCEPT ![s] = [r EXCEPT !.attempting = TRUE, !.started = FALSE]]
  <2> DEFINE y == [r EXCEPT !.attempting = TRUE, !.started = FALSE]
  <2>1. y.state = r.state BY <1>4 DEF RxRecord
  <2>2. r.state # "RRCVBLK"
    <3>1. rx[s].state # "RRCVBLK" \/ r = rx[s] BY <1>4 DEF r
    <3>2. rx[s].state = "RRCVBLK" => rx[s].file \in Files BY <1>2 DEF RxType
    <3> QED BY <1>4, <1>8, <3>1, <3>2, FilesAssumption
  <2> HIDE DEF y
  <2>3. Placed(y) BY <2>1, <2>2 DEF Placed
  <2> QED BY <1>6, <1>8, <2>3, OneReceiver DEF y
<1>9. ASSUME NEW a,
             rx' = [rx EXCEPT ![s] = [r EXCEPT !.state = state, !.attempting = FALSE,
                                               !.started = a]]
      PROVE  ReceivedPlaced'
  <2> DEFINE y == [r EXCEPT !.state = state, !.attempting = FALSE, !.started = a]
  <2>1. state = "RRCVBLK" => r.pos = Len(r.data) /\ InOrder(r.data)
    <3>1. CASE r.pos # -1
      BY <1>5, <3>1
    <3>2. CASE r.pos = -1 /\ rx[s].state = "RRCVBLK"
      <4>1. rx[s].pos \in Nat /\ r = rx[s] BY <1>2, <3>2 DEF RxType, r
      <4> QED BY <3>2, <4>1
    <3>3. CASE r.pos = -1 /\ rx[s].state # "RRCVBLK"
      BY <1>4, <3>3
    <3> QED BY <3>1, <3>2, <3>3
  <2> HIDE DEF state
  <2>2. y.state = state /\ y.pos = r.pos /\ y.data = r.data
    BY <1>4 DEF RxRecord
  <2> HIDE DEF y
  <2>3. Placed(y) BY <2>1, <2>2 DEF Placed
  <2> QED BY <1>6, <1>9, <2>3, OneReceiver DEF y
<1> QED BY <1>7, <1>8, <1>9

\* A gap, a refused request and the RPOS timer leave the file as it is.
LEMMA PlaceKept ==
  ASSUME TypeOK, ReceivedPlaced, NEW s \in Stations,
         RecvGap(s) \/ RecvFreqNak(s) \/ RposTimeout(s)
  PROVE  ReceivedPlaced'
<1>1. rx[s] \in RxRecord BY DEF TypeOK, RxType
<1>2. Placed(rx[s]) BY DEF ReceivedPlaced
<1>3. CASE RecvGap(s)
  <2>1. PICK l, c, w, m, i, on :
          /\ on = TRUE => s # Caller
          /\ rx' = [rx EXCEPT ![s] = [rx[s] EXCEPT !.lastblk = l, !.cnt = c, !.sttime = w,
                                                   !.samesec = m, !.waiting = TRUE]]
          /\ tx' = [tx EXCEPT ![s] = [tx[s] EXCEPT !.inhibit = tx[s].inhibit \/ on,
                                                   !.idle = i]]
    BY <1>3, GapChanges
  <2> DEFINE y == [rx[s] EXCEPT !.lastblk = l, !.cnt = c, !.sttime = w,
                                !.samesec = m, !.waiting = TRUE]
  <2>2. y.state = rx[s].state /\ y.pos = rx[s].pos /\ y.data = rx[s].data
    BY <1>1 DEF RxRecord
  <2> HIDE DEF y
  <2>3. Placed(y) BY <1>2, <2>2 DEF Placed
  <2> QED BY <1>3, <2>1, <2>3, OneReceiver DEF RecvGap, disk, y
<1>4. CASE RecvFreqNak(s)
  <2> DEFINE y == [rx[s] EXCEPT !.attempting = FALSE, !.started = TRUE]
  <2>1. y.state = rx[s].state /\ y.pos = rx[s].pos /\ y.data = rx[s].data
    BY <1>1 DEF RxRecord
  <2>2. rx' = [rx EXCEPT ![s] = y] BY <1>4 DEF RecvFreqNak
  <2> HIDE DEF y
  <2>3. Placed(y) BY <1>2, <2>1 DEF Placed
  <2> QED BY <1>4, <2>2, <2>3, OneReceiver DEF RecvFreqNak, disk
<1>5. CASE RposTimeout(s)
  <2> DEFINE y == [rx[s] EXCEPT !.waiting = FALSE, !.samesec = FALSE]
  <2>1. y.state = rx[s].state /\ y.pos = rx[s].pos /\ y.data = rx[s].data
    BY <1>1 DEF RxRecord
  <2>2. rx' = [rx EXCEPT ![s] = y] BY <1>5 DEF RposTimeout
  <2> HIDE DEF y
  <2>3. Placed(y) BY <1>2, <2>1 DEF Placed
  <2> QED BY <1>5, <2>2, <2>3, OneReceiver DEF RposTimeout, disk
<1> QED BY <1>3, <1>4, <1>5

\* What is kept of an aborted transfer is what had been received.
LEMMA PlacePartial ==
  ASSUME TypeOK, ReceivedPlaced, NEW s \in Stations, NEW q, GiveUp(s, q)
  PROVE  ReceivedPlaced'
<1>1. UNCHANGED <<rx, got>> BY DEF GiveUp
<1>2. \A u \in Stations, f \in Files : InOrder(partial'[u][f])
  <2> SUFFICES ASSUME NEW u \in Stations, NEW f \in Files PROVE InOrder(partial'[u][f])
    OBVIOUS
  <2>1. partial \in [Stations -> [Files -> UnitSeqs]] BY DEF TypeOK
  <2>2. rx[s].state = "RRCVBLK" => InOrder(rx[s].data) BY DEF ReceivedPlaced, Placed
  <2>3. CASE partial' = partial BY <2>3 DEF ReceivedPlaced
  <2>4. CASE /\ rx[s].state = "RRCVBLK"
             /\ partial' = [partial EXCEPT ![s][rx[s].file] = rx[s].data]
    <3>1. partial'[u][f] \in {partial[u][f], rx[s].data} BY <2>1, <2>4
    <3> QED BY <2>2, <2>4, <3>1 DEF ReceivedPlaced
  <2> QED BY <2>3, <2>4 DEF GiveUp
<1> QED BY <1>1, <1>2 DEF ReceivedPlaced, Placed, InOrder

\* No step puts a unit out of its place.
LEMMA NextPlaced == TypeOK /\ ReceivedPlaced /\ [Next]_vars => ReceivedPlaced'
<1> SUFFICES ASSUME TypeOK, ReceivedPlaced, [Next]_vars PROVE ReceivedPlaced'
  OBVIOUS
<1> USE DEF disk
<1>1. ASSUME UNCHANGED <<rx, partial, got>> PROVE ReceivedPlaced'
  BY <1>1 DEF ReceivedPlaced, Placed, InOrder
<1>2. CASE UNCHANGED vars
  BY <1>1, <1>2 DEF vars
<1>3. CASE LineDrop
  BY <1>1, <1>3 DEF LineDrop
<1>4. CASE NewSession
  <2>1. rx' = [u \in Stations |-> RxStart(u)] /\ UNCHANGED <<partial, got>>
    BY <1>4 DEF NewSession
  <2>2. \A u \in Stations : Placed(RxStart(u))
    BY DEF RxStart, Placed
  <2> QED BY <2>1, <2>2 DEF ReceivedPlaced, Placed, InOrder
<1>5. ASSUME NEW s \in Stations,
             \/ Transmit(s) \/ Receive(s) \/ Timers(s) \/ EndBatch(s) \/ NoCarrier(s)
             \/ HangUp(s) \/ Escape(s) \/ EndEscape(s) \/ Noise(s)
      PROVE  ReceivedPlaced'
  <2>1. CASE Transmit(s) \/ XmitTimeout(s)
    BY <1>1, <2>1 DEF Transmit, SendBlk, SendFname, SendFreqNak, XmitTimeout
  <2>2. CASE RecvGap(s) \/ RecvFreqNak(s) \/ RposTimeout(s)
    BY <2>2, PlaceKept
  <2>3. CASE \/ RecvStray(s) \/ RecvFnack(s) \/ RecvFreq(s) \/ RecvFrnakAck(s)
             \/ RecvEofAck(s) \/ RecvRpos(s) \/ RecvHaltAck(s)
    BY <1>1, <2>3 DEF RecvStray, RecvFnack, RecvFreq, RecvFrnakAck, RecvEofAck, RecvRpos,
                      RecvHaltAck
  <2>4. CASE BrainDead(s) \/ NoCarrier(s) \/ Escape(s) \/ RecvHalt(s)
    BY <2>4, PlacePartial DEF BrainDead, NoCarrier, Escape, RecvHalt
  <2>5. CASE EndBatch(s) \/ EndEscape(s)
    BY <1>1, <2>5 DEF EndBatch, EndRecv, EndTimeout, EndNoCarrier, EndEscape
  <2>6. CASE HangUp(s) \/ Noise(s)
    BY <1>1, <2>6 DEF HangUp, Noise
  <2> QED BY <1>5, <2>1, <2>2, <2>3, <2>4, <2>5, <2>6, PlaceBlock, PlaceFname DEF Timers, Receive
<1> QED BY <1>2, <1>3, <1>4, <1>5 DEF Next

LEMMA PlacedInit == Init => ReceivedPlaced
<1> SUFFICES ASSUME Init PROVE ReceivedPlaced
  OBVIOUS
<1>1. \A s \in Stations : Placed(rx[s])
  BY DEF Init, RxStart, Placed
<1>2. \A s \in Stations, f \in Files : InOrder(partial[s][f])
  BY DEF Init, InOrder
<1>3. \A s \in Stations : got[s] = <<>>
  BY DEF Init
<1> QED BY <1>1, <1>2, <1>3 DEF ReceivedPlaced

\* Whatever is lost, repeated, refused or resumed, on any line and in any number
\* of sessions, each unit of a file lies at its own offset.
THEOREM PlacesCorrect == Spec => []UnitsInPlace
<1>1. ReceivedPlaced => UnitsInPlace
  BY DEF ReceivedPlaced, Placed, UnitsInPlace
<1> QED BY TypeCorrect, NextPlaced, PlacedInit, <1>1, PTL DEF Spec
=============================================================================
