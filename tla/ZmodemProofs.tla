------------------------------ MODULE ZmodemProofs ------------------------------
(***************************************************************************)
(* Proofs about Zmodem, for any files, lists, numbers of calls and faults. *)
(***************************************************************************)
EXTENDS Zmodem, WellFoundedInduction, TLAPS

NameT     == {"ZFILE", "NAME"}
DataT     == {"ZDATA", "SUB", "ZEOF"}
AskingAt  == {"name", "drain"}
SendingAt == {"more", "data", "ended", "sync", "eof"}
SeekingAt == {"init", "sec"}
TakingAt  == {"pos", "ext", "data"}

Units == Files \X Nat
Frame == [type : Headers, pos : Nat] \cup [type : {"NAME"}, file : Files]
         \cup [type : {"SUB"}, data : Seq(Units), end : {"ZCRCG", "ZCRCE"}]
         \cup {Bad, Can, OO}

SenderOK(zz) ==
  /\ zz \in [at   : {"init", "name", "drain", "more", "data", "ended", "sync", "eof",
                     "fin", "done", "fail"},
             idx  : 0 .. Len(Outbound), pos : Nat, last : Nat, cnt : Int, errs : Int]
  /\ zz.at \in AskingAt \cup SendingAt => zz.idx # 0
  /\ zz.at = "fin" => zz.idx = 0

ReceiverOK(rr) ==
  /\ rr \in [at : {"init", "sec", "pos", "ext", "data", "bibi", "done", "fail"},
             n : Int, file : Files \cup {None}, data : Seq(Units)]
  /\ rr.file # None <=> rr.at \in TakingAt

TypeInv ==
  /\ SenderOK(z) /\ ReceiverOK(r)
  /\ toRx \in Seq(Frame) /\ toTx \in Seq(Frame)
  /\ up \in BOOLEAN
  /\ struck \subseteq Files /\ gone \subseteq Files
  /\ filed \in Seq([name : Files, data : Seq(Units)])
  /\ partial \in [Files -> Seq(Units)]

-----------------------------------------------------------------------------
(* Frames in a row *)

Has(c, T)         == \E i \in DOMAIN c : c[i].type \in T
Before(c, T, U)   == \A i, j \in DOMAIN c : i < j /\ c[i].type \in T => c[j].type \notin U
NamesAre(c, f)    == \A i \in DOMAIN c : c[i].type = "NAME" => c[i].file = f
EofsAre(c, p)     == \A i \in DOMAIN c : c[i].type = "ZEOF" => c[i].pos = p
AsksWithin(c, p)  == \A i \in DOMAIN c : c[i].type = "ZRPOS" => c[i].pos <= p

\* d is a part of c of which frames may be damaged, from the one after o.
Window(d, c, o) ==
  /\ d \in Seq(Frame) /\ o \in Nat /\ Len(d) + o <= Len(c)
  /\ \A i \in DOMAIN d : d[i] = c[i + o] \/ d[i] = Bad

LEMMA WindowKeeps ==
  ASSUME NEW c \in Seq(Frame), NEW d, NEW o, Window(d, c, o)
  PROVE  /\ \A T : "BAD" \notin T /\ ~Has(c, T) => ~Has(d, T)
         /\ \A T, U : "BAD" \notin T /\ "BAD" \notin U /\ Before(c, T, U) => Before(d, T, U)
         /\ \A f : NamesAre(c, f) => NamesAre(d, f)
         /\ \A p : EofsAre(c, p) => EofsAre(d, p)
         /\ \A p : AsksWithin(c, p) => AsksWithin(d, p)
<1>1. /\ o \in Nat /\ Len(d) \in Nat /\ Len(c) \in Nat
      /\ DOMAIN d = 1 .. Len(d) /\ DOMAIN c = 1 .. Len(c) /\ Len(d) + o <= Len(c)
  BY DEF Window
<1>2. \A i \in DOMAIN d : i + o \in DOMAIN c /\ (d[i] = c[i + o] \/ d[i].type = "BAD")
  BY <1>1 DEF Window, Bad
<1>3. \A i, j \in DOMAIN d : i < j => i + o < j + o BY <1>1
<1>4. \A T : "BAD" \notin T /\ ~Has(c, T) => ~Has(d, T) BY <1>2 DEF Has
<1>5. ASSUME NEW T, NEW U, "BAD" \notin T, "BAD" \notin U, Before(c, T, U)
      PROVE  Before(d, T, U)
  BY <1>2, <1>3, <1>5 DEF Before
<1>6. \A f : NamesAre(c, f) => NamesAre(d, f) BY <1>2 DEF NamesAre
<1>7. \A p : EofsAre(c, p) => EofsAre(d, p) BY <1>2 DEF EofsAre
<1>8. \A p : AsksWithin(c, p) => AsksWithin(d, p) BY <1>2 DEF AsksWithin
<1> QED BY <1>4, <1>5, <1>6, <1>7, <1>8

LEMMA JoinedKeeps ==
  ASSUME NEW c \in Seq(Frame), NEW s \in Seq(Frame)
  PROVE  /\ c \o s \in Seq(Frame)
         /\ \A T : ~Has(c, T) /\ ~Has(s, T) => ~Has(c \o s, T)
         /\ \A T, U : /\ Before(c, T, U) /\ Before(s, T, U)
                      /\ ~Has(c, T) \/ ~Has(s, U)
                      => Before(c \o s, T, U)
         /\ \A f : NamesAre(c, f) /\ NamesAre(s, f) => NamesAre(c \o s, f)
         /\ \A p : EofsAre(c, p) /\ EofsAre(s, p) => EofsAre(c \o s, p)
         /\ \A p : AsksWithin(c, p) /\ AsksWithin(s, p) => AsksWithin(c \o s, p)
<1> DEFINE d == c \o s
<1>1. /\ Len(c) \in Nat /\ Len(s) \in Nat /\ Len(d) = Len(c) + Len(s)
      /\ DOMAIN c = 1 .. Len(c) /\ DOMAIN s = 1 .. Len(s) /\ DOMAIN d = 1 .. Len(d)
      /\ d \in Seq(Frame)
  OBVIOUS
<1>2. \A i \in DOMAIN d : \/ i \in DOMAIN c /\ d[i] = c[i]
                          \/ i - Len(c) \in DOMAIN s /\ d[i] = s[i - Len(c)] /\ i \notin DOMAIN c
  BY <1>1
<1>3. \A i, j \in DOMAIN d : i < j /\ j \in DOMAIN c => i \in DOMAIN c BY <1>1
<1>4. \A i, j \in DOMAIN d : i < j => i - Len(c) < j - Len(c) BY <1>1
<1> HIDE DEF d
<1>5. \A T : ~Has(c, T) /\ ~Has(s, T) => ~Has(d, T) BY <1>2 DEF Has
<1>6. ASSUME NEW T, NEW U, Before(c, T, U), Before(s, T, U), ~Has(c, T) \/ ~Has(s, U)
      PROVE  Before(d, T, U)
  <2> SUFFICES ASSUME NEW i \in DOMAIN d, NEW j \in DOMAIN d, i < j, d[i].type \in T
               PROVE  d[j].type \notin U
    BY DEF Before
  <2>1. CASE j \in DOMAIN c BY <1>2, <1>3, <1>6, <2>1 DEF Before
  <2>2. CASE j \notin DOMAIN c /\ i \in DOMAIN c BY <1>2, <1>6, <2>2 DEF Has
  <2>3. CASE j \notin DOMAIN c /\ i \notin DOMAIN c
    BY <1>2, <1>4, <1>6, <2>3 DEF Before
  <2> QED BY <2>1, <2>2, <2>3
<1>7. \A f : NamesAre(c, f) /\ NamesAre(s, f) => NamesAre(d, f) BY <1>2 DEF NamesAre
<1>8. \A p : EofsAre(c, p) /\ EofsAre(s, p) => EofsAre(d, p) BY <1>2 DEF EofsAre
<1>9. \A p : AsksWithin(c, p) /\ AsksWithin(s, p) => AsksWithin(d, p) BY <1>2 DEF AsksWithin
<1> QED BY <1>1, <1>5, <1>6, <1>7, <1>8, <1>9 DEF d

LEMMA FrameTypes ==
  /\ Bad \in Frame /\ Can \in Frame /\ OO \in Frame
  /\ Bad.type = "BAD" /\ Can.type = "CAN" /\ OO.type = "OO"
  /\ \A t \in Headers, p \in Nat : Hdr(t, p) \in Frame /\ Hdr(t, p).type = t /\ Hdr(t, p).pos = p
  /\ \A f \in Files : Name(f) \in Frame /\ Name(f).type = "NAME" /\ Name(f).file = f
  /\ \A e \in Frame : /\ e.type \in Headers => e.pos \in Nat
                      /\ e.type = "NAME" => e.file \in Files
                      /\ e.type = "SUB" => e.data \in Seq(Units) /\ e.end \in {"ZCRCG", "ZCRCE"}
                      /\ e.type \in Headers \cup {"NAME", "SUB", "BAD", "CAN", "OO"}
<1>1. \A t \in Headers, p \in Nat : Hdr(t, p) \in Frame /\ Hdr(t, p).type = t /\ Hdr(t, p).pos = p
  BY DEF Hdr, Frame
<1>2. \A f \in Files : Name(f) \in Frame /\ Name(f).type = "NAME" /\ Name(f).file = f
  BY DEF Name, Frame
<1>3. \A e \in Frame : /\ e.type \in Headers => e.pos \in Nat
                       /\ e.type = "NAME" => e.file \in Files
                       /\ e.type = "SUB" => e.data \in Seq(Units) /\ e.end \in {"ZCRCG", "ZCRCE"}
                       /\ e.type \in Headers \cup {"NAME", "SUB", "BAD", "CAN", "OO"}
  <2> SUFFICES ASSUME NEW e \in Frame
               PROVE  /\ e.type \in Headers => e.pos \in Nat
                      /\ e.type = "NAME" => e.file \in Files
                      /\ e.type = "SUB" => e.data \in Seq(Units) /\ e.end \in {"ZCRCG", "ZCRCE"}
                      /\ e.type \in Headers \cup {"NAME", "SUB", "BAD", "CAN", "OO"}
    OBVIOUS
  <2>1. CASE e \in [type : Headers, pos : Nat] BY <2>1 DEF Headers
  <2>2. CASE e \in [type : {"NAME"}, file : Files] BY <2>2 DEF Headers
  <2>3. CASE e \in [type : {"SUB"}, data : Seq(Units), end : {"ZCRCG", "ZCRCE"}]
    BY <2>3 DEF Headers
  <2>4. CASE e \in {Bad, Can, OO} BY <2>4 DEF Bad, Can, OO, Headers
  <2> QED BY <2>1, <2>2, <2>3, <2>4 DEF Frame
<1> QED BY <1>1, <1>2, <1>3 DEF Frame, Bad, Can, OO

LEMMA SubType ==
  ASSUME NEW d \in Seq(Units), NEW e \in {"ZCRCG", "ZCRCE"}
  PROVE  /\ Sub(d, e) \in Frame
         /\ Sub(d, e).type = "SUB" /\ Sub(d, e).data = d /\ Sub(d, e).end = e
BY DEF Sub, Frame

LEMMA TailWindow ==
  ASSUME NEW c \in Seq(Frame), c # <<>>
  PROVE  Window(Tail(c), c, 1) /\ Head(c) = c[1] /\ 1 \in DOMAIN c /\ c[1] \in Frame
<1>1. Tail(c) \in Seq(Frame) /\ Len(Tail(c)) = Len(c) - 1 /\ Len(c) \in Nat \ {0}
  OBVIOUS
<1>2. \A i \in 1 .. Len(c) - 1 : Tail(c)[i] = c[i + 1] OBVIOUS
<1>3. DOMAIN Tail(c) = 1 .. Len(c) - 1 /\ DOMAIN c = 1 .. Len(c) BY <1>1
<1> QED BY <1>1, <1>2, <1>3 DEF Window

LEMMA SameWindow == ASSUME NEW c \in Seq(Frame) PROVE Window(c, c, 0)
<1>1. \A i \in DOMAIN c : c[i + 0] = c[i] OBVIOUS
<1> QED BY <1>1 DEF Window

LEMMA WindowOfWindow ==
  ASSUME NEW c \in Seq(Frame), NEW d, NEW e, NEW o, NEW p, Window(d, c, o), Window(e, d, p)
  PROVE  Window(e, c, o + p)
<1>1. /\ o \in Nat /\ p \in Nat /\ Len(d) \in Nat /\ Len(e) \in Nat /\ Len(c) \in Nat
      /\ DOMAIN d = 1 .. Len(d) /\ DOMAIN e = 1 .. Len(e)
      /\ Len(e) + p <= Len(d) /\ Len(d) + o <= Len(c) /\ e \in Seq(Frame)
  BY DEF Window
<1>2. \A i \in DOMAIN e : i + p \in DOMAIN d /\ (i + p) + o = i + (o + p) BY <1>1
<1>3. \A i \in DOMAIN e : e[i] = c[i + (o + p)] \/ e[i] = Bad BY <1>2 DEF Window
<1> QED BY <1>1, <1>3 DEF Window

LEMMA FlushedWindow ==
  ASSUME NEW c \in Seq(Frame), NEW d \in Flushed(c)
  PROVE  \E o : Window(d, c, o)
<1>1. PICK k \in 1 .. Len(c) + 1 : d = SubSeq(c, k, Len(c)) BY DEF Flushed
<1>2. d \in Seq(Frame) /\ Len(d) = Len(c) - (k - 1) /\ Len(c) \in Nat BY <1>1
<1>3. \A i \in DOMAIN d : d[i] = c[i + (k - 1)] BY <1>1, <1>2
<1>4. Window(d, c, k - 1) BY <1>2, <1>3 DEF Window
<1> QED BY <1>4

LEMMA PrefixWindow ==
  ASSUME NEW c \in Seq(Frame), NEW k \in 0 .. Len(c)
  PROVE  Window(SubSeq(c, 1, k), c, 0) /\ Len(SubSeq(c, 1, k)) = k
<1> DEFINE d == SubSeq(c, 1, k)
<1>1. d \in Seq(Frame) /\ Len(d) = k /\ Len(c) \in Nat OBVIOUS
<1>2. \A i \in DOMAIN d : d[i] = c[i + 0] BY <1>1
<1> QED BY <1>1, <1>2 DEF Window

LEMMA ClearedWindow ==
  ASSUME NEW c \in Seq(Frame), NEW d \in Cleared(c)
  PROVE  Window(d, c, 0)
<1>1. CASE \E k \in 0 .. Len(c) : d = SubSeq(c, 1, k) BY <1>1, PrefixWindow
<1>2. CASE \E k \in 0 .. Len(c) - 1 : d = SubSeq(c, 1, k) \o <<Bad>>
  <2>1. PICK k \in 0 .. Len(c) - 1 : d = SubSeq(c, 1, k) \o <<Bad>> BY <1>2
  <2> DEFINE e == SubSeq(c, 1, k)
  <2>2. Window(e, c, 0) /\ Len(e) = k /\ Len(c) \in Nat BY PrefixWindow
  <2> HIDE DEF e
  <2>3. e \in Seq(Frame) /\ \A i \in DOMAIN e : e[i] = c[i + 0] \/ e[i] = Bad
    BY <2>2 DEF Window
  <2>4. d = Append(e, Bad) /\ d \in Seq(Frame) BY <2>1, <2>3, FrameTypes DEF e
  <2>5. Len(d) = k + 1 /\ \A i \in DOMAIN d : (i \in DOMAIN e /\ d[i] = e[i]) \/ d[i] = Bad
    BY <2>2, <2>3, <2>4
  <2> QED BY <2>2, <2>3, <2>4, <2>5 DEF Window
<1> QED BY <1>1, <1>2 DEF Cleared

LEMMA HitWindow ==
  ASSUME NEW c \in Seq(Frame), c # <<>>, NEW d \in Hit(c)
  PROVE  \/ Window(d, c, 0) /\ d = <<Bad>> \o Tail(c) /\ Len(d) = Len(c)
         \/ Window(d, c, 1) /\ d = Tail(c) /\ c[1].type \in Headers
<1>1. Window(Tail(c), c, 1) /\ Head(c) = c[1] BY TailWindow
<1>2. CASE d = Tail(c) /\ Head(c).type \in Headers BY <1>1, <1>2
<1>3. CASE d = <<Bad>> \o Tail(c)
  <2>1. /\ Tail(c) \in Seq(Frame) /\ Len(Tail(c)) = Len(c) - 1 /\ Len(c) \in Nat \ {0}
        /\ \A i \in 1 .. Len(c) - 1 : Tail(c)[i] = c[i + 1]
        /\ <<Bad>> \in Seq(Frame)
    BY FrameTypes
  <2> DEFINE e == Tail(c)
  <2>2. /\ d \in Seq(Frame) /\ Len(d) = Len(c) /\ d[1] = Bad
        /\ \A i \in 2 .. Len(d) : d[i] = e[i - 1]
    <3> HIDE DEF e
    <3> QED BY <1>3, <2>1 DEF e
  <2>3. ASSUME NEW i \in DOMAIN d PROVE d[i] = c[i + 0] \/ d[i] = Bad
    <3>1. CASE i = 1 BY <2>2, <3>1
    <3>2. CASE i # 1
      <4>1. i \in 2 .. Len(c) BY <2>1, <2>2, <3>2
      <4>2. d[i] = e[i - 1] BY <2>2, <4>1
      <4>3. i - 1 \in 1 .. Len(c) - 1 /\ (i - 1) + 1 = i + 0 BY <2>1, <4>1
      <4>4. e[i - 1] = c[(i - 1) + 1] BY <2>1, <4>3
      <4> QED BY <4>2, <4>3, <4>4
    <3> QED BY <3>1, <3>2
  <2>4. Window(d, c, 0) BY <2>1, <2>2, <2>3 DEF Window
  <2> QED BY <1>3, <2>1, <2>2, <2>4
<1> QED BY <1>2, <1>3 DEF Hit

-----------------------------------------------------------------------------
(* What is on its way to the receiver                                        *)

\* Names and data come in an order that tells them apart: names are of the file
\* being sent; who has a file open finds its data before names, who looks for one
\* finds what is left of the data of the last file before the name of the next.
Order(zz, rr, c) ==
  /\ rr.at \in SeekingAt \cup TakingAt =>
       (Has(c, {"NAME"}) => zz.idx # 0) /\ NamesAre(c, Outbound[zz.idx])
  /\ rr.file # None =>
       /\ zz.idx # 0 /\ rr.file = Outbound[zz.idx]
       /\ Before(c, DataT, NameT) /\ EofsAre(c, Size[rr.file])
       /\ zz.at \in AskingAt => ~Has(c, DataT) /\ rr.at # "data"
  /\ rr.at \in SeekingAt =>
       /\ Before(c, NameT, DataT)
       /\ zz.at \in SendingAt => ~Has(c, NameT) /\ rr.at = "init"
  /\ rr.at = "sec" => ~Has(c, DataT)
  /\ zz.at = "init" => rr.file = None /\ ~Has(c, NameT \cup DataT)

LEMMA OrderWindow ==
  ASSUME NEW zz, NEW rr, NEW c \in Seq(Frame), NEW d, NEW o, Window(d, c, o), Order(zz, rr, c)
  PROVE  Order(zz, rr, d)
<1> DEFINE f == Outbound[zz.idx]
<1>1. /\ NamesAre(c, f) => NamesAre(d, f)
      /\ EofsAre(c, Size[rr.file]) => EofsAre(d, Size[rr.file])
      /\ ~Has(c, DataT) => ~Has(d, DataT)
      /\ ~Has(c, NameT) => ~Has(d, NameT)
      /\ ~Has(c, {"NAME"}) => ~Has(d, {"NAME"})
      /\ ~Has(c, NameT \cup DataT) => ~Has(d, NameT \cup DataT)
      /\ Before(c, DataT, NameT) => Before(d, DataT, NameT)
      /\ Before(c, NameT, DataT) => Before(d, NameT, DataT)
  <2>1. "BAD" \notin NameT /\ "BAD" \notin DataT /\ "BAD" \notin NameT \cup DataT /\ "BAD" \notin {"NAME"}
    BY DEF NameT, DataT
  <2> HIDE DEF f
  <2> QED BY <2>1, WindowKeeps
<1> QED BY <1>1 DEF Order

\* A frame that is no part of a file may follow at any time.
LEMMA OrderNeutral ==
  ASSUME NEW zz, NEW rr, NEW c \in Seq(Frame), NEW s \in Seq(Frame),
         ~Has(s, NameT \cup DataT), Order(zz, rr, c)
  PROVE  Order(zz, rr, c \o s)
<1> DEFINE f == Outbound[zz.idx]
<1>1. /\ ~Has(s, NameT) /\ ~Has(s, DataT) /\ ~Has(s, {"NAME"}) /\ NamesAre(s, f)
      /\ EofsAre(s, Size[rr.file]) /\ Before(s, DataT, NameT) /\ Before(s, NameT, DataT)
  BY DEF Has, NameT, DataT, NamesAre, EofsAre, Before
<1>2. /\ NamesAre(c, f) => NamesAre(c \o s, f)
      /\ EofsAre(c, Size[rr.file]) => EofsAre(c \o s, Size[rr.file])
      /\ ~Has(c, DataT) => ~Has(c \o s, DataT)
      /\ ~Has(c, NameT) => ~Has(c \o s, NameT)
      /\ ~Has(c, {"NAME"}) => ~Has(c \o s, {"NAME"})
      /\ ~Has(c, NameT \cup DataT) => ~Has(c \o s, NameT \cup DataT)
      /\ Before(c, DataT, NameT) => Before(c \o s, DataT, NameT)
      /\ Before(c, NameT, DataT) => Before(c \o s, NameT, DataT)
  <2> HIDE DEF f
  <2> QED BY <1>1, JoinedKeeps
<1> QED BY <1>2 DEF Order

\* The sender at work on a file appends to its data.
LEMMA OrderData ==
  ASSUME NEW zz, NEW rr, NEW c \in Seq(Frame), NEW s \in Seq(Frame), zz.at \in SendingAt,
         ~Has(s, NameT), EofsAre(s, Size[Outbound[zz.idx]]), Order(zz, rr, c)
  PROVE  Order(zz, rr, c \o s)
<1> DEFINE f == Outbound[zz.idx]
<1>1. /\ ~Has(s, {"NAME"}) /\ NamesAre(s, f) /\ Before(s, DataT, NameT)
      /\ Before(s, NameT, DataT)
  BY DEF Has, NameT, NamesAre, Before
<1>2. zz.at \notin AskingAt /\ zz.at # "init" BY DEF AskingAt, SendingAt
<1>3. /\ NamesAre(c, f) => NamesAre(c \o s, f)
      /\ EofsAre(c, Size[f]) => EofsAre(c \o s, Size[f])
      /\ ~Has(c, NameT) => ~Has(c \o s, NameT)
      /\ ~Has(c, {"NAME"}) => ~Has(c \o s, {"NAME"})
      /\ Before(c, DataT, NameT) => Before(c \o s, DataT, NameT)
      /\ ~Has(c, NameT) /\ Before(c, NameT, DataT) => Before(c \o s, NameT, DataT)
  BY <1>1, JoinedKeeps
<1> HIDE DEF f
<1>4. rr.at \in SeekingAt => rr.at # "sec" BY DEF Order
<1>5. rr.at = "sec" => rr.at \in SeekingAt BY DEF SeekingAt
<1> QED BY <1>2, <1>3, <1>4, <1>5 DEF Order, f

\* The sender asks for a file again.
LEMMA OrderName ==
  ASSUME NEW zz, NEW rr, NEW c \in Seq(Frame), zz.at \in AskingAt, zz.idx # 0,
         Outbound[zz.idx] \in Files, Order(zz, rr, c)
  PROVE  Order(zz, rr, c \o <<Hdr("ZFILE", 0), Name(Outbound[zz.idx])>>)
<1> DEFINE f == Outbound[zz.idx]
           s == <<Hdr("ZFILE", 0), Name(f)>>
<1>1. /\ Hdr("ZFILE", 0) \in Frame /\ Hdr("ZFILE", 0).type = "ZFILE"
      /\ Name(f) \in Frame /\ Name(f).type = "NAME" /\ Name(f).file = f
  BY FrameTypes DEF Headers
<1>2. s \in Seq(Frame) BY <1>1
<1>3. \A i \in DOMAIN s : s[i] = Hdr("ZFILE", 0) \/ s[i] = Name(f) OBVIOUS
<1> HIDE DEF s
<1>4. /\ ~Has(s, DataT) /\ NamesAre(s, f) /\ Before(s, DataT, NameT) /\ Before(s, NameT, DataT)
      /\ EofsAre(s, Size[rr.file])
  BY <1>1, <1>3 DEF Has, DataT, NamesAre, Before, EofsAre
<1>5. zz.at \notin SendingAt /\ zz.at # "init" BY DEF AskingAt, SendingAt
<1>6. /\ NamesAre(c, f) => NamesAre(c \o s, f)
      /\ EofsAre(c, Size[rr.file]) => EofsAre(c \o s, Size[rr.file])
      /\ ~Has(c, DataT) => ~Has(c \o s, DataT)
      /\ ~Has(c, DataT) /\ Before(c, DataT, NameT) => Before(c \o s, DataT, NameT)
      /\ Before(c, NameT, DataT) => Before(c \o s, NameT, DataT)
  <2> HIDE DEF f
  <2> QED BY <1>2, <1>4, JoinedKeeps
<1> QED BY <1>5, <1>6 DEF Order, s

\* The sender goes on with its file, or gives up.
LEMMA OrderPhase ==
  ASSUME NEW zz, NEW yy, NEW rr, NEW c, Order(zz, rr, c), yy.idx = zz.idx,
         yy.at \in AskingAt => zz.at \in AskingAt,
         yy.at \in SendingAt => zz.at \in SendingAt \/ rr.at \notin SeekingAt,
         yy.at = "init" => zz.at = "init"
  PROVE  Order(yy, rr, c)
BY DEF Order

\* The sender offers a file to a receiver that looks for one.
LEMMA OrderOffer ==
  ASSUME NEW zz, NEW yy, NEW rr, NEW c, Order(zz, rr, c), rr.file = None,
         rr.at \in SeekingAt \cup TakingAt => ~Has(c, NameT),
         yy.at \notin SendingAt, yy.at # "init"
  PROVE  Order(yy, rr, c)
<1>1. rr.at \in SeekingAt \cup TakingAt => ~Has(c, {"NAME"}) /\ NamesAre(c, Outbound[yy.idx])
  BY DEF Has, NamesAre, NameT
<1> QED BY <1>1 DEF Order

\* The receiver gives up or is done.
LEMMA OrderLeft ==
  ASSUME NEW zz, NEW rr, NEW qq, NEW c, Order(zz, rr, c), qq.file = None,
         qq.at \notin SeekingAt \cup TakingAt
  PROVE  Order(zz, qq, c)
BY DEF Order, SeekingAt

\* The receiver goes on looking.
LEMMA OrderSeek ==
  ASSUME NEW zz, NEW rr, NEW qq, NEW c, Order(zz, rr, c), rr.at \in SeekingAt,
         qq.at \in SeekingAt, qq.file = None,
         qq.at = "sec" => ~Has(c, DataT) /\ zz.at \notin SendingAt
  PROVE  Order(zz, qq, c)
BY DEF Order, SeekingAt

\* The receiver goes on with its file.
LEMMA OrderTake ==
  ASSUME NEW zz, NEW rr, NEW qq, NEW c, Order(zz, rr, c), rr.file # None,
         qq.file = rr.file, rr.at \in TakingAt, qq.at \in TakingAt,
         qq.at = "data" => zz.at \notin AskingAt
  PROVE  Order(zz, qq, c)
BY DEF Order, SeekingAt, TakingAt

\* The receiver opens the file it is asked to take.
LEMMA OrderAccept ==
  ASSUME NEW zz, NEW rr, NEW qq, NEW c, Order(zz, rr, c), rr.at = "sec",
         zz.at # "init", zz.idx # 0, qq.file = Outbound[zz.idx], qq.at = "pos"
  PROVE  Order(zz, qq, c)
<1>1. ~Has(c, DataT) => Before(c, DataT, NameT) /\ EofsAre(c, Size[qq.file])
  BY DEF Has, Before, EofsAre, DataT
<1> QED BY <1>1 DEF Order, SeekingAt, TakingAt

\* The receiver has filed what it had open.
LEMMA OrderFiled ==
  ASSUME NEW zz, NEW rr, NEW qq, NEW c, Order(zz, rr, c), rr.file # None, rr.at \in TakingAt,
         ~Has(c, NameT), qq.at = "init", qq.file = None
  PROVE  Order(zz, qq, c)
<1>1. Before(c, NameT, DataT) BY DEF Has, Before
<1> QED BY <1>1 DEF Order, SeekingAt, TakingAt

-----------------------------------------------------------------------------
(* What is on its way to the sender                                          *)

\* An answer is never taken for that to another question: no consent follows the
\* position to begin at, no position follows the consent to all of a file, and a
\* refusal is of the file the sender asks for.
Replies(zz, rr, c) ==
  /\ zz.at \in AskingAt \cup {"init"} =>
       /\ Before(c, {"ZRPOS"}, {"ZRINIT"})
       /\ rr.at \in SeekingAt => ~Has(c, {"ZRPOS"})
  /\ zz.at = "init" => ~Has(c, {"ZRPOS"}) /\ ~Has(c, {"ZSKIP"})
  /\ zz.at \in SendingAt =>
       /\ Before(c, {"ZRINIT"}, {"ZRPOS"})
       /\ rr.file # None => ~Has(c, {"ZRINIT"})
  /\ zz.at \in AskingAt \cup SendingAt => AsksWithin(c, Size[Outbound[zz.idx]])
  /\ zz.at \notin Ended /\ Has(c, {"ZSKIP"}) =>
       zz.at \in AskingAt /\ rr.file = None /\ ~Has(c, {"ZRPOS"})

LEMMA RepliesWindow ==
  ASSUME NEW zz, NEW rr, NEW c \in Seq(Frame), NEW d, NEW o, Window(d, c, o), Replies(zz, rr, c)
  PROVE  Replies(zz, rr, d)
<1> DEFINE p == Size[Outbound[zz.idx]]
<1>1. /\ ~Has(c, {"ZRPOS"}) => ~Has(d, {"ZRPOS"})
      /\ ~Has(c, {"ZRINIT"}) => ~Has(d, {"ZRINIT"})
      /\ ~Has(c, {"ZSKIP"}) => ~Has(d, {"ZSKIP"})
      /\ Before(c, {"ZRPOS"}, {"ZRINIT"}) => Before(d, {"ZRPOS"}, {"ZRINIT"})
      /\ Before(c, {"ZRINIT"}, {"ZRPOS"}) => Before(d, {"ZRINIT"}, {"ZRPOS"})
      /\ AsksWithin(c, p) => AsksWithin(d, p)
  <2>1. "BAD" \notin {"ZRPOS"} /\ "BAD" \notin {"ZRINIT"} /\ "BAD" \notin {"ZSKIP"}
    OBVIOUS
  <2> HIDE DEF p
  <2> QED BY <2>1, WindowKeeps
<1> QED BY <1>1 DEF Replies

\* A frame that answers nothing
LEMMA RepliesNeutral ==
  ASSUME NEW zz, NEW rr, NEW c \in Seq(Frame), NEW e \in Frame,
         e.type \notin {"ZRPOS", "ZRINIT", "ZSKIP"}, Replies(zz, rr, c)
  PROVE  Replies(zz, rr, c \o <<e>>)
<1> DEFINE p == Size[Outbound[zz.idx]]
           s == <<e>>
<1>1. s \in Seq(Frame) /\ \A i \in DOMAIN s : s[i] = e OBVIOUS
<1> HIDE DEF s
<1>2. /\ ~Has(s, {"ZRPOS"}) /\ ~Has(s, {"ZRINIT"}) /\ ~Has(s, {"ZSKIP"})
      /\ Before(s, {"ZRPOS"}, {"ZRINIT"}) /\ Before(s, {"ZRINIT"}, {"ZRPOS"}) /\ AsksWithin(s, p)
  BY <1>1 DEF Has, Before, AsksWithin
<1>3. /\ ~Has(c, {"ZRPOS"}) => ~Has(c \o s, {"ZRPOS"})
      /\ ~Has(c, {"ZRINIT"}) => ~Has(c \o s, {"ZRINIT"})
      /\ ~Has(c, {"ZSKIP"}) => ~Has(c \o s, {"ZSKIP"})
      /\ Before(c, {"ZRPOS"}, {"ZRINIT"}) => Before(c \o s, {"ZRPOS"}, {"ZRINIT"})
      /\ Before(c, {"ZRINIT"}, {"ZRPOS"}) => Before(c \o s, {"ZRINIT"}, {"ZRPOS"})
      /\ AsksWithin(c, p) => AsksWithin(c \o s, p)
  <2> HIDE DEF p
  <2> QED BY <1>1, <1>2, JoinedKeeps
<1> QED BY <1>3 DEF Replies, s

\* The receiver is ready for the next file.
LEMMA RepliesReady ==
  ASSUME NEW zz, NEW rr, NEW c \in Seq(Frame), rr.at \in SeekingAt, rr.file = None,
         Replies(zz, rr, c)
  PROVE  Replies(zz, rr, c \o <<Hdr("ZRINIT", 0)>>)
<1> DEFINE p == Size[Outbound[zz.idx]]
           s == <<Hdr("ZRINIT", 0)>>
<1>0. Hdr("ZRINIT", 0) \in Frame /\ Hdr("ZRINIT", 0).type = "ZRINIT"
  BY FrameTypes DEF Headers
<1>1. s \in Seq(Frame) /\ \A i \in DOMAIN s : s[i].type = "ZRINIT" BY <1>0
<1> HIDE DEF s
<1>2. /\ ~Has(s, {"ZRPOS"}) /\ ~Has(s, {"ZSKIP"})
      /\ Before(s, {"ZRPOS"}, {"ZRINIT"}) /\ Before(s, {"ZRINIT"}, {"ZRPOS"}) /\ AsksWithin(s, p)
  BY <1>1 DEF Has, Before, AsksWithin
<1>3. /\ ~Has(c, {"ZRPOS"}) => ~Has(c \o s, {"ZRPOS"})
      /\ ~Has(c, {"ZSKIP"}) => ~Has(c \o s, {"ZSKIP"})
      /\ ~Has(c, {"ZRPOS"}) /\ Before(c, {"ZRPOS"}, {"ZRINIT"}) => Before(c \o s, {"ZRPOS"}, {"ZRINIT"})
      /\ Before(c, {"ZRINIT"}, {"ZRPOS"}) => Before(c \o s, {"ZRINIT"}, {"ZRPOS"})
      /\ AsksWithin(c, p) => AsksWithin(c \o s, p)
  <2> HIDE DEF p
  <2> QED BY <1>1, <1>2, JoinedKeeps
<1> QED BY <1>3 DEF Replies, s

\* The receiver says where its file goes on.
LEMMA RepliesPlace ==
  ASSUME NEW zz, NEW rr, NEW c \in Seq(Frame), NEW q \in Nat, rr.at \in TakingAt, rr.file # None,
         zz.at # "init", q <= Size[Outbound[zz.idx]], Replies(zz, rr, c)
  PROVE  Replies(zz, rr, c \o <<Hdr("ZRPOS", q)>>)
<1> DEFINE p == Size[Outbound[zz.idx]]
           s == <<Hdr("ZRPOS", q)>>
<1>0. /\ Hdr("ZRPOS", q) \in Frame /\ Hdr("ZRPOS", q).type = "ZRPOS"
      /\ Hdr("ZRPOS", q).pos = q
  BY FrameTypes DEF Headers
<1>1. s \in Seq(Frame) /\ \A i \in DOMAIN s : s[i].type = "ZRPOS" /\ s[i].pos = q BY <1>0
<1> HIDE DEF s
<1>2. /\ ~Has(s, {"ZRINIT"}) /\ ~Has(s, {"ZSKIP"}) /\ AsksWithin(s, p)
      /\ Before(s, {"ZRPOS"}, {"ZRINIT"}) /\ Before(s, {"ZRINIT"}, {"ZRPOS"})
  BY <1>1 DEF Has, Before, AsksWithin
<1>3. /\ ~Has(c, {"ZRINIT"}) => ~Has(c \o s, {"ZRINIT"})
      /\ ~Has(c, {"ZSKIP"}) => ~Has(c \o s, {"ZSKIP"})
      /\ Before(c, {"ZRPOS"}, {"ZRINIT"}) => Before(c \o s, {"ZRPOS"}, {"ZRINIT"})
      /\ ~Has(c, {"ZRINIT"}) /\ Before(c, {"ZRINIT"}, {"ZRPOS"})
           => Before(c \o s, {"ZRINIT"}, {"ZRPOS"})
      /\ AsksWithin(c, p) => AsksWithin(c \o s, p)
  <2> HIDE DEF p
  <2> QED BY <1>1, <1>2, JoinedKeeps
<1>4. rr.at \notin SeekingAt BY DEF SeekingAt, TakingAt
<1> QED BY <1>3, <1>4 DEF Replies, s

\* The receiver refuses what the sender asks it to take.
LEMMA RepliesSkip ==
  ASSUME NEW zz, NEW rr, NEW c \in Seq(Frame), rr.at \in SeekingAt, rr.file = None,
         zz.at \in AskingAt \cup Ended, Replies(zz, rr, c)
  PROVE  Replies(zz, rr, c \o <<Hdr("ZSKIP", 0)>>)
<1> DEFINE p == Size[Outbound[zz.idx]]
           s == <<Hdr("ZSKIP", 0)>>
<1>0. Hdr("ZSKIP", 0) \in Frame /\ Hdr("ZSKIP", 0).type = "ZSKIP"
  BY FrameTypes DEF Headers
<1>1. s \in Seq(Frame) /\ \A i \in DOMAIN s : s[i].type = "ZSKIP" BY <1>0
<1> HIDE DEF s
<1>2. /\ ~Has(s, {"ZRPOS"}) /\ AsksWithin(s, p) /\ Before(s, {"ZRPOS"}, {"ZRINIT"})
      /\ ~Has(s, {"ZRINIT"})
  BY <1>1 DEF Has, Before, AsksWithin
<1>3. /\ ~Has(c, {"ZRPOS"}) => ~Has(c \o s, {"ZRPOS"})
      /\ Before(c, {"ZRPOS"}, {"ZRINIT"}) => Before(c \o s, {"ZRPOS"}, {"ZRINIT"})
      /\ AsksWithin(c, p) => AsksWithin(c \o s, p)
  <2> HIDE DEF p
  <2> QED BY <1>1, <1>2, JoinedKeeps
<1>4. zz.at # "init" /\ zz.at \notin SendingAt /\ (zz.at \notin Ended => zz.at \in AskingAt)
  BY DEF AskingAt, SendingAt, Ended
<1> QED BY <1>3, <1>4 DEF Replies, s

\* The sender goes on with its file, or gives up.
LEMMA RepliesPhase ==
  ASSUME NEW zz, NEW yy, NEW rr, NEW c, Replies(zz, rr, c), yy.idx = zz.idx,
         yy.at \in AskingAt => zz.at \in AskingAt,
         yy.at \in SendingAt => zz.at \in SendingAt,
         yy.at = "init" => zz.at = "init",
         yy.at \notin Ended => zz.at \notin Ended /\ (zz.at \in AskingAt => yy.at \in AskingAt)
  PROVE  Replies(yy, rr, c)
BY DEF Replies

\* The sender begins to send where it has been told to.
LEMMA RepliesBegin ==
  ASSUME NEW zz, NEW yy, NEW rr, NEW c, Replies(zz, rr, c), zz.at \in AskingAt, yy.idx = zz.idx,
         yy.at = "more", ~Has(c, {"ZRINIT"}), ~Has(c, {"ZSKIP"})
  PROVE  Replies(yy, rr, c)
<1>1. Before(c, {"ZRINIT"}, {"ZRPOS"}) BY DEF Before, Has
<1>2. yy.at \notin AskingAt /\ yy.at # "init" BY DEF AskingAt
<1> QED BY <1>1, <1>2 DEF Replies

\* The sender offers a file while no answer to the last is on its way.
LEMMA RepliesOffer ==
  ASSUME NEW yy, NEW rr, NEW c, ~Has(c, {"ZRPOS"}), ~Has(c, {"ZSKIP"}),
         yy.at \notin SendingAt, yy.at # "init"
  PROVE  Replies(yy, rr, c)
<1>1. \A p : AsksWithin(c, p) BY DEF Has, AsksWithin
<1>2. Before(c, {"ZRPOS"}, {"ZRINIT"}) BY DEF Has, Before
<1> QED BY <1>1, <1>2 DEF Replies

\* The receiver gives up or is done.
LEMMA RepliesLeft ==
  ASSUME NEW zz, NEW rr, NEW qq, NEW c, Replies(zz, rr, c), qq.file = None, qq.at \notin SeekingAt
  PROVE  Replies(zz, qq, c)
BY DEF Replies

\* The receiver goes on looking, or goes on with its file.
LEMMA RepliesStay ==
  ASSUME NEW zz, NEW rr, NEW qq, NEW c, Replies(zz, rr, c), qq.file = rr.file,
         qq.at \in SeekingAt => rr.at \in SeekingAt
  PROVE  Replies(zz, qq, c)
BY DEF Replies

\* The receiver opens a file it has not refused before.
LEMMA RepliesAccept ==
  ASSUME NEW zz, NEW rr, NEW qq, NEW c, Replies(zz, rr, c), qq.at \notin SeekingAt,
         zz.at \notin SendingAt, ~Has(c, {"ZSKIP"})
  PROVE  Replies(zz, qq, c)
BY DEF Replies

\* The receiver has filed what it had open.
LEMMA RepliesFiled ==
  ASSUME NEW zz, NEW rr, NEW qq, NEW c, Replies(zz, rr, c), rr.file # None, qq.file = None,
         zz.at \notin AskingAt, zz.at # "init"
  PROVE  Replies(zz, qq, c)
BY DEF Replies

-----------------------------------------------------------------------------
(* Data without positions                                                    *)

\* A beginning of file f
Begins(d, f) == Len(d) <= Size[f] /\ \A k \in DOMAIN d : d[k] = Unit(f, k)

\* A frame after which only data makes sense, and the position that data has
Leads(e)    == e.type = "ZDATA" \/ (e.type = "SUB" /\ e.end = "ZCRCG")
EndOf(e, p) == IF e.type = "SUB" THEN p + Len(e.data) ELSE p

\* What frame e at position p of file f carries is of the file and of that position.
Carries(e, p, f) ==
  /\ e.type = "ZDATA" => p = e.pos
  /\ e.type = "SUB" => \A k \in DOMAIN e.data : e.data[k] = Unit(f, p + k) /\ p + k <= Size[f]

Goes(e, p, at) == e.type \in {"SUB", "BAD", "CAN"} /\ (e.type = "SUB" => p = at)

Chained(c, P, f) ==
  /\ \A i \in DOMAIN c : Carries(c[i], P[i], f)
  /\ \A i \in DOMAIN c : i + 1 \in DOMAIN c /\ Leads(c[i])
                           => Goes(c[i + 1], P[i + 1], EndOf(c[i], P[i]))

\* A receiver that takes data finds what follows what it has.
First(rr, c, P) == rr.at = "data" /\ c # <<>> => Goes(c[1], P[1], Len(rr.data))

Placed(rr, c, P) == P \in [DOMAIN c -> Nat] /\ Chained(c, P, rr.file) /\ First(rr, c, P)

\* Frame e can be given position q after c.
CanFollow(rr, c, P, e, q) ==
  /\ Carries(e, q, rr.file)
  /\ c # <<>> /\ Leads(c[Len(c)]) => Goes(e, q, EndOf(c[Len(c)], P[Len(c)]))
  /\ c = <<>> /\ rr.at = "data" => Goes(e, q, Len(rr.data))

EndsAt(c, P, q) == P[Len(c)] = q

\* Where data may follow, it is the sender's next.
Tip(zz, rr, c, P) ==
  /\ c # <<>> /\ Leads(c[Len(c)]) => zz.at = "data" /\ zz.pos = EndOf(c[Len(c)], P[Len(c)])
  /\ c = <<>> /\ rr.at = "data" => zz.at = "data" /\ zz.pos = Len(rr.data)

\* Positions can be given to all frames on their way to a receiver with a file open.
Chain(zz, rr, c, uu) ==
  rr.file # None =>
    \E P : Placed(rr, c, P) /\ (uu => Tip(zz, rr, c, P))

LEMMA NoDataChain ==
  ASSUME NEW zz, NEW rr, NEW c \in Seq(Frame), NEW uu, ~Has(c, DataT), rr.at # "data"
  PROVE  Chain(zz, rr, c, uu)
<1> DEFINE P == [i \in DOMAIN c |-> 0]
<1>1. P \in [DOMAIN c -> Nat] OBVIOUS
<1>2. \A i \in DOMAIN c : c[i].type # "ZDATA" /\ c[i].type # "SUB" BY DEF Has, DataT
<1>3. c # <<>> => Len(c) \in DOMAIN c OBVIOUS
<1> HIDE DEF P
<1>4. Chained(c, P, rr.file) BY <1>2 DEF Chained, Carries, Leads
<1>5. First(rr, c, P) /\ Tip(zz, rr, c, P) BY <1>2, <1>3 DEF First, Tip, Leads
<1> QED BY <1>1, <1>4, <1>5 DEF Chain, Placed

\* Nothing may follow: the sender is not at work on a block, or the line is gone.
LEMMA ChainPhase ==
  ASSUME NEW zz, NEW yy, NEW rr, NEW c, NEW uu, NEW vv, Chain(zz, rr, c, uu),
         zz.at # "data" \/ ~vv, vv => uu
  PROVE  Chain(yy, rr, c, vv)
BY DEF Chain, Tip

\* The receiver goes on with its file, but not with a block.
LEMMA ChainStay ==
  ASSUME NEW zz, NEW rr, NEW qq, NEW c, NEW uu, Chain(zz, rr, c, uu),
         qq.at # "data", qq.file = rr.file
  PROVE  Chain(zz, qq, c, uu)
BY DEF Chain, Placed, First, Tip

SamePlaces(d, Q, P) == \A i \in DOMAIN d : Q[i] = P[i]

LEMMA ChainPart ==
  ASSUME NEW rr, NEW c \in Seq(Frame), NEW d, Window(d, c, 0), NEW P, Placed(rr, c, P)
  PROVE  \E Q : Placed(rr, d, Q) /\ SamePlaces(d, Q, P)
<1> USE DEF Placed, SamePlaces
<1> DEFINE Q == [i \in DOMAIN d |-> P[i]]
<1>1. /\ d \in Seq(Frame) /\ DOMAIN d = 1 .. Len(d) /\ DOMAIN c = 1 .. Len(c)
      /\ Len(d) \in Nat /\ Len(c) \in Nat /\ Len(d) <= Len(c)
      /\ \A i \in DOMAIN d : i \in DOMAIN c /\ (d[i] = c[i] \/ d[i] = Bad)
  BY DEF Window
<1>2. Q \in [DOMAIN d -> Nat] /\ \A i \in DOMAIN d : Q[i] = P[i] BY <1>1
<1> HIDE DEF Q
<1>3. Bad.type = "BAD" BY DEF Bad
<1>4. \A i \in DOMAIN d : Carries(d[i], Q[i], rr.file)
  BY <1>1, <1>2, <1>3 DEF Chained, Carries
<1>5. ASSUME NEW i \in DOMAIN d, i + 1 \in DOMAIN d, Leads(d[i])
      PROVE  Goes(d[i + 1], Q[i + 1], EndOf(d[i], Q[i]))
  <2>1. d[i] = c[i] BY <1>1, <1>3, <1>5 DEF Leads
  <2>2. Goes(c[i + 1], P[i + 1], EndOf(c[i], P[i])) BY <1>1, <1>5, <2>1 DEF Chained
  <2> QED BY <1>1, <1>2, <1>3, <1>5, <2>1, <2>2 DEF Goes
<1>6. Chained(d, Q, rr.file) BY <1>4, <1>5 DEF Chained
<1>7. d # <<>> => 1 \in DOMAIN d /\ c # <<>> BY <1>1
<1>8. First(rr, d, Q) BY <1>1, <1>2, <1>3, <1>7 DEF First, Goes
<1> QED BY <1>2, <1>6, <1>8

LEMMA ChainAppend ==
  ASSUME NEW rr, NEW c \in Seq(Frame), NEW P, Placed(rr, c, P), NEW e \in Frame, NEW q \in Nat, CanFollow(rr, c, P, e, q),
         NEW d, d = c \o <<e>>
  PROVE  /\ d \in Seq(Frame) /\ d # <<>> /\ d[Len(d)] = e
         /\ \E Q : Placed(rr, d, Q) /\ EndsAt(d, Q, q)
<1> USE DEF Placed, EndsAt, CanFollow
<1> DEFINE n == Len(c) + 1
           Q == [i \in DOMAIN d |-> IF i = n THEN q ELSE P[i]]
<1>1. /\ d \in Seq(Frame) /\ Len(d) = n /\ d[n] = e /\ n \in Nat \ {0} /\ Len(c) \in Nat
      /\ DOMAIN d = 1 .. n /\ DOMAIN c = 1 .. n - 1 /\ Len(c) = n - 1
      /\ \A i \in DOMAIN c : d[i] = c[i]
  OBVIOUS
<1>2. n \in DOMAIN d /\ \A i \in DOMAIN d : i = n \/ i \in DOMAIN c BY <1>1
<1>3. Q \in [DOMAIN d -> Nat] /\ Q[n] = q BY <1>1, <1>2
<1>3a. \A i \in DOMAIN c : i \in DOMAIN d /\ i # n BY <1>1
<1>3b. \A i \in DOMAIN c : Q[i] = P[i] BY <1>3a
<1> HIDE DEF Q, n
<1>4. \A i \in DOMAIN d : Carries(d[i], Q[i], rr.file)
  BY <1>1, <1>2, <1>3, <1>3b DEF Chained
<1>5. ASSUME NEW i \in DOMAIN d, i + 1 \in DOMAIN d, Leads(d[i])
      PROVE  Goes(d[i + 1], Q[i + 1], EndOf(d[i], Q[i]))
  <2>1. i \in DOMAIN c BY <1>1, <1>5
  <2>2. CASE i + 1 \in DOMAIN c BY <1>1, <1>3b, <1>5, <2>1, <2>2 DEF Chained
  <2>3. CASE i + 1 = n
    <3>1. c # <<>> /\ Len(c) = i BY <1>1, <2>1, <2>3
    <3> QED BY <1>1, <1>3, <1>3b, <1>5, <2>1, <2>3, <3>1
  <2> QED BY <1>2, <1>5, <2>2, <2>3
<1>6. Chained(d, Q, rr.file) BY <1>4, <1>5 DEF Chained
<1>7. First(rr, d, Q)
  <2>1. CASE c = <<>>
    <3>1. n = 1 BY <1>1, <2>1
    <3> QED BY <1>1, <1>3, <2>1, <3>1 DEF First
  <2>2. CASE c # <<>>
    <3>1. 1 \in DOMAIN c BY <2>2
    <3> QED BY <1>1, <1>3b, <2>2, <3>1 DEF First
  <2> QED BY <2>1, <2>2
<1>8. d # <<>> BY <1>1
<1> QED BY <1>1, <1>3, <1>6, <1>7, <1>8

LEMMA EmptyPositions ==
  ASSUME NEW rr, NEW c, NEW uu, NEW zz, rr.file = None
  PROVE  Chain(zz, rr, c, uu)
BY DEF Chain

\* A frame that carries no data, when nothing may follow
LEMMA ChainNeutral ==
  ASSUME NEW zz, NEW yy, NEW rr, NEW c \in Seq(Frame), Chain(zz, rr, c, TRUE), zz.at # "data",
         NEW e \in Frame, e.type \notin {"ZDATA", "SUB"}
  PROVE  Chain(yy, rr, c \o <<e>>, TRUE)
<1> SUFFICES ASSUME rr.file # None PROVE Chain(yy, rr, c \o <<e>>, TRUE)
  BY EmptyPositions
<1> DEFINE d == c \o <<e>>
<1>1. PICK P : Placed(rr, c, P) /\ Tip(zz, rr, c, P)
  BY DEF Chain
<1>0. 0 \in Nat /\ d = c \o <<e>> OBVIOUS
<1> HIDE DEF d
<1>2. Carries(e, 0, rr.file) BY DEF Carries
<1>3. /\ c # <<>> => ~Leads(c[Len(c)])
      /\ c = <<>> => rr.at # "data"
  BY <1>1 DEF Tip
<1>3a. CanFollow(rr, c, P, e, 0) BY <1>2, <1>3 DEF CanFollow
<1>3b. Placed(rr, c, P) BY <1>1
<1>4a. \E Q : Placed(rr, d, Q) /\ EndsAt(d, Q, 0)
  BY <1>0, <1>3b, <1>3a, ChainAppend, Zenon
<1>4. /\ d \in Seq(Frame) /\ d # <<>> /\ d[Len(d)] = e
  BY <1>0, <1>3b, <1>3a, ChainAppend
<1>5. \A Q : Tip(yy, rr, d, Q) BY <1>4 DEF Tip, Leads
<1> QED BY <1>4a, <1>5 DEF Chain, d

\* Part of what was on its way is discarded, and the frame ended or the batch aborted.
LEMMA ChainCut ==
  ASSUME NEW zz, NEW yy, NEW rr, NEW c \in Seq(Frame), NEW uu, NEW vv, Chain(zz, rr, c, uu),
         NEW d, Window(d, c, 0), NEW e \in {Can, Sub(<<>>, "ZCRCE")}, rr.data \in Seq(Units)
  PROVE  Chain(yy, rr, d \o <<e>>, vv)
<1> SUFFICES ASSUME rr.file # None PROVE Chain(yy, rr, d \o <<e>>, vv)
  BY EmptyPositions
<1>1. PICK P : Placed(rr, c, P)
  BY DEF Chain
<1>2. d \in Seq(Frame) BY DEF Window
<1>3. PICK Q : Placed(rr, d, Q)
  BY <1>1, ChainPart
<1> DEFINE end == d[Len(d)]
           q == IF d = <<>> THEN Len(rr.data)
                ELSE IF end.type = "SUB" THEN Q[Len(d)] + Len(end.data) ELSE Q[Len(d)]
<1>4. e \in Frame /\ ~Leads(e) /\ e.type \in {"SUB", "CAN"} /\ (e.type = "SUB" => e.data = <<>>)
  <2>1. <<>> \in Seq(Units) /\ "ZCRCE" \in {"ZCRCG", "ZCRCE"} OBVIOUS
  <2> DEFINE last == Sub(<<>>, "ZCRCE")
  <2>2. last \in Frame /\ last.type = "SUB" /\ last.data = <<>> /\ last.end = "ZCRCE"
    BY <2>1, SubType
  <2> HIDE DEF last
  <2>3. CASE e = last BY <2>2, <2>3 DEF Leads
  <2>4. CASE e = Can BY <2>4, FrameTypes DEF Leads
  <2> QED BY <2>3, <2>4 DEF last
<1>5. q \in Nat
  <2>1. d # <<>> => Q[Len(d)] \in Nat /\ end \in Frame BY <1>2, <1>3 DEF Placed
  <2>2. d # <<>> /\ end.type = "SUB" => Len(end.data) \in Nat
    <3> HIDE DEF end
    <3>1. d # <<>> /\ end.type = "SUB" => end.data \in Seq(Units) BY <2>1, FrameTypes
    <3> QED BY <3>1
  <2>3. Len(rr.data) \in Nat OBVIOUS
  <2> HIDE DEF end
  <2> QED BY <2>1, <2>2, <2>3
<1>6. /\ d # <<>> => Goes(e, q, EndOf(end, Q[Len(d)]))
      /\ d = <<>> => Goes(e, q, Len(rr.data))
  BY <1>4 DEF Goes, EndOf
<1>7. Carries(e, q, rr.file) BY <1>4 DEF Carries
<1>6a. CanFollow(rr, d, Q, e, q) BY <1>6, <1>7 DEF CanFollow
<1> HIDE DEF q
<1> DEFINE g == d \o <<e>>
<1>7a. g = d \o <<e>> OBVIOUS
<1> HIDE DEF g, end
<1>7b. e \in Frame BY <1>4
<1>8a. \E R : Placed(rr, g, R) /\ EndsAt(g, R, q)
  BY <1>2, <1>3, <1>7b, <1>5, <1>6a, <1>7a, ChainAppend, Zenon
<1>8. g # <<>> /\ g[Len(g)] = e
  BY <1>2, <1>3, <1>7b, <1>5, <1>6a, <1>7a, ChainAppend
<1>9. \A R : Tip(yy, rr, g, R) BY <1>4, <1>8 DEF Tip
<1> QED BY <1>8a, <1>9 DEF Chain, g

\* Without a carrier nothing follows what is left.
LEMMA ChainOffline ==
  ASSUME NEW zz, NEW yy, NEW rr, NEW c \in Seq(Frame), NEW uu, Chain(zz, rr, c, uu),
         NEW d, Window(d, c, 0)
  PROVE  Chain(yy, rr, d, FALSE)
<1> SUFFICES ASSUME rr.file # None PROVE Chain(yy, rr, d, FALSE)
  BY EmptyPositions
<1>1. PICK P : Placed(rr, c, P)
  BY DEF Chain
<1>2. PICK Q : Placed(rr, d, Q)
  BY <1>1, ChainPart
<1> QED BY <1>2 DEF Chain

LEMMA ChainAfter ==
  ASSUME NEW yy, NEW rr, NEW b \in Seq(Frame), NEW Q, Placed(rr, b, Q), NEW p \in Nat,
         NEW e \in Frame, e.type = "SUB", CanFollow(rr, b, Q, e, p),
         yy.pos = p + Len(e.data), e.end = "ZCRCG" => yy.at = "data"
  PROVE  Chain(yy, rr, b \o <<e>>, TRUE)
<1> DEFINE d == b \o <<e>>
<1>1. d = b \o <<e>> OBVIOUS
<1> HIDE DEF d
<1>2. PICK R : Placed(rr, d, R) /\ EndsAt(d, R, p) BY <1>1, ChainAppend, Zenon
<1>3. d # <<>> /\ d[Len(d)] = e BY <1>1, ChainAppend
<1>4. Tip(yy, rr, d, R) BY <1>2, <1>3 DEF Tip, Leads, EndOf, EndsAt
<1> QED BY <1>2, <1>4 DEF Chain, d

\* The next block of a file
LEMMA ChainBlock ==
  ASSUME NEW zz, NEW yy, NEW rr, NEW c \in Seq(Frame), Chain(zz, rr, c, TRUE),
         zz.at = "data", zz.pos \in Nat, NEW e \in Frame, e.type = "SUB",
         Carries(e, zz.pos, rr.file), yy.pos = zz.pos + Len(e.data),
         e.end = "ZCRCG" => yy.at = "data"
  PROVE  Chain(yy, rr, c \o <<e>>, TRUE)
<1> SUFFICES ASSUME rr.file # None PROVE Chain(yy, rr, c \o <<e>>, TRUE)
  BY EmptyPositions
<1> DEFINE p == zz.pos
<1>1. PICK P : Placed(rr, c, P) /\ Tip(zz, rr, c, P) BY DEF Chain
<1>2. CanFollow(rr, c, P, e, p) BY <1>1 DEF Tip, CanFollow, Goes
<1>3. p \in Nat /\ yy.pos = p + Len(e.data) OBVIOUS
<1> HIDE DEF p
<1> QED BY <1>1, <1>2, <1>3, ChainAfter

\* The first block after a header
LEMMA ChainBegin ==
  ASSUME NEW zz, NEW yy, NEW rr, NEW c \in Seq(Frame), Chain(zz, rr, c, TRUE),
         zz.at = "more", zz.pos \in Nat, NEW e \in Frame, e.type = "SUB",
         Carries(e, zz.pos, rr.file), yy.pos = zz.pos + Len(e.data),
         e.end = "ZCRCG" => yy.at = "data"
  PROVE  Chain(yy, rr, c \o <<Hdr("ZDATA", zz.pos), e>>, TRUE)
<1> DEFINE p == zz.pos
           h == Hdr("ZDATA", p)
           b == c \o <<h>>
<1> SUFFICES ASSUME rr.file # None PROVE Chain(yy, rr, c \o <<h, e>>, TRUE)
  BY EmptyPositions
<1>1. PICK P : Placed(rr, c, P) /\ Tip(zz, rr, c, P) BY DEF Chain
<1>2. h \in Frame /\ h.type = "ZDATA" /\ h.pos = p BY FrameTypes DEF Headers
<1>3. p \in Nat /\ yy.pos = p + Len(e.data) /\ b = c \o <<h>> OBVIOUS
<1> HIDE DEF h
<1>4. CanFollow(rr, c, P, h, p) BY <1>1, <1>2 DEF Tip, CanFollow, Carries
<1>5. c \o <<h, e>> = b \o <<e>> BY <1>2
<1>6. Carries(e, p, rr.file) OBVIOUS
<1> HIDE DEF b, p
<1>7. Placed(rr, c, P) BY <1>1
<1>7a. h \in Frame /\ p \in Nat /\ b = c \o <<h>> BY <1>2, <1>3
<1>7b. \E Q : Placed(rr, b, Q) /\ EndsAt(b, Q, p) BY <1>4, <1>7, <1>7a, ChainAppend, Zenon
<1>8. PICK Q : Placed(rr, b, Q) /\ EndsAt(b, Q, p) BY <1>7b
<1>9. b \in Seq(Frame) /\ b # <<>> /\ b[Len(b)] = h
  BY <1>2, <1>3, <1>4, <1>7, ChainAppend
<1>10. CanFollow(rr, b, Q, e, p)
  BY <1>2, <1>6, <1>8, <1>9 DEF CanFollow, Goes, EndOf, EndsAt
<1>11. Chain(yy, rr, b \o <<e>>, TRUE)
  BY <1>3, <1>8, <1>9, <1>10, ChainAfter
<1> QED BY <1>5, <1>11

LEMMA ChainTail ==
  ASSUME NEW zz, NEW rr, NEW qq, NEW c \in Seq(Frame), c # <<>>, NEW P, Placed(rr, c, P),
         qq.file = rr.file,
         qq.at = "data" => Leads(c[1]) /\ EndOf(c[1], P[1]) = Len(qq.data)
  PROVE  /\ \E Q : /\ Placed(qq, Tail(c), Q)
                   /\ Tip(zz, rr, c, P) => Tip(zz, qq, Tail(c), Q)
<1> DEFINE d == Tail(c)
           Q == [i \in DOMAIN d |-> P[i + 1]]
<1> USE DEF Placed
<1>1. /\ d \in Seq(Frame) /\ Len(d) = Len(c) - 1 /\ Len(c) \in Nat \ {0}
      /\ DOMAIN d = 1 .. Len(c) - 1 /\ DOMAIN c = 1 .. Len(c)
      /\ \A i \in 1 .. Len(c) - 1 : d[i] = c[i + 1]
  OBVIOUS
<1> HIDE DEF d
<1>2. \A i \in DOMAIN d : i + 1 \in DOMAIN c /\ d[i] = c[i + 1] /\ i \in DOMAIN c BY <1>1
<1>3. Q \in [DOMAIN d -> Nat] /\ \A i \in DOMAIN d : Q[i] = P[i + 1] BY <1>2
<1> HIDE DEF Q
<1>4. \A i \in DOMAIN d : Carries(d[i], Q[i], rr.file) BY <1>2, <1>3 DEF Chained
<1>5. ASSUME NEW i \in DOMAIN d, i + 1 \in DOMAIN d, Leads(d[i])
      PROVE  Goes(d[i + 1], Q[i + 1], EndOf(d[i], Q[i]))
  <2>1. Goes(c[(i + 1) + 1], P[(i + 1) + 1], EndOf(c[i + 1], P[i + 1]))
    BY <1>2, <1>5 DEF Chained
  <2> QED BY <1>2, <1>3, <1>5, <2>1
<1>6. Chained(d, Q, qq.file) BY <1>4, <1>5 DEF Chained
<1>7. First(qq, d, Q)
  <2> SUFFICES ASSUME qq.at = "data", d # <<>> PROVE Goes(d[1], Q[1], Len(qq.data)) BY DEF First
  <2>1. 1 \in DOMAIN d BY <1>1
  <2>2. Goes(c[1 + 1], P[1 + 1], EndOf(c[1], P[1])) BY <1>2, <2>1 DEF Chained
  <2> QED BY <1>2, <1>3, <2>1, <2>2
<1>8. ASSUME Tip(zz, rr, c, P) PROVE Tip(zz, qq, d, Q)
  <2>1. CASE d # <<>>
    <3>1. Len(d) \in DOMAIN d /\ Len(d) + 1 = Len(c) BY <1>1, <2>1
    <3>2. d[Len(d)] = c[Len(c)] /\ Q[Len(d)] = P[Len(c)] BY <1>2, <1>3, <3>1
    <3> QED BY <1>8, <2>1, <3>2 DEF Tip
  <2>2. CASE d = <<>>
    <3>1. Len(c) = 1 BY <1>1, <2>2
    <3> QED BY <1>8, <2>2, <3>1 DEF Tip
  <2> QED BY <2>1, <2>2
<1>9. Placed(qq, d, Q) BY <1>3, <1>6, <1>7
<1> QED BY <1>8, <1>9 DEF d

\* The receiver reads a frame and does not go on with a block.
LEMMA ChainRead ==
  ASSUME NEW zz, NEW rr, NEW qq, NEW c \in Seq(Frame), NEW uu, c # <<>>, Chain(zz, rr, c, uu),
         qq.file = rr.file, qq.at # "data"
  PROVE  Chain(zz, qq, Tail(c), uu)
<1> SUFFICES ASSUME rr.file # None PROVE Chain(zz, qq, Tail(c), uu)
  BY DEF Chain
<1>1. PICK P : Placed(rr, c, P) /\ (uu => Tip(zz, rr, c, P)) BY DEF Chain
<1>2. Placed(rr, c, P) BY <1>1
<1>3. PICK Q : Placed(qq, Tail(c), Q) /\ (Tip(zz, rr, c, P) => Tip(zz, qq, Tail(c), Q))
  BY <1>2, ChainTail, Zenon
<1> QED BY <1>1, <1>3 DEF Chain

\* The receiver reads the header of its data.
LEMMA ChainEnter ==
  ASSUME NEW zz, NEW rr, NEW qq, NEW c \in Seq(Frame), NEW uu, c # <<>>, Chain(zz, rr, c, uu),
         qq.file = rr.file, qq.data = rr.data, c[1].type = "ZDATA", c[1].pos = Len(rr.data)
  PROVE  Chain(zz, qq, Tail(c), uu)
<1> SUFFICES ASSUME rr.file # None PROVE Chain(zz, qq, Tail(c), uu)
  BY DEF Chain
<1>1. PICK P : Placed(rr, c, P) /\ (uu => Tip(zz, rr, c, P)) BY DEF Chain
<1>2. 1 \in DOMAIN c OBVIOUS
<1>3. Leads(c[1]) /\ EndOf(c[1], P[1]) = Len(qq.data)
  BY <1>1, <1>2 DEF Placed, Chained, Carries, Leads, EndOf
<1>4. Placed(rr, c, P) BY <1>1
<1>5. PICK Q : Placed(qq, Tail(c), Q) /\ (Tip(zz, rr, c, P) => Tip(zz, qq, Tail(c), Q))
  BY <1>3, <1>4, ChainTail, Zenon
<1> QED BY <1>1, <1>5 DEF Chain

\* The receiver reads a block: it is the one that follows what it has.
LEMMA ChainData ==
  ASSUME NEW zz, NEW rr, NEW qq, NEW c \in Seq(Frame), NEW uu, c # <<>>, Chain(zz, rr, c, uu),
         rr.file # None, rr.at = "data", rr.data \in Seq(Units), Begins(rr.data, rr.file),
         Size[rr.file] \in Nat, c[1].type = "SUB",
         qq.file = rr.file, qq.data = rr.data \o c[1].data,
         qq.at = "data" => c[1].end = "ZCRCG"
  PROVE  Chain(zz, qq, Tail(c), uu) /\ Begins(qq.data, rr.file) /\ qq.data \in Seq(Units)
<1>1. PICK P : Placed(rr, c, P) /\ (uu => Tip(zz, rr, c, P)) BY DEF Chain
<1>2. 1 \in DOMAIN c /\ c[1] \in Frame OBVIOUS
<1> DEFINE e == c[1]
           s == e.data
           n == Len(rr.data)
           f == rr.file
<1>3. s \in Seq(Units) BY <1>2, FrameTypes
<1>4. P[1] = n /\ Carries(e, n, f)
  BY <1>1, <1>2 DEF Placed, Chained, First, Goes
<1>5. \A k \in DOMAIN s : s[k] = Unit(f, n + k) /\ n + k <= Size[f] BY <1>4 DEF Carries
<1> HIDE DEF s
<1>6. /\ qq.data \in Seq(Units) /\ Len(qq.data) = n + Len(s) /\ n \in Nat /\ Len(s) \in Nat
      /\ \A k \in 1 .. n : qq.data[k] = rr.data[k]
      /\ \A k \in 1 .. Len(s) : qq.data[n + k] = s[k]
  <2>1. qq.data = rr.data \o s BY DEF s
  <2> QED BY <1>3, <2>1
<1>7. Begins(qq.data, f)
  <2>0. \A t \in Seq(Units) : DOMAIN t = 1 .. Len(t) OBVIOUS
  <2>1. DOMAIN qq.data = 1 .. n + Len(s) /\ DOMAIN s = 1 .. Len(s) BY <1>3, <1>6, <2>0
  <2>2. Len(qq.data) <= Size[f]
    <3>1. CASE Len(s) = 0 BY <1>6, <3>1 DEF Begins
    <3>2. CASE Len(s) # 0
      <4>1. Len(s) \in DOMAIN s BY <1>6, <2>1, <3>2
      <4> QED BY <1>5, <1>6, <4>1
    <3> QED BY <3>1, <3>2
  <2>3. ASSUME NEW k \in DOMAIN qq.data PROVE qq.data[k] = Unit(f, k)
    <3>1. CASE k <= n
      <4>1. k \in 1 .. n /\ k \in DOMAIN rr.data BY <1>6, <2>1, <3>1
      <4> QED BY <1>6, <4>1 DEF Begins
    <3>2. CASE k > n
      <4>1. k - n \in DOMAIN s /\ n + (k - n) = k BY <1>6, <2>1, <3>2
      <4>2. qq.data[n + (k - n)] = s[k - n] BY <1>6, <2>1, <4>1
      <4>3. s[k - n] = Unit(f, n + (k - n)) BY <1>5, <4>1
      <4> QED BY <4>1, <4>2, <4>3
    <3>3. k \in 1 .. n + Len(s) /\ n \in Nat BY <1>6, <2>1
    <3> QED BY <3>1, <3>2, <3>3
  <2> QED BY <2>2, <2>3 DEF Begins
<1>8. qq.at = "data" => Leads(e) /\ EndOf(e, P[1]) = Len(qq.data)
  BY <1>4, <1>6 DEF Leads, EndOf, s
<1>9. Placed(rr, c, P) BY <1>1
<1>10. PICK Q : Placed(qq, Tail(c), Q) /\ (Tip(zz, rr, c, P) => Tip(zz, qq, Tail(c), Q))
  BY <1>8, <1>9, ChainTail, Zenon
<1> QED BY <1>1, <1>6, <1>7, <1>10 DEF Chain

\* A frame is damaged or lost on the way.
LEMMA ChainHit ==
  ASSUME NEW zz, NEW rr, NEW c \in Seq(Frame), NEW uu, c # <<>>, Chain(zz, rr, c, uu),
         NEW d \in Hit(c)
  PROVE  Chain(zz, rr, d, uu)
<1> SUFFICES ASSUME rr.file # None PROVE Chain(zz, rr, d, uu)
  BY EmptyPositions
<1>1. PICK P : Placed(rr, c, P) /\ (uu => Tip(zz, rr, c, P)) BY DEF Chain
<1>2. Placed(rr, c, P) BY <1>1
<1>3. CASE Window(d, c, 0) /\ d = <<Bad>> \o Tail(c) /\ Len(d) = Len(c)
  <2>1. PICK Q : Placed(rr, d, Q) /\ SamePlaces(d, Q, P)
    <3>1. Window(d, c, 0) BY <1>3
    <3> QED BY <1>2, <3>1, ChainPart, Zenon
  <2>2. ASSUME Tip(zz, rr, c, P) PROVE Tip(zz, rr, d, Q)
    <3>1. d \in Seq(Frame) /\ d # <<>> /\ Len(d) \in DOMAIN d BY <1>3 DEF Window
    <3>2. d[Len(d)] = c[Len(c)] \/ d[Len(d)] = Bad BY <1>3, <3>1 DEF Window
    <3>3. ~Leads(Bad) BY DEF Leads, Bad
    <3>4. Q[Len(d)] = P[Len(c)] BY <1>3, <2>1, <3>1 DEF SamePlaces
    <3> QED BY <1>3, <2>2, <3>1, <3>2, <3>3, <3>4 DEF Tip
  <2> QED BY <1>1, <2>1, <2>2 DEF Chain
<1>4. CASE Window(d, c, 1) /\ d = Tail(c) /\ c[1].type \in Headers
  <2>1. rr.at # "data" BY <1>2, <1>4 DEF Placed, First, Goes, Headers
  <2>2. PICK Q : Placed(rr, d, Q) /\ (Tip(zz, rr, c, P) => Tip(zz, rr, d, Q))
    BY <1>2, <1>4, <2>1, ChainTail, Zenon
  <2> QED BY <1>1, <2>2 DEF Chain
<1> QED BY <1>3, <1>4, HitWindow

LEMMA ChainUp ==
  ASSUME NEW zz, NEW rr, NEW c, NEW uu
  PROVE  /\ Chain(zz, rr, c, uu) /\ uu => Chain(zz, rr, c, TRUE)
         /\ Chain(zz, rr, c, TRUE) => Chain(zz, rr, c, uu)
         /\ Chain(zz, rr, c, FALSE) /\ ~uu => Chain(zz, rr, c, uu)
BY DEF Chain

-----------------------------------------------------------------------------
(* The invariant                                                             *)

ArrivedIn(fl, f) == f \in Held \/ \E i \in DOMAIN fl : fl[i] = [name |-> f, data |-> Content(f)]

\* The sender is told that the receiver has a file, or has no room for it, only if so.
Consent(zz, rr, c, fl) ==
  /\ zz.at \in SendingAt /\ (rr.at \in SeekingAt \/ Has(c, {"ZRINIT"}))
       => ArrivedIn(fl, Outbound[zz.idx])
  /\ zz.at \in AskingAt /\ Has(c, {"ZSKIP"})
       => ArrivedIn(fl, Outbound[zz.idx]) \/ Size[Outbound[zz.idx]] > Room

\* The sender does not read past the end of its file, and ends where the file does.
Place(zz) ==
  zz.at \in SendingAt =>
    /\ zz.pos <= Size[Outbound[zz.idx]]
    /\ zz.at \in {"ended", "eof"} => zz.pos = Size[Outbound[zz.idx]]

\* What is there of a file is a beginning of it; what is filed is whole.
Data(rr, pa, fl) ==
  /\ rr.file # None => Begins(rr.data, rr.file)
  /\ \A f \in Files : Begins(pa[f], f)
  /\ \A i \in DOMAIN fl : fl[i].data = Content(fl[i].name)

Unstruck(zz, st) == zz.idx # 0 /\ zz.at \notin Ended => Outbound[zz.idx] \notin st

Inv ==
  /\ TypeInv
  /\ Order(z, r, toRx) /\ Chain(z, r, toRx, up)
  /\ Replies(z, r, toTx) /\ Consent(z, r, toTx, filed)
  /\ Place(z) /\ Data(r, partial, filed) /\ Unstruck(z, struck)

\* A refusal on its way is the only one, and the file is not asked for again.
RefusedOnce ==
  /\ \A i, j \in DOMAIN toTx : toTx[i].type = "ZSKIP" /\ toTx[j].type = "ZSKIP" => i = j
  /\ Has(toTx, {"ZSKIP"}) => ~Has(toRx, NameT)

LEMMA ConsentKeeps ==
  ASSUME NEW zz, NEW yy, NEW rr, NEW qq, NEW c, NEW d, NEW fl, Consent(zz, rr, c, fl),
         yy.idx = zz.idx,
         yy.at \in SendingAt =>
           zz.at \in SendingAt \/ (qq.at \notin SeekingAt /\ ~Has(d, {"ZRINIT"})),
         yy.at \in AskingAt => zz.at \in AskingAt,
         qq.at \in SeekingAt => rr.at \in SeekingAt,
         Has(d, {"ZRINIT"}) => Has(c, {"ZRINIT"}) \/ rr.at \in SeekingAt,
         Has(d, {"ZSKIP"}) => Has(c, {"ZSKIP"})
  PROVE  Consent(yy, qq, d, fl)
BY DEF Consent

LEMMA ConsentOffer ==
  ASSUME NEW yy, NEW rr, NEW d, NEW fl, yy.at \notin SendingAt, ~Has(d, {"ZSKIP"})
  PROVE  Consent(yy, rr, d, fl)
BY DEF Consent

LEMMA ListFacts ==
  /\ \A i \in 1 .. Len(Outbound) : Outbound[i] \in Files /\ Size[Outbound[i]] \in Nat
  /\ \A i, j \in 1 .. Len(Outbound) : Outbound[i] = Outbound[j] => i = j
  /\ \A f \in Files : Size[f] \in Nat \ {0} /\ f # None
  /\ DOMAIN Outbound = 1 .. Len(Outbound) /\ Len(Outbound) \in Nat
BY ZmodemAssumption

LEMMA ContentFacts ==
  ASSUME NEW f \in Files
  PROVE  /\ Content(f) \in Seq(Units) /\ Len(Content(f)) = Size[f]
         /\ \A k \in 1 .. Size[f] : Content(f)[k] = Unit(f, k)
<1>1. Size[f] \in Nat BY ListFacts
<1>2. \A k \in 1 .. Size[f] : Unit(f, k) \in Units BY <1>1 DEF Unit, Units
<1> QED BY <1>1, <1>2 DEF Content

\* A beginning as long as the file is the file; the empty one is a beginning.
LEMMA WholeFile ==
  ASSUME NEW f \in Files
  PROVE  /\ Begins(<<>>, f)
         /\ \A d \in Seq(Units) : Begins(d, f) /\ Len(d) = Size[f] => d = Content(f)
<1>1. Size[f] \in Nat BY ListFacts
<1>2. Begins(<<>>, f) BY <1>1 DEF Begins
<1>3. ASSUME NEW d \in Seq(Units), Begins(d, f), Len(d) = Size[f] PROVE d = Content(f)
  <2>1. Content(f) \in Seq(Units) /\ Len(Content(f)) = Len(d) BY <1>3, ContentFacts
  <2>2. \A k \in 1 .. Len(d) : d[k] = Content(f)[k] BY <1>3, ContentFacts DEF Begins
  <2> DEFINE g == Content(f)
  <2> HIDE DEF g
  <2>3. g \in Seq(Units) /\ Len(g) = Len(d) /\ \A k \in 1 .. Len(d) : d[k] = g[k]
    BY <2>1, <2>2 DEF g
  <2>4. d = g BY <1>3, <2>3
  <2> QED BY <2>4 DEF g
<1> QED BY <1>2, <1>3

\* A block of the sender is of its file and of its place.
LEMMA BlockCarries ==
  ASSUME NEW f \in Files, NEW p \in Nat, NEW n \in Nat, p + n <= Size[f],
         NEW e \in {"ZCRCG", "ZCRCE"}
  PROVE  LET d == SubSeq(Content(f), p + 1, p + n)
         IN  d \in Seq(Units) /\ Len(d) = n /\ Carries(Sub(d, e), p, f)
<1> DEFINE g == Content(f)
           d == SubSeq(g, p + 1, p + n)
<1>1. g \in Seq(Units) /\ Len(g) = Size[f] /\ \A k \in 1 .. Size[f] : g[k] = Unit(f, k)
  BY ContentFacts
<1>1a. Size[f] \in Nat BY ListFacts
<1> HIDE DEF g
<1>2. d \in Seq(Units) /\ Len(d) = n BY <1>1, <1>1a
<1>3. \A k \in DOMAIN d : d[k] = g[p + k] /\ p + k \in 1 .. Size[f] BY <1>1, <1>1a, <1>2
<1>4. \A k \in DOMAIN d : d[k] = Unit(f, p + k) /\ p + k <= Size[f] BY <1>1, <1>1a, <1>3
<1> HIDE DEF d
<1>5. Carries(Sub(d, e), p, f) BY <1>2, <1>4, SubType DEF Carries
<1> QED BY <1>2, <1>5 DEF d, g

LEMMA NextEntryFacts ==
  ASSUME NEW i \in 0 .. Len(Outbound), NEW s
  PROVE  /\ NextEntry(i, s) \in 0 .. Len(Outbound)
         /\ NextEntry(i, s) # 0 => NextEntry(i, s) > i /\ Outbound[NextEntry(i, s)] \notin s
<1> DEFINE left == {j \in DOMAIN Outbound : j > i /\ Outbound[j] \notin s}
<1>1. left \subseteq 1 .. Len(Outbound) /\ Len(Outbound) \in Nat BY ListFacts
<1>2. CASE left = {} BY <1>1, <1>2 DEF NextEntry
<1>3. CASE left # {}
  <2>1. \E j \in left : \A k \in left : j <= k
    <3>1. left \subseteq Nat BY <1>1
    <3> HIDE DEF left
    <3>2. PICK x \in left : \A y \in left : <<y, x>> \notin OpToRel(<, Nat)
      BY <1>3, <3>1, WFMin, NatLessThanWellFounded, Zenon
    <3>3. \A y \in left : ~(y < x) BY <3>1, <3>2, Zenon DEF OpToRel
    <3> QED BY <3>1, <3>3
  <2>2. NextEntry(i, s) = CHOOSE j \in left : \A k \in left : j <= k
    BY <1>3 DEF NextEntry
  <2>3. NextEntry(i, s) \in left BY <2>1, <2>2
  <2> QED BY <1>1, <2>3
<1> QED BY <1>2, <1>3

-----------------------------------------------------------------------------
(* Steps of the sender                                                       *)

\* A call begins with nothing on its way that says anything of a file.
LEMMA CallBegins ==
  ASSUME NEW s, NEW zz, NEW rr, NEW c, NEW d, zz = Start(s).tx, c = Start(s).out, rr = Idle,
         d = <<Hdr("ZRINIT", 0)>>
  PROVE  /\ SenderOK(zz) /\ ReceiverOK(rr) /\ c \in Seq(Frame) /\ d \in Seq(Frame)
         /\ Order(zz, rr, c) /\ Chain(zz, rr, c, TRUE) /\ Replies(zz, rr, d)
         /\ \A fl : Consent(zz, rr, d, fl)
         /\ Place(zz) /\ Unstruck(zz, s) /\ rr.file = None /\ ~Has(d, {"ZSKIP"})
<1> DEFINE n == NextEntry(0, s)
           h == Hdr("ZRQINIT", 0)
           g == Hdr("ZRINIT", 0)
<1>1. n \in 0 .. Len(Outbound) /\ (n # 0 => Outbound[n] \notin s)
  BY NextEntryFacts, ListFacts
<1>2. /\ h \in Frame /\ h.type = "ZRQINIT"
      /\ g \in Frame /\ g.type = "ZRINIT"
  BY FrameTypes DEF Headers
<1>3. /\ zz = [at |-> "init", idx |-> n, pos |-> 0, last |-> 0, cnt |-> 0, errs |-> Tries - 1]
      /\ c = <<>> \/ c = <<h>>
      /\ d = <<g>>
      /\ rr = [at |-> "init", n |-> Tries - 1, file |-> None, data |-> <<>>]
  BY DEF Start, Idle
<1> HIDE DEF n, h, g
<1>4. Tries \in Nat \ {0} BY ZmodemAssumption
<1>5. SenderOK(zz) BY <1>1, <1>3, <1>4 DEF SenderOK, AskingAt, SendingAt
<1>6. ReceiverOK(rr) BY <1>3, <1>4 DEF ReceiverOK, TakingAt
<1>7. c \in Seq(Frame) /\ d \in Seq(Frame)
  <2>1. <<h>> \in Seq(Frame) /\ <<g>> \in Seq(Frame) /\ <<>> \in Seq(Frame) BY <1>2
  <2>2. d \in Seq(Frame) BY <1>3, <2>1
  <2>3. c \in Seq(Frame) BY <1>3, <2>1
  <2> QED BY <2>2, <2>3
<1>8. \A i \in DOMAIN c : c[i].type = "ZRQINIT" BY <1>2, <1>3
<1>9. \A i \in DOMAIN d : d[i].type = "ZRINIT" BY <1>2, <1>3
<1>10. ~Has(c, NameT \cup DataT) /\ Before(c, NameT, DataT) /\ ~Has(c, {"NAME"})
       /\ NamesAre(c, Outbound[zz.idx])
  BY <1>8 DEF Has, Before, NamesAre, NameT, DataT
<1>11. ~Has(d, {"ZRPOS"}) /\ ~Has(d, {"ZSKIP"}) /\ Before(d, {"ZRPOS"}, {"ZRINIT"})
  BY <1>9 DEF Has, Before
<1>12. Order(zz, rr, c) BY <1>3, <1>10 DEF Order, SendingAt
<1>13. Replies(zz, rr, d) BY <1>3, <1>11 DEF Replies, AskingAt, SendingAt
<1>14. Chain(zz, rr, c, TRUE) BY <1>3 DEF Chain
<1>15. zz.at \notin AskingAt \cup SendingAt BY <1>3 DEF AskingAt, SendingAt
<1>16. (\A fl : Consent(zz, rr, d, fl)) /\ Place(zz) BY <1>15 DEF Consent, Place
<1>17. Unstruck(zz, s) BY <1>1, <1>3 DEF Unstruck
<1>18. rr.file = None BY <1>3
<1> QED
  BY <1>5, <1>6, <1>7, <1>11, <1>12, <1>13, <1>14, <1>16, <1>17, <1>18

LEMMA InitHolds == Init => Inv
<1> SUFFICES ASSUME Init PROVE Inv OBVIOUS
<1>1. /\ z = Start({}).tx /\ toRx = Start({}).out /\ r = Idle /\ toTx = <<Hdr("ZRINIT", 0)>>
      /\ up = TRUE /\ struck = {} /\ gone = {} /\ filed = <<>>
      /\ partial = [f \in Files |-> <<>>]
  BY DEF Init
<1>2. /\ SenderOK(z) /\ ReceiverOK(r) /\ toRx \in Seq(Frame) /\ toTx \in Seq(Frame)
      /\ Order(z, r, toRx) /\ Chain(z, r, toRx, TRUE) /\ Replies(z, r, toTx)
      /\ Consent(z, r, toTx, filed) /\ Place(z) /\ Unstruck(z, {}) /\ r.file = None
  BY <1>1, CallBegins
<1>3. Data(r, partial, filed)
  <2>1. \A f \in Files : Begins(partial[f], f) BY <1>1, WholeFile
  <2> QED BY <1>1, <1>2, <2>1 DEF Data
<1>4. partial \in [Files -> Seq(Units)] /\ filed \in Seq([name : Files, data : Seq(Units)])
  BY <1>1
<1>5. TypeInv BY <1>1, <1>2, <1>4 DEF TypeInv
<1> QED BY <1>1, <1>2, <1>3, <1>5 DEF Inv

\* What a step of the sender has to keep
LEMMA TxStep ==
  ASSUME Inv, UNCHANGED <<r, up, filed, partial>>, SenderOK(z'),
         toRx' \in Seq(Frame), toTx' \in Seq(Frame), struck' \subseteq Files, gone' \subseteq Files,
         Order(z', r, toRx'), Chain(z', r, toRx', up), Replies(z', r, toTx'),
         Consent(z', r, toTx', filed), Place(z'), Unstruck(z', struck')
  PROVE  Inv'
<1>1. TypeInv' BY DEF Inv, TypeInv
<1>2. Order(z, r, toRx)' /\ Chain(z, r, toRx, up)' /\ Replies(z, r, toTx)'
      /\ Consent(z, r, toTx, filed)' /\ Place(z)' /\ Unstruck(z, struck)'
  OBVIOUS
<1>3. Data(r, partial, filed)' BY DEF Inv
<1> QED BY <1>1, <1>2, <1>3 DEF Inv

\* The sender goes on with what it is at, or gives up, and says nothing of a file.
LEMMA TxRest ==
  ASSUME Inv, UNCHANGED <<r, up, filed, partial>>, UNCHANGED <<struck, gone>>,
         SenderOK(z'), z'.idx = z.idx,
         z'.at \in AskingAt => z.at \in AskingAt,
         z'.at \in SendingAt => z.at \in SendingAt,
         z'.at = "init" => z.at = "init",
         z'.at \notin Ended => z.at \notin Ended /\ (z.at \in AskingAt => z'.at \in AskingAt),
         z.at # "data" \/ ~up, Place(z'),
         NEW e \in Frame, e.type \notin NameT \cup DataT,
         toRx' = toRx \/ toRx' = OnLine(toRx, <<e>>),
         NEW o, Window(toTx', toTx, o)
  PROVE  Inv'
<1>1. /\ toRx \in Seq(Frame) /\ toTx \in Seq(Frame) /\ toTx' \in Seq(Frame)
      /\ struck \subseteq Files /\ gone \subseteq Files
      /\ Order(z, r, toRx) /\ Chain(z, r, toRx, up) /\ Replies(z, r, toTx)
      /\ Consent(z, r, toTx, filed) /\ Unstruck(z, struck)
  BY DEF Inv, TypeInv, Window
<1> DEFINE s == <<e>>
<1>2. s \in Seq(Frame) /\ ~Has(s, NameT \cup DataT)
  <2>1. s \in Seq(Frame) /\ \A i \in DOMAIN s : s[i] = e OBVIOUS
  <2> HIDE DEF s
  <2> QED BY <2>1 DEF Has
<1>3. toRx' = toRx \/ (up /\ toRx' = toRx \o s) BY DEF OnLine
<1> HIDE DEF s
<1>4. toRx' \in Seq(Frame) /\ Order(z, r, toRx')
  <2>1. toRx \o s \in Seq(Frame) BY <1>1, <1>2
  <2>2. Order(z, r, toRx \o s) BY <1>1, <1>2, OrderNeutral
  <2> QED BY <1>1, <1>3, <2>1, <2>2
<1>5. Order(z', r, toRx') BY <1>4, OrderPhase
<1>6. Chain(z', r, toRx', up)
  <2>1. CASE toRx' = toRx
    <3>1. Chain(z', r, toRx, up) BY <1>1, ChainPhase
    <3> QED BY <2>1, <3>1
  <2>2. CASE up /\ toRx' = toRx \o s
    <3>1. z.at # "data" /\ Chain(z, r, toRx, TRUE) BY <1>1, <2>2, ChainUp
    <3>2. e.type \notin {"ZDATA", "SUB"} BY DEF DataT
    <3>3. Chain(z', r, toRx \o s, TRUE) BY <1>1, <3>1, <3>2, ChainNeutral DEF s
    <3>4. Chain(z', r, toRx', TRUE) BY <2>2, <3>3
    <3> QED BY <3>4, ChainUp
  <2> QED BY <1>3, <2>1, <2>2
<1>7. Replies(z', r, toTx')
  <2>1. Replies(z, r, toTx') BY <1>1, RepliesWindow
  <2> QED BY <2>1, RepliesPhase
<1>8. Consent(z', r, toTx', filed)
  <2>1. /\ ~Has(toTx, {"ZRINIT"}) => ~Has(toTx', {"ZRINIT"})
        /\ ~Has(toTx, {"ZSKIP"}) => ~Has(toTx', {"ZSKIP"})
    BY <1>1, WindowKeeps
  <2> QED BY <1>1, <2>1, ConsentKeeps
<1>9. Unstruck(z', struck') BY <1>1 DEF Unstruck
<1> QED BY <1>1, <1>4, <1>5, <1>6, <1>7, <1>8, <1>9, TxStep

\* The sender asks for its file again.
LEMMA TxAgain ==
  ASSUME Inv, UNCHANGED <<r, up, filed, partial>>, TxRepeats, z.at \in AskingAt,
         NEW o, Window(toTx', toTx, o)
  PROVE  Inv'
<1>1. /\ toRx \in Seq(Frame) /\ toTx \in Seq(Frame) /\ toTx' \in Seq(Frame) /\ SenderOK(z)
      /\ Order(z, r, toRx) /\ Chain(z, r, toRx, up) /\ Replies(z, r, toTx)
      /\ Consent(z, r, toTx, filed) /\ Unstruck(z, struck) /\ ReceiverOK(r)
      /\ struck \subseteq Files /\ gone \subseteq Files
  BY DEF Inv, TypeInv, Window
<1> DEFINE f == Outbound[z.idx]
           s == <<Hdr("ZFILE", 0), Name(f)>>
<1>2. z.idx \in 1 .. Len(Outbound) /\ f \in Files /\ z.at # "data" /\ z.at \notin SendingAt
  BY <1>1, ListFacts DEF SenderOK, AskingAt, SendingAt
<1>3. /\ z' = [z EXCEPT !.at = "name"] /\ UNCHANGED <<struck, gone>>
      /\ toRx' = toRx \/ (up /\ toRx' = toRx \o s)
  BY DEF TxRepeats, TxKeeps, OnLine, Offered
<1>4. SenderOK(z') /\ z'.at = "name" /\ z'.idx = z.idx
  BY <1>1, <1>2, <1>3 DEF SenderOK, AskingAt, SendingAt
<1>5. z'.at \in AskingAt /\ z'.at \notin SendingAt /\ z'.at \notin Ended /\ z.at \notin Ended
  BY <1>4 DEF AskingAt, SendingAt, Ended
<1>6. /\ Hdr("ZFILE", 0) \in Frame /\ Hdr("ZFILE", 0).type = "ZFILE"
      /\ Name(f) \in Frame /\ Name(f).type = "NAME"
  BY <1>2, FrameTypes DEF Headers
<1>7. toRx' \in Seq(Frame) /\ Order(z, r, toRx')
  <2>1. toRx \o s \in Seq(Frame) BY <1>1, <1>6
  <2>2. Order(z, r, toRx \o s) BY <1>1, <1>2, OrderName
  <2> QED BY <1>1, <1>3, <2>1, <2>2
<1>8. Order(z', r, toRx') BY <1>4, <1>5, <1>7, OrderPhase
<1>9. Chain(z', r, toRx', up)
  <2>1. CASE r.file = None BY <2>1, EmptyPositions
  <2>2. CASE r.file # None
    <3>1. ~Has(toRx', DataT) /\ r.at # "data" BY <1>5, <1>8, <2>2 DEF Order
    <3> QED BY <1>7, <3>1, NoDataChain
  <2> QED BY <2>1, <2>2
<1>10. Replies(z', r, toTx')
  <2>1. Replies(z, r, toTx') BY <1>1, RepliesWindow
  <2> QED BY <1>4, <1>5, <2>1, RepliesPhase
<1>11. Consent(z', r, toTx', filed)
  <2>1. /\ ~Has(toTx, {"ZRINIT"}) => ~Has(toTx', {"ZRINIT"})
        /\ ~Has(toTx, {"ZSKIP"}) => ~Has(toTx', {"ZSKIP"})
    BY <1>1, WindowKeeps
  <2> QED BY <1>1, <1>4, <1>5, <2>1, ConsentKeeps
<1>12. Place(z') /\ Unstruck(z', struck')
  BY <1>1, <1>3, <1>4, <1>5 DEF Place, Unstruck
<1> QED BY <1>1, <1>3, <1>4, <1>7, <1>8, <1>9, <1>10, <1>11, <1>12, TxStep

\* The sender offers the next file when nothing is left of the last.
LEMMA TxOffer ==
  ASSUME Inv, UNCHANGED <<r, up, filed, partial>>, NEW i \in 0 .. Len(Outbound), Offer(i),
         i # 0 => Outbound[i] \notin struck', struck' \subseteq Files, gone' \subseteq Files,
         r.file = None, r.at \in SeekingAt => ~Has(toRx, NameT),
         toTx' \in Seq(Frame), ~Has(toTx', {"ZRPOS"}), ~Has(toTx', {"ZSKIP"})
  PROVE  Inv'
<1>1. /\ toRx \in Seq(Frame) /\ Order(z, r, toRx) /\ ReceiverOK(r)
  BY DEF Inv, TypeInv
<1> DEFINE f == Outbound[i]
           h == Hdr("ZFIN", 0)
           s == <<Hdr("ZFILE", 0), Name(f)>>
<1>2. /\ z'.at \in {"fin", "fail", "name"} /\ z'.idx = i
      /\ z' \in [at : {"fin", "fail", "name"}, idx : {i}, pos : {0}, last : {0}, cnt : {0},
                 errs : {0}]
      /\ z'.at = "fin" <=> i = 0
      /\ \/ toRx' = toRx
         \/ z'.at = "fin" /\ toRx' = toRx \o <<h>>
         \/ z'.at = "name" /\ toRx' = toRx \o s
  <2> DEFINE next == IF i = 0 THEN "fin" ELSE IF f \in Locked THEN "fail" ELSE "name"
  <2>1. /\ z' = [at |-> next, idx |-> i, pos |-> 0, last |-> 0, cnt |-> 0, errs |-> 0]
        /\ toRx' = OnLine(toRx, CASE next = "fin"  -> <<h>>
                                  [] next = "fail" -> <<>>
                                  [] next = "name" -> s)
    BY DEF Offer
  <2>2. next \in {"fin", "fail", "name"} /\ (next = "fin" <=> i = 0) OBVIOUS
  <2> HIDE DEF h, s, next
  <2>3. toRx \o <<>> = toRx BY <1>1
  <2>4. z'.at = next BY <2>1
  <2>5. \/ toRx' = toRx
        \/ next = "fin" /\ toRx' = toRx \o <<h>>
        \/ next = "name" /\ toRx' = toRx \o s
    <3>1. CASE next = "fin" BY <2>1, <3>1 DEF OnLine
    <3>2. CASE next = "fail" BY <2>1, <2>3, <3>2 DEF OnLine
    <3>3. CASE next = "name" BY <2>1, <3>3 DEF OnLine
    <3> QED BY <2>2, <3>1, <3>2, <3>3
  <2> QED BY <2>1, <2>2, <2>4, <2>5
<1>3. SenderOK(z') /\ z'.at \notin SendingAt /\ z'.at # "init"
  BY <1>2, ListFacts DEF SenderOK, AskingAt, SendingAt
<1>4. Order(z', r, toRx)
  <2>1. r.at \notin TakingAt BY <1>1 DEF ReceiverOK
  <2> QED BY <1>1, <1>3, <2>1, OrderOffer
<1> HIDE DEF h
<1>5. toRx' \in Seq(Frame) /\ Order(z', r, toRx')
  <2>1. CASE z'.at = "fin" /\ toRx' = toRx \o <<h>>
    <3>1. h \in Frame /\ h.type = "ZFIN" BY FrameTypes DEF Headers, h
    <3> DEFINE t == <<h>>
    <3>2. t \in Seq(Frame) /\ \A k \in DOMAIN t : t[k] = h BY <3>1
    <3> HIDE DEF t
    <3>3. ~Has(t, NameT \cup DataT) BY <3>1, <3>2 DEF Has, NameT, DataT
    <3>4. Order(z', r, toRx \o t) BY <1>1, <1>4, <3>2, <3>3, OrderNeutral
    <3>5. toRx \o t \in Seq(Frame) BY <1>1, <3>2
    <3> QED BY <2>1, <3>4, <3>5 DEF t
  <2>2. CASE z'.at = "name" /\ toRx' = toRx \o s
    <3>1. f \in Files /\ z'.idx # 0 /\ z'.at \in AskingAt
      BY <1>2, <2>2, ListFacts DEF AskingAt
    <3>2. Hdr("ZFILE", 0) \in Frame /\ Name(f) \in Frame
      BY <3>1, FrameTypes DEF Headers
    <3>3. toRx \o s \in Seq(Frame) BY <1>1, <3>2
    <3>4. Order(z', r, toRx \o <<Hdr("ZFILE", 0), Name(Outbound[z'.idx])>>)
      BY <1>1, <1>2, <1>4, <3>1, OrderName
    <3> QED BY <1>2, <2>2, <3>3, <3>4
  <2> QED BY <1>1, <1>2, <1>4, <2>1, <2>2
<1>6. Chain(z', r, toRx', up) BY EmptyPositions
<1>7. Replies(z', r, toTx') BY <1>3, RepliesOffer
<1>8. Consent(z', r, toTx', filed) BY <1>3, ConsentOffer
<1>9. Place(z') /\ Unstruck(z', struck') BY <1>2, <1>3 DEF Place, Unstruck
<1> QED BY <1>3, <1>5, <1>6, <1>7, <1>8, <1>9, TxStep

\* The sender has what it has sent struck off, since the receiver asks for more.
LEMMA TxSent ==
  ASSUME Inv, UNCHANGED <<r, up, filed, partial>>, FileSent, z.at \in SendingAt,
         toTx # <<>>, toTx[1].type = "ZRINIT", toTx' \in Flushed(Tail(toTx))
  PROVE  Inv' /\ ArrivedIn(filed, Offered)
<1>1. /\ toRx \in Seq(Frame) /\ toTx \in Seq(Frame) /\ SenderOK(z) /\ ReceiverOK(r)
      /\ Order(z, r, toRx) /\ Replies(z, r, toTx) /\ Consent(z, r, toTx, filed)
      /\ struck \subseteq Files /\ gone \subseteq Files
  BY DEF Inv, TypeInv
<1> DEFINE f == Offered
           i == NextEntry(z.idx, struck')
<1>2. z.idx \in 1 .. Len(Outbound) /\ f \in Files /\ z.at \notin Ended
  BY <1>1, ListFacts DEF SenderOK, Offered, SendingAt, Ended
<1>3. struck' = struck \cup {f} /\ gone' \subseteq gone \cup {f} /\ Offer(i) BY DEF FileSent
<1>4. i \in 0 .. Len(Outbound) /\ (i # 0 => Outbound[i] \notin struck')
  BY <1>2, NextEntryFacts
<1>5. struck' \subseteq Files /\ gone' \subseteq Files BY <1>1, <1>2, <1>3
<1> HIDE DEF i
<1>6. 1 \in DOMAIN toTx /\ Has(toTx, {"ZRINIT"}) BY <1>1 DEF Has
<1>7. r.file = None BY <1>1, <1>6 DEF Replies
<1>8. r.at \in SeekingAt => ~Has(toRx, NameT) BY <1>1 DEF Order
<1>9. Window(Tail(toTx), toTx, 1) BY <1>1, TailWindow
<1>10. ~Has(Tail(toTx), {"ZRPOS"})
  <2> DEFINE c == Tail(toTx)
  <2>1. \A k \in DOMAIN c : k + 1 \in DOMAIN toTx /\ 1 < k + 1 /\ (c[k] = toTx[k + 1] \/ c[k] = Bad)
    BY <1>1, <1>9 DEF Window
  <2>2. Before(toTx, {"ZRINIT"}, {"ZRPOS"}) BY <1>1 DEF Replies
  <2> HIDE DEF c
  <2> QED BY <1>6, <2>1, <2>2 DEF Before, Has, Bad, c
<1>11. ~Has(Tail(toTx), {"ZSKIP"})
  <2>1. z.at \notin AskingAt BY DEF AskingAt, SendingAt
  <2>2. ~Has(toTx, {"ZSKIP"}) BY <1>1, <1>2, <2>1 DEF Replies
  <2>3. "BAD" \notin {"ZSKIP"} OBVIOUS
  <2> QED BY <1>1, <1>9, <2>2, <2>3, WindowKeeps
<1>12. toTx' \in Seq(Frame) /\ ~Has(toTx', {"ZRPOS"}) /\ ~Has(toTx', {"ZSKIP"})
  <2>1. Tail(toTx) \in Seq(Frame) BY <1>9 DEF Window
  <2>2. PICK o : Window(toTx', Tail(toTx), o) BY <2>1, FlushedWindow
  <2>3. "BAD" \notin {"ZSKIP"} /\ "BAD" \notin {"ZRPOS"} OBVIOUS
  <2>4. toTx' \in Seq(Frame) BY <2>2 DEF Window
  <2> QED BY <1>10, <1>11, <2>1, <2>2, <2>3, <2>4, WindowKeeps
<1>13. Inv' BY <1>3, <1>4, <1>5, <1>7, <1>8, <1>12, TxOffer
<1>14. ArrivedIn(filed, f) BY <1>1, <1>6 DEF Consent, Offered
<1> QED BY <1>13, <1>14

\* The sender leaves out a file that the receiver refuses.
LEMMA TxSkipped ==
  ASSUME Inv, RefusedOnce, UNCHANGED <<r, up, filed, partial>>, FileSkipped, z.at \in AskingAt,
         toTx # <<>>, toTx[1].type = "ZSKIP", toTx' = Tail(toTx)
  PROVE  Inv' /\ (ArrivedIn(filed, Offered) \/ Size[Offered] > Room)
<1>1. /\ toRx \in Seq(Frame) /\ toTx \in Seq(Frame) /\ SenderOK(z) /\ ReceiverOK(r)
      /\ Order(z, r, toRx) /\ Replies(z, r, toTx) /\ Consent(z, r, toTx, filed)
      /\ struck \subseteq Files /\ gone \subseteq Files
  BY DEF Inv, TypeInv
<1> DEFINE f == Offered
           i == NextEntry(z.idx, struck')
<1>2. z.idx \in 1 .. Len(Outbound) /\ f \in Files /\ z.at \notin Ended
  BY <1>1, ListFacts DEF SenderOK, Offered, AskingAt, Ended
<1>3. struck' \subseteq struck \cup {f} /\ UNCHANGED gone /\ Offer(i) BY DEF FileSkipped
<1>4. i \in 0 .. Len(Outbound) /\ (i # 0 => Outbound[i] \notin struck')
  BY <1>2, NextEntryFacts
<1>5. struck' \subseteq Files /\ gone' \subseteq Files BY <1>1, <1>2, <1>3
<1> HIDE DEF i
<1>6. 1 \in DOMAIN toTx /\ Has(toTx, {"ZSKIP"}) BY <1>1 DEF Has
<1>7. r.file = None /\ ~Has(toTx, {"ZRPOS"}) BY <1>1, <1>2, <1>6 DEF Replies
<1>8. ~Has(toRx, NameT) BY <1>6 DEF RefusedOnce
<1>9. Window(toTx', toTx, 1) BY <1>1, TailWindow
<1>10. ~Has(toTx', {"ZRPOS"})
  <2>1. "BAD" \notin {"ZRPOS"} OBVIOUS
  <2> QED BY <1>1, <1>7, <1>9, <2>1, WindowKeeps
<1>11. ~Has(toTx', {"ZSKIP"})
  <2> DEFINE c == Tail(toTx)
  <2>1. \A k \in DOMAIN c : k + 1 \in DOMAIN toTx /\ 1 # k + 1 /\ (c[k] = toTx[k + 1] \/ c[k] = Bad)
    BY <1>1, <1>9 DEF Window
  <2> HIDE DEF c
  <2>2. ~Has(c, {"ZSKIP"}) BY <1>6, <2>1 DEF RefusedOnce, Has, Bad
  <2> QED BY <2>2 DEF c
<1>12. toTx' \in Seq(Frame) BY <1>9 DEF Window
<1>13. Inv' BY <1>3, <1>4, <1>5, <1>7, <1>8, <1>10, <1>11, <1>12, TxOffer
<1>14. ArrivedIn(filed, f) \/ Size[f] > Room BY <1>1, <1>6 DEF Consent, Offered
<1> QED BY <1>13, <1>14

\* What a step of the sender may strike off: what the receiver has, or cannot take.
Strikes(f) == \/ struck' = struck /\ gone' = gone
              \/ /\ ArrivedIn(filed, f) \/ Size[f] > Room
                 /\ z.idx # 0
                 /\ struck' \in {struck, struck \cup {f}} /\ gone' \subseteq gone \cup {f}

LEMMA GetReceiverInfoStep ==
  ASSUME Inv, GetReceiverInfo
  PROVE  Inv' /\ UNCHANGED <<struck, gone>>
<1>1. /\ toRx \in Seq(Frame) /\ toTx \in Seq(Frame) /\ SenderOK(z) /\ ReceiverOK(r)
      /\ Order(z, r, toRx) /\ Replies(z, r, toTx) /\ Unstruck(z, struck)
      /\ struck \subseteq Files /\ gone \subseteq Files /\ Place(z)
  BY DEF Inv, TypeInv
<1>2. /\ z.at = "init" /\ toTx # <<>> /\ toTx' = Tail(toTx)
      /\ UNCHANGED <<r, up, filed, partial>>
  BY DEF GetReceiverInfo, TxTakes, txOnly
<1>3. Window(toTx', toTx, 1) BY <1>1, <1>2, TailWindow
<1>4. CASE TxHeader = "ZRINIT"
  <2>1. Offer(z.idx) /\ UNCHANGED <<struck, gone>> BY <1>4 DEF GetReceiverInfo, TxKeeps
  <2>2. r.file = None /\ ~Has(toRx, NameT) BY <1>1, <1>2 DEF Order, Has
  <2>3. ~Has(toTx, {"ZRPOS"}) /\ ~Has(toTx, {"ZSKIP"}) BY <1>1, <1>2 DEF Replies
  <2>4. toTx' \in Seq(Frame) /\ ~Has(toTx', {"ZRPOS"}) /\ ~Has(toTx', {"ZSKIP"})
    <3>1. "BAD" \notin {"ZSKIP"} /\ "BAD" \notin {"ZRPOS"} OBVIOUS
    <3>2. toTx' \in Seq(Frame) BY <1>3 DEF Window
    <3> QED BY <1>1, <1>3, <2>3, <3>1, <3>2, WindowKeeps
  <2>5. z.idx \in 0 .. Len(Outbound) /\ (z.idx # 0 => Outbound[z.idx] \notin struck')
    BY <1>1, <1>2, <2>1 DEF SenderOK, Unstruck, Ended
  <2>6. struck' \subseteq Files /\ gone' \subseteq Files BY <1>1, <2>1
  <2> DEFINE i == z.idx
  <2>7. i \in 0 .. Len(Outbound) /\ (i # 0 => Outbound[i] \notin struck') /\ Offer(i)
    BY <2>1, <2>5
  <2> HIDE DEF i
  <2>8. Inv' BY <1>2, <2>2, <2>4, <2>6, <2>7, TxOffer
  <2> QED BY <2>1, <2>8
<1>5. CASE TxHeader # "ZRINIT"
  <2> DEFINE e == Hdr("ZNAK", 0)
  <2>1. /\ UNCHANGED <<struck, gone>>
        /\ z' = [z EXCEPT !.at = "fail"] \/ z' = [z EXCEPT !.errs = @ - 1]
        /\ toRx' = toRx \/ toRx' = OnLine(toRx, <<e>>)
    BY <1>5 DEF GetReceiverInfo, TxFail, TxKeeps
  <2>2. e \in Frame /\ e.type \notin NameT \cup DataT
    BY FrameTypes DEF Headers, NameT, DataT
  <2>3. SenderOK(z') /\ z'.idx = z.idx /\ z'.at \in {"init", "fail"}
    BY <1>1, <1>2, <2>1 DEF SenderOK, AskingAt, SendingAt
  <2>4. z'.at \notin AskingAt \cup SendingAt /\ z.at \notin AskingAt \cup SendingAt \cup Ended
    BY <1>2, <2>3 DEF AskingAt, SendingAt, Ended
  <2>5. Place(z') BY <2>4 DEF Place
  <2>6. z'.at \notin Ended => z'.at = z.at BY <1>2, <2>3 DEF Ended
  <2> HIDE DEF e
  <2>7. Inv' BY <1>2, <1>3, <2>1, <2>2, <2>3, <2>4, <2>5, <2>6, TxRest
  <2> QED BY <2>1, <2>7
<1> QED BY <1>4, <1>5


\* The sender gives up, or is done.
LEMMA TxEnds ==
  ASSUME Inv, UNCHANGED <<r, up, filed, partial>>, UNCHANGED <<struck, gone>>,
         NEW x \in {"fail", "done"}, z' = [z EXCEPT !.at = x], z.at # "data" \/ ~up,
         NEW e \in Frame, e.type \notin NameT \cup DataT,
         toRx' = toRx \/ toRx' = OnLine(toRx, <<e>>),
         NEW o, Window(toTx', toTx, o)
  PROVE  Inv'
<1>1. SenderOK(z) BY DEF Inv, TypeInv
<1>2. SenderOK(z') /\ z'.at = x /\ z'.idx = z.idx
  BY <1>1 DEF SenderOK, AskingAt, SendingAt
<1>3. x \notin AskingAt \cup SendingAt /\ x # "init" /\ x \in Ended
  BY DEF AskingAt, SendingAt, Ended
<1>4. Place(z') BY <1>2, <1>3 DEF Place
<1> QED BY <1>2, <1>3, <1>4, TxRest

LEMMA NoSound == OO \in Frame /\ OO.type \notin NameT \cup DataT
BY FrameTypes DEF NameT, DataT

\* The receiver says where the file the sender asks for is to begin.
LEMMA TxPlaced ==
  ASSUME Inv, UNCHANGED <<r, up, filed, partial>>, UNCHANGED <<struck, gone>>,
         z.at \in AskingAt, toTx # <<>>, toTx[1].type = "ZRPOS",
         toTx' \in Flushed(Tail(toTx)),
         z' = [z EXCEPT !.at = "more", !.pos = toTx[1].pos, !.last = toTx[1].pos, !.cnt = RposTries],
         toRx' = toRx \/ toRx' \in Cleared(toRx)
  PROVE  Inv'
<1>1. /\ toRx \in Seq(Frame) /\ toTx \in Seq(Frame) /\ SenderOK(z)
      /\ Order(z, r, toRx) /\ Replies(z, r, toTx) /\ Consent(z, r, toTx, filed)
      /\ struck \subseteq Files /\ gone \subseteq Files /\ Unstruck(z, struck)
  BY DEF Inv, TypeInv
<1> DEFINE p == toTx[1].pos
           f == Outbound[z.idx]
<1>2. 1 \in DOMAIN toTx /\ toTx[1] \in Frame /\ p \in Nat
  <2>1. 1 \in DOMAIN toTx /\ toTx[1] \in Frame BY <1>1
  <2> QED BY <2>1, FrameTypes DEF Headers
<1>3. p <= Size[f] BY <1>1, <1>2 DEF Replies, AsksWithin
<1>4. z.at \notin Ended /\ z.at \notin SendingAt BY DEF AskingAt, SendingAt, Ended
<1>5. /\ SenderOK(z') /\ z'.at = "more" /\ z'.idx = z.idx /\ z'.pos = p
      /\ "more" \in SendingAt /\ "more" \notin AskingAt
  <2>1. RposTries \in Int BY ZmodemAssumption
  <2> QED BY <1>1, <1>2, <2>1 DEF SenderOK, AskingAt, SendingAt
<1> HIDE DEF p
<1>6. Window(Tail(toTx), toTx, 1) /\ Tail(toTx) \in Seq(Frame) BY <1>1, TailWindow DEF Window
<1>7. PICK k : Window(toTx', Tail(toTx), k) BY <1>6, FlushedWindow
<1>8. toTx' \in Seq(Frame) /\ Window(toTx', toTx, 1 + k)
  <2>1. toTx' \in Seq(Frame) BY <1>7 DEF Window
  <2>2. Window(toTx', toTx, 1 + k) BY <1>1, <1>6, <1>7, WindowOfWindow
  <2> QED BY <2>1, <2>2
<1>9. ~Has(toTx', {"ZRINIT"})
  <2> DEFINE c == Tail(toTx)
  <2>1. \A i \in DOMAIN c : i + 1 \in DOMAIN toTx /\ 1 < i + 1 /\ (c[i] = toTx[i + 1] \/ c[i] = Bad)
    BY <1>1, <1>6 DEF Window
  <2>2. Before(toTx, {"ZRPOS"}, {"ZRINIT"}) BY <1>1 DEF Replies
  <2>3. c \in Seq(Frame) /\ Window(toTx', c, k) BY <1>6, <1>7
  <2> HIDE DEF c
  <2>4. ~Has(c, {"ZRINIT"}) BY <1>2, <2>1, <2>2 DEF Before, Has, Bad
  <2>5. "BAD" \notin {"ZRINIT"} OBVIOUS
  <2> QED BY <2>3, <2>4, <2>5, WindowKeeps
<1>10. Has(toTx, {"ZRPOS"}) BY <1>2 DEF Has
<1>11. ~Has(toTx, {"ZSKIP"}) BY <1>1, <1>4, <1>10 DEF Replies
<1>12. ~Has(toTx', {"ZSKIP"})
  <2>1. "BAD" \notin {"ZSKIP"} OBVIOUS
  <2> QED BY <1>1, <1>8, <1>11, <2>1, WindowKeeps
<1>13. r.at \notin SeekingAt BY <1>1, <1>10 DEF Replies
<1>14. Window(toRx', toRx, 0) BY <1>1, SameWindow, ClearedWindow
<1>15. toRx' \in Seq(Frame) /\ Order(z, r, toRx')
  BY <1>1, <1>14, OrderWindow DEF Window
<1>16. Order(z', r, toRx') BY <1>5, <1>13, <1>15, OrderPhase
<1>17. Chain(z', r, toRx', up)
  <2>1. CASE r.file = None BY <2>1, EmptyPositions
  <2>2. CASE r.file # None
    <3>1. ~Has(toRx', DataT) /\ r.at # "data" BY <1>15, <2>2 DEF Order
    <3> QED BY <1>15, <3>1, NoDataChain
  <2> QED BY <2>1, <2>2
<1>18. Replies(z', r, toTx')
  <2>1. Replies(z, r, toTx') BY <1>1, <1>8, RepliesWindow
  <2> QED BY <1>5, <1>9, <1>12, <2>1, RepliesBegin
<1>19. Consent(z', r, toTx', filed) BY <1>1, <1>5, <1>9, <1>12, <1>13, ConsentKeeps
<1>20. Place(z') BY <1>3, <1>5 DEF Place
<1>21. Unstruck(z', struck') BY <1>1, <1>4, <1>5 DEF Unstruck
<1> QED BY <1>1, <1>5, <1>8, <1>15, <1>16, <1>17, <1>18, <1>19, <1>20, <1>21, TxStep

LEMMA SendFileStep ==
  ASSUME Inv, RefusedOnce, SendFile
  PROVE  Inv' /\ Strikes(Offered)
<1>1. /\ toRx \in Seq(Frame) /\ toTx \in Seq(Frame) /\ SenderOK(z)
      /\ struck \subseteq Files /\ gone \subseteq Files
  BY DEF Inv, TypeInv
<1>2. /\ z.at \in AskingAt /\ toTx # <<>> /\ UNCHANGED <<r, up, filed, partial>>
  BY DEF SendFile, TxTakes, txOnly, AskingAt
<1>3. /\ Window(Tail(toTx), toTx, 1) /\ TxHeader = toTx[1].type /\ Head(toTx) = toTx[1]
      /\ toTx[1] \in Frame
  BY <1>1, <1>2, TailWindow DEF TxHeader
<1>4. z.at \notin SendingAt \cup Ended /\ z.at \notin {"init", "data"}
  BY <1>2 DEF AskingAt, SendingAt, Ended
<1>5. CASE TxHeader = "ZRINIT" \/ (TxHeader = "CAN" /\ z.at = "drain")
  <2>1. /\ z' = [z EXCEPT !.at = "drain"] /\ UNCHANGED toRx /\ UNCHANGED <<struck, gone>>
        /\ toTx' = Tail(toTx)
    BY <1>5 DEF SendFile, TxKeeps
  <2>2. SenderOK(z') /\ z'.idx = z.idx /\ z'.at = "drain"
    BY <1>1, <1>2, <2>1 DEF SenderOK, AskingAt, SendingAt
  <2>3. z'.at \in AskingAt /\ z'.at \notin SendingAt /\ z'.at # "init"
    BY <2>2 DEF AskingAt, SendingAt
  <2>4. Place(z') BY <2>3 DEF Place
  <2>5. Inv' BY <1>2, <1>3, <1>4, <2>1, <2>2, <2>3, <2>4, NoSound, TxRest
  <2> QED BY <2>1, <2>5 DEF Strikes
<1>6. CASE (TxHeader = "CAN" /\ z.at = "name") \/ TxHeader = "ZFIN"
  <2>1. z' = [z EXCEPT !.at = "fail"] /\ UNCHANGED toRx /\ UNCHANGED <<struck, gone>>
        /\ toTx' = Tail(toTx)
    BY <1>6 DEF SendFile, TxFail, TxKeeps
  <2>2. Inv' BY <1>2, <1>3, <1>4, <2>1, NoSound, TxEnds
  <2> QED BY <2>1, <2>2 DEF Strikes
<1>7. CASE TxHeader = "ZSKIP"
  <2>1. FileSkipped /\ toTx' = Tail(toTx) BY <1>7 DEF SendFile
  <2>2. Inv' /\ (ArrivedIn(filed, Offered) \/ Size[Offered] > Room)
    BY <1>2, <1>3, <1>7, <2>1, TxSkipped
  <2>3. struck' \in {struck, struck \cup {Offered}} /\ gone' = gone BY <2>1 DEF FileSkipped
  <2>4. z.idx # 0 BY <1>1, <1>2 DEF SenderOK
  <2> QED BY <2>2, <2>3, <2>4 DEF Strikes
<1>8. CASE TxHeader = "ZRPOS"
  <2>1. /\ z' = [z EXCEPT !.at = "more", !.pos = toTx[1].pos, !.last = toTx[1].pos,
                          !.cnt = RposTries]
        /\ toRx' = toRx \/ toRx' \in Cleared(toRx)
        /\ UNCHANGED <<struck, gone>> /\ toTx' \in Flushed(Tail(toTx))
    BY <1>3, <1>8 DEF SendFile, TxKeeps
  <2>2. Inv' BY <1>2, <1>3, <1>8, <2>1, TxPlaced
  <2> QED BY <2>1, <2>2 DEF Strikes
<1>9. CASE TxHeader \notin {"ZRINIT", "CAN", "ZFIN", "ZSKIP", "ZRPOS"}
  <2>1. TxRepeats /\ toTx' = Tail(toTx) BY <1>9 DEF SendFile
  <2>2. Inv' BY <1>2, <1>3, <2>1, TxAgain
  <2>3. UNCHANGED <<struck, gone>> BY <2>1 DEF TxRepeats, TxKeeps
  <2> QED BY <2>2, <2>3 DEF Strikes
<1> QED BY <1>2, <1>5, <1>6, <1>7, <1>8, <1>9 DEF AskingAt

LEMMA JoinTwo ==
  ASSUME NEW S, NEW c \in Seq(S), NEW g \in S, NEW e \in S
  PROVE  (c \o <<g>>) \o <<e>> = c \o <<g, e>>
<1> DEFINE a == (c \o <<g>>) \o <<e>>
           b == c \o <<g, e>>
           n == Len(c)
<1>1. /\ a \in Seq(S) /\ Len(a) = n + 2 /\ n \in Nat
      /\ \A i \in 1 .. n : a[i] = c[i]
      /\ a[n + 1] = g /\ a[n + 2] = e
  OBVIOUS
<1>2. /\ b \in Seq(S) /\ Len(b) = n + 2
      /\ \A i \in 1 .. n : b[i] = c[i]
      /\ b[n + 1] = g /\ b[n + 2] = e
  OBVIOUS
<1> HIDE DEF a, b, n
<1>3. \A i \in 1 .. n + 2 : i \in 1 .. n \/ i = n + 1 \/ i = n + 2 BY <1>1
<1>4. \A i \in 1 .. n + 2 : a[i] = b[i] BY <1>1, <1>2, <1>3
<1>5. a = b BY <1>1, <1>2, <1>4
<1> QED BY <1>5 DEF a, b

\* The sender goes on with its file.
LEMMA TxGoesOn ==
  ASSUME Inv, UNCHANGED <<r, up, filed, partial>>, UNCHANGED <<struck, gone>>, UNCHANGED toTx,
         z.at \in SendingAt, z'.at \in SendingAt, z'.idx = z.idx, SenderOK(z'), Place(z'),
         toRx' \in Seq(Frame), Order(z, r, toRx'), Chain(z', r, toRx', up)
  PROVE  Inv'
<1>1. /\ toTx \in Seq(Frame) /\ struck \subseteq Files /\ gone \subseteq Files
      /\ Replies(z, r, toTx) /\ Consent(z, r, toTx, filed) /\ Unstruck(z, struck)
  BY DEF Inv, TypeInv
<1>2. /\ z'.at \notin AskingAt \cup Ended /\ z.at \notin AskingAt \cup Ended
      /\ z'.at # "init"
  BY DEF AskingAt, SendingAt, Ended
<1>3. Order(z', r, toRx') BY <1>2, OrderPhase
<1>4. Replies(z', r, toTx') BY <1>1, <1>2, RepliesPhase
<1>5. Consent(z', r, toTx', filed) BY <1>1, <1>2, ConsentKeeps
<1>6. Unstruck(z', struck') BY <1>1, <1>2 DEF Unstruck
<1> QED BY <1>1, <1>3, <1>4, <1>5, <1>6, TxStep

LEMMA TxBlock ==
  ASSUME Inv, UNCHANGED <<r, up, filed, partial>>, UNCHANGED <<struck, gone>>, UNCHANGED toTx,
         up, z.at \in {"more", "data"}, NEW n \in Nat, z.pos + n <= Size[Offered],
         NEW e \in {"ZCRCG", "ZCRCE"}, e = "ZCRCE" => z.pos + n = Size[Offered],
         toRx' = toRx \o (IF z.at = "more" THEN <<Hdr("ZDATA", z.pos)>> ELSE <<>>)
                      \o <<Sub(SubSeq(Content(Offered), z.pos + 1, z.pos + n), e)>>,
         z' = [z EXCEPT !.at = IF e = "ZCRCE" THEN "ended" ELSE "data", !.pos = @ + n]
  PROVE  Inv'
<1>1. /\ toRx \in Seq(Frame) /\ SenderOK(z) /\ Order(z, r, toRx) /\ Chain(z, r, toRx, TRUE)
      /\ up = TRUE
  <2>1. Chain(z, r, toRx, up) BY DEF Inv
  <2>2. Chain(z, r, toRx, TRUE) BY <2>1, ChainUp
  <2> QED BY <2>2 DEF Inv, TypeInv
<1> DEFINE f == Offered
           p == z.pos
           d == SubSeq(Content(f), p + 1, p + n)
           b == Sub(d, e)
           h == Hdr("ZDATA", p)
<1>2. f \in Files /\ Size[f] \in Nat /\ p \in Nat /\ f = Outbound[z.idx] /\ z.at \in SendingAt
  BY <1>1, ListFacts DEF SenderOK, SendingAt, Offered
<1> DEFINE x == IF e = "ZCRCE" THEN "ended" ELSE "data"
<1>2a. /\ x \in {"ended", "data"} /\ (e = "ZCRCG" => x = "data") /\ (x = "ended" => e = "ZCRCE")
       /\ z' = [z EXCEPT !.at = x, !.pos = p + n] /\ p + n \in Nat
  BY <1>2
<1> HIDE DEF x
<1>3. SenderOK(z') /\ z'.at \in SendingAt /\ z'.idx = z.idx /\ z'.pos = p + n /\ z'.at = x
  <2>1. z'.at = x /\ z'.idx = z.idx /\ z'.pos = p + n /\ x \in SendingAt
    BY <1>1, <1>2a DEF SenderOK, SendingAt
  <2>2. z' \in [at   : {"init", "name", "drain", "more", "data", "ended", "sync", "eof",
                        "fin", "done", "fail"},
                idx  : 0 .. Len(Outbound), pos : Nat, last : Nat, cnt : Int, errs : Int]
    BY <1>1, <1>2a DEF SenderOK
  <2>3. z.idx # 0 /\ x # "fin" BY <1>1, <1>2, <1>2a DEF SenderOK
  <2> QED BY <2>1, <2>2, <2>3 DEF SenderOK
<1>4. e = "ZCRCG" => z'.at = "data" BY <1>2a, <1>3
<1>5. Place(z')
  <2>1. z'.at \in {"ended", "eof"} => e = "ZCRCE" BY <1>2a, <1>3
  <2> QED BY <1>2, <1>3, <2>1 DEF Place
<1>6. d \in Seq(Units) /\ Len(d) = n /\ Carries(b, p, f) BY <1>2, BlockCarries
<1> HIDE DEF d
<1>7. b \in Frame /\ b.type = "SUB" /\ b.data = d /\ b.end = e BY <1>6, SubType
<1>8. h \in Frame /\ h.type = "ZDATA" BY <1>2, FrameTypes DEF Headers
<1>9. \/ z.at = "data" /\ toRx' = toRx \o <<b>>
      \/ z.at = "more" /\ toRx' = toRx \o <<h, b>>
  <2>1. (toRx \o <<>>) \o <<b>> = toRx \o <<b>> BY <1>1, <1>7
  <2>2. (toRx \o <<h>>) \o <<b>> = toRx \o <<h, b>>
    <3>1. toRx \in Seq(Frame) /\ h \in Frame /\ b \in Frame BY <1>1, <1>7, <1>8
    <3> QED BY <3>1, JoinTwo
  <2> HIDE DEF h, b
  <2>3. toRx' = (toRx \o (IF z.at = "more" THEN <<h>> ELSE <<>>)) \o <<b>> BY DEF h, b, d
  <2> QED BY <2>1, <2>2, <2>3
<1> HIDE DEF b
<1>10. toRx' \in Seq(Frame) /\ Order(z, r, toRx')
  <2>1. ASSUME NEW s \in Seq(Frame), \A i \in DOMAIN s : s[i] = h \/ s[i] = b
        PROVE  toRx \o s \in Seq(Frame) /\ Order(z, r, toRx \o s)
    <3>1. ~Has(s, NameT) /\ EofsAre(s, Size[Outbound[z.idx]])
      BY <1>7, <1>8, <2>1 DEF Has, EofsAre, NameT
    <3>2. Order(z, r, toRx \o s) BY <1>1, <1>2, <3>1, OrderData
    <3> QED BY <1>1, <3>2
  <2> HIDE DEF h
  <2>2. <<b>> \in Seq(Frame) /\ \A i \in DOMAIN <<b>> : <<b>>[i] = h \/ <<b>>[i] = b BY <1>7
  <2>3. <<h, b>> \in Seq(Frame) /\ \A i \in DOMAIN <<h, b>> : <<h, b>>[i] = h \/ <<h, b>>[i] = b
    BY <1>7, <1>8
  <2> QED BY <1>9, <2>1, <2>2, <2>3
<1>11. Chain(z', r, toRx', up)
  <2>1. CASE r.file = None BY <2>1, EmptyPositions
  <2>2. CASE r.file # None
    <3>1. r.file = f BY <1>1, <1>2, <2>2 DEF Order
    <3>2. Carries(b, z.pos, r.file) BY <1>6, <3>1 DEF b
    <3>3. z.pos \in Nat /\ z'.pos = z.pos + Len(b.data) BY <1>2, <1>3, <1>6, <1>7
    <3>3a. b.end = "ZCRCG" => z'.at = "data" BY <1>4, <1>7
    <3>4. CASE z.at = "data" /\ toRx' = toRx \o <<b>>
      <4>1. Chain(z', r, toRx \o <<b>>, TRUE) BY <1>1, <1>7, <3>2, <3>3, <3>3a, <3>4, ChainBlock
      <4> QED BY <1>1, <3>4, <4>1
    <3>5. CASE z.at = "more" /\ toRx' = toRx \o <<h, b>>
      <4>1. Chain(z', r, toRx \o <<Hdr("ZDATA", z.pos), b>>, TRUE)
        BY <1>1, <1>7, <3>2, <3>3, <3>3a, <3>5, ChainBegin
      <4> QED BY <1>1, <3>5, <4>1
    <3> QED BY <1>9, <3>4, <3>5
  <2> QED BY <2>1, <2>2
<1> QED BY <1>2, <1>3, <1>5, <1>10, <1>11, TxGoesOn

LEMMA SendDataStep ==
  ASSUME Inv, SendData
  PROVE  Inv' /\ UNCHANGED <<struck, gone>>
<1>1. /\ UNCHANGED <<r, up, filed, partial>> /\ UNCHANGED <<struck, gone>> /\ UNCHANGED toTx
      /\ up /\ z.at \in {"more", "data"}
  BY DEF SendData, TxKeeps, txOnly
<1>2. SenderOK(z) /\ Place(z) BY DEF Inv, TypeInv
<1>3. /\ Size[Offered] \in Nat /\ z.pos \in Nat /\ z.pos <= Size[Offered]
  BY <1>1, <1>2, ListFacts DEF SenderOK, SendingAt, Offered, Place
<1> DEFINE Block(n, e) ==
             /\ toRx' = toRx \o (IF z.at = "more" THEN <<Hdr("ZDATA", z.pos)>> ELSE <<>>)
                             \o <<Sub(SubSeq(Content(Offered), z.pos + 1, z.pos + n), e)>>
             /\ z' = [z EXCEPT !.at = IF e = "ZCRCE" THEN "ended" ELSE "data", !.pos = @ + n]
<1>4. \/ z.pos < Size[Offered] /\ Block(1, "ZCRCG")
      \/ z.pos >= Size[Offered] - 1 /\ Block(Size[Offered] - z.pos, "ZCRCE")
  BY DEF SendData
<1>5. \E n \in Nat, e \in {"ZCRCG", "ZCRCE"} :
         /\ z.pos + n <= Size[Offered] /\ (e = "ZCRCE" => z.pos + n = Size[Offered])
         /\ Block(n, e)
  <2> HIDE DEF Block
  <2>1. CASE z.pos < Size[Offered] /\ Block(1, "ZCRCG") BY <1>3, <2>1
  <2>2. CASE Block(Size[Offered] - z.pos, "ZCRCE")
    <3>1. Size[Offered] - z.pos \in Nat /\ z.pos + (Size[Offered] - z.pos) = Size[Offered]
      BY <1>3
    <3> QED BY <1>3, <2>2, <3>1
  <2> QED BY <1>4, <2>1, <2>2
<1>6. PICK n \in Nat, e \in {"ZCRCG", "ZCRCE"} :
         /\ z.pos + n <= Size[Offered] /\ (e = "ZCRCE" => z.pos + n = Size[Offered])
         /\ Block(n, e)
  BY <1>5
<1>7. Inv' BY <1>1, <1>6, TxBlock
<1> QED BY <1>1, <1>7

LEMMA SendEofStep ==
  ASSUME Inv, SendEof
  PROVE  Inv' /\ UNCHANGED <<struck, gone>>
<1>1. /\ UNCHANGED <<r, up, filed, partial>> /\ UNCHANGED <<struck, gone>> /\ UNCHANGED toTx
      /\ z.at = "ended" /\ z' = [z EXCEPT !.at = "eof", !.errs = Errs]
      /\ toRx' = OnLine(toRx, <<Hdr("ZEOF", z.pos)>>)
  BY DEF SendEof, TxKeeps, txOnly
<1>2. /\ toRx \in Seq(Frame) /\ SenderOK(z) /\ Order(z, r, toRx) /\ Chain(z, r, toRx, up)
      /\ Place(z)
  BY DEF Inv, TypeInv
<1>3. /\ z.at \in SendingAt /\ z'.at \in SendingAt /\ z'.idx = z.idx /\ SenderOK(z')
      /\ z'.at = "eof" /\ z'.pos = z.pos
  <2>1. Errs \in Int BY ZmodemAssumption
  <2> QED BY <1>1, <1>2, <2>1 DEF SenderOK, AskingAt, SendingAt
<1>4. z.pos = Size[Outbound[z.idx]] /\ z.pos \in Nat BY <1>1, <1>2, <1>3 DEF Place, SenderOK
<1>5. Place(z') BY <1>1, <1>2, <1>3, <1>4 DEF Place
<1> DEFINE h == Hdr("ZEOF", z.pos)
           s == <<h>>
<1>6. h \in Frame /\ h.type = "ZEOF" /\ h.pos = z.pos BY <1>4, FrameTypes DEF Headers
<1> HIDE DEF h
<1>7. s \in Seq(Frame) /\ \A i \in DOMAIN s : s[i] = h BY <1>6
<1>8. toRx' = toRx \/ (up /\ toRx' = toRx \o s) BY <1>1 DEF OnLine, h
<1> HIDE DEF s
<1>9. ~Has(s, NameT) /\ EofsAre(s, Size[Outbound[z.idx]])
  BY <1>4, <1>6, <1>7 DEF Has, EofsAre, NameT
<1>10. toRx' \in Seq(Frame) /\ Order(z, r, toRx')
  <2>1. toRx \o s \in Seq(Frame) BY <1>2, <1>7
  <2>2. Order(z, r, toRx \o s) BY <1>2, <1>3, <1>7, <1>9, OrderData
  <2> QED BY <1>2, <1>8, <2>1, <2>2
<1>11. Chain(z', r, toRx', up)
  <2>1. CASE toRx' = toRx
    <3>1. Chain(z', r, toRx, up) BY <1>1, <1>2, ChainPhase
    <3> QED BY <2>1, <3>1
  <2>2. CASE up /\ toRx' = toRx \o s
    <3>1. Chain(z, r, toRx, TRUE) /\ z.at # "data" BY <1>1, <1>2, <2>2, ChainUp
    <3>2. h.type \notin {"ZDATA", "SUB"} BY <1>6
    <3>3. Chain(z', r, toRx \o s, TRUE) BY <1>2, <1>6, <3>1, <3>2, ChainNeutral DEF s
    <3>4. Chain(z', r, toRx', TRUE) BY <2>2, <3>3
    <3> QED BY <3>4, ChainUp
  <2> QED BY <1>8, <2>1, <2>2
<1>12. Inv' BY <1>1, <1>3, <1>5, <1>10, <1>11, TxGoesOn
<1> QED BY <1>1, <1>12

\* The sender discards what it has not transmitted, and says so or gives up.
LEMMA CutChannel ==
  ASSUME Inv, NEW c \in Cleared(toRx), NEW e \in {Can, Sub(<<>>, "ZCRCE")}, NEW yy,
         toRx' = OnLine(c, <<e>>)
  PROVE  /\ toRx' \in Seq(Frame) /\ Chain(yy, r, toRx', up)
         /\ e = Can \/ z.at \in SendingAt => Order(z, r, toRx')
<1>1. /\ toRx \in Seq(Frame) /\ Order(z, r, toRx) /\ Chain(z, r, toRx, up) /\ ReceiverOK(r)
      /\ r.data \in Seq(Units) /\ up \in BOOLEAN
  BY DEF Inv, TypeInv, ReceiverOK
<1>2. Window(c, toRx, 0) BY <1>1, ClearedWindow
<1>3. c \in Seq(Frame) /\ Order(z, r, c) BY <1>1, <1>2, OrderWindow DEF Window
<1>4. e \in Frame /\ e.type \in {"CAN", "SUB"} /\ (e = Can => e.type = "CAN")
  <2>1. <<>> \in Seq(Units) /\ "ZCRCE" \in {"ZCRCG", "ZCRCE"} OBVIOUS
  <2>2. Sub(<<>>, "ZCRCE") \in Frame /\ Sub(<<>>, "ZCRCE").type = "SUB" BY <2>1, SubType
  <2> QED BY <2>2, FrameTypes
<1> DEFINE s == <<e>>
<1>5. s \in Seq(Frame) /\ \A i \in DOMAIN s : s[i] = e BY <1>4
<1>6. (~up /\ toRx' = c) \/ (up /\ toRx' = c \o s) BY DEF OnLine
<1> HIDE DEF s
<1>7. toRx' \in Seq(Frame)
  <2>1. c \o s \in Seq(Frame) BY <1>3, <1>5
  <2> QED BY <1>3, <1>6, <2>1
<1>8. Chain(yy, r, toRx', up)
  <2>1. CASE ~up /\ toRx' = c
    <3>1. Chain(yy, r, c, FALSE) BY <1>1, <1>2, ChainOffline
    <3>2. Chain(yy, r, c, up) BY <2>1, <3>1, ChainUp
    <3> QED BY <2>1, <3>2
  <2>2. CASE up /\ toRx' = c \o s
    <3>1. Chain(yy, r, c \o s, up) BY <1>1, <1>2, ChainCut DEF s
    <3> QED BY <2>2, <3>1
  <2> QED BY <1>6, <2>1, <2>2
<1>9. ASSUME e = Can \/ z.at \in SendingAt PROVE Order(z, r, c \o s)
  <2>1. CASE e = Can
    <3>1. ~Has(s, NameT \cup DataT) BY <1>4, <1>5, <2>1 DEF Has, NameT, DataT
    <3> QED BY <1>3, <1>5, <3>1, OrderNeutral
  <2>2. CASE z.at \in SendingAt
    <3>1. ~Has(s, NameT) /\ EofsAre(s, Size[Outbound[z.idx]])
      BY <1>4, <1>5 DEF Has, NameT, EofsAre
    <3> QED BY <1>3, <1>5, <2>2, <3>1, OrderData
  <2> QED BY <1>9, <2>1, <2>2
<1> QED BY <1>3, <1>6, <1>7, <1>8, <1>9

LEMMA InterruptedStep ==
  ASSUME Inv, Interrupted
  PROVE  Inv' /\ UNCHANGED <<struck, gone>>
<1>1. /\ UNCHANGED <<r, up, filed, partial>> /\ UNCHANGED <<struck, gone>> /\ UNCHANGED toTx
      /\ z.at \in {"more", "data", "ended"} /\ z' = [z EXCEPT !.at = "sync", !.errs = Errs]
  BY DEF Interrupted, TxKeeps, txOnly
<1>2. SenderOK(z) /\ Place(z) /\ toTx \in Seq(Frame) /\ toRx \in Seq(Frame)
      /\ Order(z, r, toRx) /\ Chain(z, r, toRx, up)
  BY DEF Inv, TypeInv
<1>3. /\ z.at \in SendingAt /\ z'.at \in SendingAt /\ z'.idx = z.idx /\ SenderOK(z')
      /\ z'.at = "sync" /\ z'.pos = z.pos
  <2>1. Errs \in Int BY ZmodemAssumption
  <2> QED BY <1>1, <1>2, <2>1 DEF SenderOK, AskingAt, SendingAt
<1>4. Place(z') BY <1>2, <1>3 DEF Place
<1>5. CASE z.at = "more"
  <2>1. toRx' = toRx BY <1>5 DEF Interrupted
  <2>2. Chain(z', r, toRx, up) BY <1>2, <1>5, ChainPhase
  <2>3. Inv' BY <1>1, <1>2, <1>3, <1>4, <2>1, <2>2, TxGoesOn
  <2> QED BY <1>1, <2>3
<1>6. CASE z.at # "more"
  <2> DEFINE e == Sub(<<>>, "ZCRCE")
  <2>1. PICK c \in Cleared(toRx) : toRx' = OnLine(c, <<e>>) BY <1>6 DEF Interrupted
  <2>2. e \in {Can, Sub(<<>>, "ZCRCE")} OBVIOUS
  <2> HIDE DEF e
  <2>3. toRx' \in Seq(Frame) /\ Chain(z', r, toRx', up) /\ Order(z, r, toRx')
    BY <1>3, <2>1, <2>2, CutChannel
  <2>4. Inv' BY <1>1, <1>3, <1>4, <2>3, TxGoesOn
  <2> QED BY <1>1, <2>4
<1> QED BY <1>5, <1>6

LEMMA SyncStep ==
  ASSUME Inv, SyncWithReceiver
  PROVE  Inv' /\ Strikes(Offered)
<1>1. /\ toRx \in Seq(Frame) /\ toTx \in Seq(Frame) /\ SenderOK(z) /\ Place(z)
      /\ Replies(z, r, toTx) /\ struck \subseteq Files /\ gone \subseteq Files
  BY DEF Inv, TypeInv
<1>2. /\ z.at \in {"sync", "eof"} /\ toTx # <<>> /\ UNCHANGED <<r, up, filed, partial>>
      /\ toTx' \in Flushed(Tail(toTx))
  BY DEF SyncWithReceiver, TxTakes, txOnly
<1>3. /\ Window(Tail(toTx), toTx, 1) /\ TxHeader = toTx[1].type /\ Head(toTx) = toTx[1]
      /\ toTx[1] \in Frame /\ 1 \in DOMAIN toTx
  BY <1>1, <1>2, TailWindow DEF TxHeader
<1>4. z.at \in SendingAt /\ z.at \notin AskingAt \cup Ended /\ z.at # "data"
  BY <1>2 DEF AskingAt, SendingAt, Ended
<1>5. \E o : Window(toTx', toTx, o)
  <2>1. Tail(toTx) \in Seq(Frame) BY <1>3 DEF Window
  <2>2. PICK k : Window(toTx', Tail(toTx), k) BY <1>2, <2>1, FlushedWindow
  <2>3. Window(toTx', toTx, 1 + k) BY <1>1, <1>3, <2>2, WindowOfWindow
  <2> QED BY <2>3
<1>6. PICK o : Window(toTx', toTx, o) BY <1>5
<1>7. ASSUME z' = [z EXCEPT !.at = "fail"], UNCHANGED toRx, UNCHANGED <<struck, gone>>
      PROVE  Inv' /\ Strikes(Offered)
  <2>1. Inv' BY <1>2, <1>4, <1>6, <1>7, NoSound, TxEnds
  <2> QED BY <1>7, <2>1 DEF Strikes
<1>8. CASE TxHeader = "ZRPOS"
  <2> DEFINE p == toTx[1].pos
             k == IF p = z.last THEN z.cnt - 1 ELSE RposTries
  <2>1. /\ UNCHANGED toRx /\ UNCHANGED <<struck, gone>>
        /\ \/ z' = [z EXCEPT !.at = "fail"]
           \/ z' = [z EXCEPT !.at = "more", !.pos = p, !.last = p, !.cnt = k]
    BY <1>3, <1>8 DEF SyncWithReceiver, Repositioned, TxKeeps
  <2>2. p \in Nat BY <1>3, <1>8, FrameTypes DEF Headers
  <2>3. p <= Size[Outbound[z.idx]] BY <1>1, <1>3, <1>4, <1>8 DEF Replies, AsksWithin
  <2>4. k \in Int
    <3>1. RposTries \in Int BY ZmodemAssumption
    <3> QED BY <1>1, <3>1 DEF SenderOK
  <2> HIDE DEF p, k
  <2>5. CASE z' = [z EXCEPT !.at = "more", !.pos = p, !.last = p, !.cnt = k]
    <3>1. SenderOK(z') /\ z'.at = "more" /\ z'.idx = z.idx /\ z'.pos = p
      BY <1>1, <1>2, <2>2, <2>4, <2>5 DEF SenderOK, AskingAt, SendingAt
    <3>2. "more" \in SendingAt /\ "more" \notin AskingAt BY DEF AskingAt, SendingAt
    <3>3. Place(z') BY <2>3, <3>1 DEF Place
    <3>4. Inv' BY <1>2, <1>4, <1>6, <2>1, <3>1, <3>2, <3>3, NoSound, TxRest
    <3> QED BY <2>1, <3>4 DEF Strikes
  <2> QED BY <1>7, <2>1, <2>5
<1>9. CASE TxHeader = "ZRINIT"
  <2>1. FileSent BY <1>9 DEF SyncWithReceiver
  <2>2. Inv' /\ ArrivedIn(filed, Offered) BY <1>2, <1>3, <1>4, <1>9, <2>1, TxSent
  <2>3. struck' \in {struck, struck \cup {Offered}} /\ gone' \subseteq gone \cup {Offered}
    BY <2>1 DEF FileSent
  <2>4. z.idx # 0 BY <1>1, <1>4 DEF SenderOK
  <2> QED BY <2>2, <2>3, <2>4 DEF Strikes
<1>10. TxHeader # "ZSKIP" BY <1>1, <1>3, <1>4 DEF Replies, Has
<1>11. CASE TxHeader \in {"ZFIN", "CAN"}
  <2>1. TxFail BY <1>11 DEF SyncWithReceiver
  <2> QED BY <1>7, <2>1 DEF TxFail, TxKeeps
<1>12. CASE TxHeader \notin {"ZRPOS", "ZRINIT", "ZSKIP", "ZFIN", "CAN"}
  <2> DEFINE e == Hdr("ZNAK", 0)
  <2>1. toRx' = OnLine(toRx, <<e>>) /\ z' = z /\ UNCHANGED <<struck, gone>>
    BY <1>12 DEF SyncWithReceiver, TxKeeps
  <2>2. e \in Frame /\ e.type \notin NameT \cup DataT
    BY FrameTypes DEF Headers, NameT, DataT
  <2> HIDE DEF e
  <2>3. SenderOK(z') /\ Place(z') BY <1>1, <2>1
  <2>4. z'.idx = z.idx /\ z'.at = z.at BY <2>1
  <2>5. Inv' BY <1>2, <1>4, <1>6, <2>1, <2>2, <2>3, <2>4, TxRest
  <2> QED BY <2>1, <2>5 DEF Strikes
<1> QED BY <1>8, <1>9, <1>10, <1>11, <1>12

LEMMA EndSendStep ==
  ASSUME Inv, EndSend
  PROVE  Inv' /\ UNCHANGED <<struck, gone>>
<1>1. toTx \in Seq(Frame) /\ SenderOK(z) /\ Place(z) BY DEF Inv, TypeInv
<1>2. /\ z.at = "fin" /\ toTx # <<>> /\ UNCHANGED <<r, up, filed, partial>>
      /\ UNCHANGED <<struck, gone>> /\ toTx' = Tail(toTx)
  BY DEF EndSend, TxTakes, TxKeeps, txOnly
<1>3. Window(toTx', toTx, 1) BY <1>1, <1>2, TailWindow
<1>4. z.at \notin AskingAt \cup SendingAt \cup Ended /\ z.at \notin {"data", "init"}
  BY <1>2 DEF AskingAt, SendingAt, Ended
<1> DEFINE e == Hdr("ZFIN", 0)
<1>5. e \in Frame /\ e.type \notin NameT \cup DataT
  BY FrameTypes DEF Headers, NameT, DataT
<1> HIDE DEF e
<1>6. CASE TxHeader \in {"ZFIN", "CAN"}
  <2>1. /\ z' = [z EXCEPT !.at = "done"]
        /\ toRx' = toRx \/ toRx' = OnLine(toRx, <<OO>>)
    BY <1>6 DEF EndSend
  <2>2. Inv' BY <1>2, <1>3, <1>4, <2>1, NoSound, TxEnds
  <2> QED BY <1>2, <2>2
<1>7. CASE TxHeader \notin {"ZFIN", "CAN"}
  <2>1. z' = z /\ toRx' = OnLine(toRx, <<e>>) BY <1>7 DEF EndSend, e
  <2>2. SenderOK(z') /\ Place(z') BY <1>1, <2>1
  <2>3. z'.idx = z.idx /\ z'.at = z.at BY <2>1
  <2>4. Inv' BY <1>2, <1>3, <1>4, <1>5, <2>1, <2>2, <2>3, TxRest
  <2> QED BY <1>2, <2>4
<1> QED BY <1>6, <1>7

LEMMA TxTimeoutStep ==
  ASSUME Inv, TxTimeout, TxReading, UNCHANGED toTx, UNCHANGED <<r, up, filed, partial>>
  PROVE  Inv' /\ UNCHANGED <<struck, gone>>
<1>1. toTx \in Seq(Frame) /\ SenderOK(z) /\ Place(z) BY DEF Inv, TypeInv
<1>2. Window(toTx', toTx, 0) BY <1>1, SameWindow
<1>3. z.at # "data" BY DEF TxReading
<1>4. CASE z.at = "drain"
  <2>1. TxRepeats BY <1>4 DEF TxTimeout
  <2>2. z.at \in AskingAt BY <1>4 DEF AskingAt
  <2>3. Inv' BY <1>2, <2>1, <2>2, TxAgain
  <2> QED BY <2>1, <2>3 DEF TxRepeats, TxKeeps
<1>5. CASE z.at \in {"sync", "eof"} /\ z.errs > 0
  <2>1. z' = [z EXCEPT !.errs = @ - 1] /\ UNCHANGED toRx /\ UNCHANGED <<struck, gone>>
    BY <1>5 DEF TxTimeout, TxKeeps
  <2>2. SenderOK(z') /\ z'.at = z.at /\ z'.idx = z.idx /\ z'.pos = z.pos
    BY <1>1, <2>1 DEF SenderOK
  <2>3. Place(z') BY <1>1, <2>2 DEF Place
  <2>4. z.at \notin Ended /\ z.at \notin AskingAt BY <1>5 DEF AskingAt, Ended
  <2>5. Inv' BY <1>2, <1>3, <2>1, <2>2, <2>3, <2>4, NoSound, TxRest
  <2> QED BY <2>1, <2>5
<1>6. CASE z.at # "drain" /\ ~(z.at \in {"sync", "eof"} /\ z.errs > 0)
  <2>1. /\ z' = [z EXCEPT !.at = "fail"] \/ z' = [z EXCEPT !.at = "done"]
        /\ UNCHANGED toRx /\ UNCHANGED <<struck, gone>>
    BY <1>6 DEF TxTimeout, TxKeeps, TxFail
  <2>2. Inv' BY <1>2, <1>3, <2>1, NoSound, TxEnds
  <2> QED BY <2>1, <2>2
<1> QED BY <1>4, <1>5, <1>6

LEMMA TxNoCarrierStep ==
  ASSUME Inv, TxNoCarrier
  PROVE  Inv' /\ UNCHANGED <<struck, gone>>
<1>1. toTx \in Seq(Frame) BY DEF Inv, TypeInv
<1>2. /\ ~up /\ UNCHANGED <<r, up, filed, partial>> /\ UNCHANGED <<struck, gone>>
      /\ UNCHANGED toRx /\ UNCHANGED toTx
      /\ z' = [z EXCEPT !.at = "fail"] \/ z' = [z EXCEPT !.at = "done"]
  BY DEF TxNoCarrier, TxKeeps, txOnly
<1>3. Window(toTx', toTx, 0) BY <1>1, <1>2, SameWindow
<1>4. Inv' BY <1>2, <1>3, NoSound, TxEnds
<1> QED BY <1>2, <1>4

LEMMA TxEscapeStep ==
  ASSUME Inv, TxEscape
  PROVE  Inv' /\ UNCHANGED <<struck, gone>>
<1>1. /\ UNCHANGED <<r, up, filed, partial>> /\ UNCHANGED <<struck, gone>> /\ UNCHANGED toTx
      /\ z' = [z EXCEPT !.at = "fail"]
  BY DEF TxEscape
<1>2. /\ SenderOK(z) /\ toTx \in Seq(Frame) /\ struck \subseteq Files /\ gone \subseteq Files
      /\ Replies(z, r, toTx) /\ Consent(z, r, toTx, filed) /\ Unstruck(z, struck)
  BY DEF Inv, TypeInv
<1>3. /\ SenderOK(z') /\ z'.at = "fail" /\ z'.idx = z.idx
      /\ "fail" \in Ended /\ "fail" \notin AskingAt \cup SendingAt
  BY <1>1, <1>2 DEF SenderOK, AskingAt, SendingAt, Ended
<1>4. PICK c \in Cleared(toRx) : toRx' = OnLine(c, <<Can>>) BY DEF TxEscape
<1>5. toRx' \in Seq(Frame) /\ Chain(z', r, toRx', up) /\ Order(z, r, toRx')
  BY <1>4, CutChannel
<1>6. Order(z', r, toRx') BY <1>3, <1>5, OrderPhase
<1>7. Replies(z', r, toTx') BY <1>1, <1>2, <1>3, RepliesPhase
<1>8. Consent(z', r, toTx', filed) BY <1>3 DEF Consent
<1>9. Place(z') /\ Unstruck(z', struck') BY <1>3 DEF Place, Unstruck
<1>10. Inv' BY <1>1, <1>2, <1>3, <1>5, <1>6, <1>7, <1>8, <1>9, TxStep
<1> QED BY <1>1, <1>10

\* Whatever the sender does
TxActs == Sender \/ TxEarly \/ TxEscape

LEMMA SenderStep ==
  ASSUME Inv, RefusedOnce, TxActs
  PROVE  Inv' /\ Strikes(Offered) /\ UNCHANGED filed
<1>1. CASE GetReceiverInfo
  <2>1. UNCHANGED filed BY <1>1 DEF GetReceiverInfo, TxTakes, txOnly
  <2> QED BY <1>1, <2>1, GetReceiverInfoStep DEF Strikes
<1>2. CASE SendFile
  <2>1. UNCHANGED filed BY <1>2 DEF SendFile, TxTakes, txOnly
  <2> QED BY <1>2, <2>1, SendFileStep
<1>3. CASE SendData
  <2>1. UNCHANGED filed BY <1>3 DEF SendData, txOnly
  <2> QED BY <1>3, <2>1, SendDataStep DEF Strikes
<1>4. CASE SendEof
  <2>1. UNCHANGED filed BY <1>4 DEF SendEof, txOnly
  <2> QED BY <1>4, <2>1, SendEofStep DEF Strikes
<1>5. CASE Interrupted
  <2>1. UNCHANGED filed BY <1>5 DEF Interrupted, txOnly
  <2> QED BY <1>5, <2>1, InterruptedStep DEF Strikes
<1>6. CASE SyncWithReceiver
  <2>1. UNCHANGED filed BY <1>6 DEF SyncWithReceiver, TxTakes, txOnly
  <2> QED BY <1>6, <2>1, SyncStep
<1>7. CASE EndSend
  <2>1. UNCHANGED filed BY <1>7 DEF EndSend, TxTakes, txOnly
  <2> QED BY <1>7, <2>1, EndSendStep DEF Strikes
<1>8. CASE TxTimer
  <2>1. TxTimeout /\ TxReading /\ UNCHANGED toTx /\ UNCHANGED <<r, up, filed, partial>>
    BY <1>8 DEF TxTimer, txOnly
  <2> QED BY <2>1, TxTimeoutStep DEF Strikes
<1>9. CASE TxNoCarrier
  <2>1. UNCHANGED filed BY <1>9 DEF TxNoCarrier, txOnly
  <2> QED BY <1>9, <2>1, TxNoCarrierStep DEF Strikes
<1>10. CASE TxEarly
  <2>1. TxTimeout /\ TxReading /\ UNCHANGED toTx /\ UNCHANGED <<r, up, filed, partial>>
    BY <1>10 DEF TxEarly
  <2> QED BY <2>1, TxTimeoutStep DEF Strikes
<1>11. CASE TxEscape
  <2>1. UNCHANGED filed BY <1>11 DEF TxEscape
  <2> QED BY <1>11, <2>1, TxEscapeStep DEF Strikes
<1> QED
  BY <1>1, <1>2, <1>3, <1>4, <1>5, <1>6, <1>7, <1>8, <1>9, <1>10, <1>11 DEF TxActs, Sender

-----------------------------------------------------------------------------
(* Steps of the receiver                                                     *)

\* What a step of the receiver has to keep
LEMMA RxStep ==
  ASSUME Inv, UNCHANGED <<z, up, struck, gone>>, ReceiverOK(r'),
         toRx' \in Seq(Frame), toTx' \in Seq(Frame),
         filed' \in Seq([name : Files, data : Seq(Units)]), partial' \in [Files -> Seq(Units)],
         Order(z, r', toRx'), Chain(z, r', toRx', up), Replies(z, r', toTx'),
         Consent(z, r', toTx', filed'), Data(r', partial', filed')
  PROVE  Inv'
<1>1. TypeInv' BY DEF Inv, TypeInv
<1>2. Order(z, r, toRx)' /\ Chain(z, r, toRx, up)' /\ Replies(z, r, toTx)'
      /\ Consent(z, r, toTx, filed)' /\ Data(r, partial, filed)'
  OBVIOUS
<1>3. Place(z)' /\ Unstruck(z, struck)' BY DEF Inv
<1> QED BY <1>1, <1>2, <1>3 DEF Inv

LEMMA Appended ==
  ASSUME NEW c \in Seq(Frame), NEW e \in Frame
  PROVE  /\ c \o <<e>> \in Seq(Frame)
         /\ \A T : e.type \notin T /\ ~Has(c, T) => ~Has(c \o <<e>>, T)
<1> DEFINE s == <<e>>
<1>1. s \in Seq(Frame) /\ \A i \in DOMAIN s : s[i] = e OBVIOUS
<1> HIDE DEF s
<1>2. \A T : e.type \notin T => ~Has(s, T) BY <1>1 DEF Has
<1>3. c \o s \in Seq(Frame) /\ \A T : ~Has(c, T) /\ ~Has(s, T) => ~Has(c \o s, T)
  BY <1>1, JoinedKeeps
<1> QED BY <1>2, <1>3 DEF s

\* The receiver gives up.
LEMMA RxGivesUp ==
  ASSUME Inv, RxFail, UNCHANGED <<z, up, struck, gone>>, NEW o, Window(toRx', toRx, o)
  PROVE  Inv' /\ UNCHANGED filed
<1>1. /\ toRx \in Seq(Frame) /\ toTx \in Seq(Frame) /\ ReceiverOK(r) /\ Order(z, r, toRx)
      /\ Replies(z, r, toTx) /\ Consent(z, r, toTx, filed) /\ Data(r, partial, filed)
      /\ filed \in Seq([name : Files, data : Seq(Units)]) /\ partial \in [Files -> Seq(Units)]
      /\ toRx' \in Seq(Frame)
  BY DEF Inv, TypeInv, Window
<1>2. /\ r' = [r EXCEPT !.at = "fail", !.file = None, !.data = <<>>] /\ UNCHANGED filed
      /\ partial' = IF r.file = None THEN partial ELSE [partial EXCEPT ![r.file] = r.data]
  BY DEF RxFail
<1>3. ReceiverOK(r') /\ r'.at = "fail" /\ r'.file = None
  <2> DEFINE empty == <<>>
  <2>1. r' = [r EXCEPT !.at = "fail", !.file = None, !.data = empty] /\ empty \in Seq(Units)
    BY <1>2
  <2> HIDE DEF empty
  <2>2. r'.at = "fail" /\ r'.file = None
        /\ r' \in [at : {"init", "sec", "pos", "ext", "data", "bibi", "done", "fail"},
                   n : Int, file : Files \cup {None}, data : Seq(Units)]
    BY <1>1, <2>1 DEF ReceiverOK
  <2>3. "fail" \notin TakingAt BY DEF TakingAt
  <2> QED BY <2>2, <2>3 DEF ReceiverOK
<1>4. "fail" \notin SeekingAt \cup TakingAt BY DEF SeekingAt, TakingAt
<1>5. PICK c \in Cleared(toTx) : toTx' = OnLine(c, <<Can>>) BY DEF RxFail
<1>6. Window(c, toTx, 0) /\ c \in Seq(Frame) BY <1>1, ClearedWindow DEF Window
<1>7. Can \in Frame /\ Can.type = "CAN" BY FrameTypes
<1>8. toTx' = c \/ toTx' = c \o <<Can>> BY <1>5 DEF OnLine
<1>9. toTx' \in Seq(Frame) BY <1>6, <1>7, <1>8, Appended
<1>10. Order(z, r', toRx')
  <2>1. Order(z, r, toRx') BY <1>1, OrderWindow
  <2> QED BY <1>3, <1>4, <2>1, OrderLeft
<1>11. Chain(z, r', toRx', up) BY <1>3, EmptyPositions
<1>12. Replies(z, r', toTx')
  <2>1. Replies(z, r, c) BY <1>1, <1>6, RepliesWindow
  <2>2. Replies(z, r, c \o <<Can>>) BY <1>6, <1>7, <2>1, RepliesNeutral
  <2>3. Replies(z, r, toTx') BY <1>8, <2>1, <2>2
  <2> QED BY <1>3, <1>4, <2>3, RepliesLeft
<1>13. Consent(z, r', toTx', filed')
  <2>1. "BAD" \notin {"ZRINIT"} /\ "BAD" \notin {"ZSKIP"} OBVIOUS
  <2>2. /\ ~Has(toTx, {"ZRINIT"}) => ~Has(c, {"ZRINIT"})
        /\ ~Has(toTx, {"ZSKIP"}) => ~Has(c, {"ZSKIP"})
    BY <1>1, <1>6, <2>1, WindowKeeps
  <2>3. /\ ~Has(c, {"ZRINIT"}) => ~Has(toTx', {"ZRINIT"})
        /\ ~Has(c, {"ZSKIP"}) => ~Has(toTx', {"ZSKIP"})
    BY <1>6, <1>7, <1>8, Appended
  <2>4. Consent(z, r', toTx', filed) BY <1>1, <1>3, <1>4, <2>2, <2>3, ConsentKeeps
  <2> QED BY <1>2, <2>4
<1>14. partial' \in [Files -> Seq(Units)] /\ Data(r', partial', filed')
  <2>1. CASE r.file = None BY <1>1, <1>2, <1>3, <2>1 DEF Data
  <2>2. CASE r.file # None
    <3>1. r.file \in Files /\ r.data \in Seq(Units) /\ Begins(r.data, r.file)
      BY <1>1, <2>2 DEF ReceiverOK, Data
    <3>2. /\ partial' \in [Files -> Seq(Units)] /\ partial'[r.file] = r.data
          /\ \A f \in Files \ {r.file} : partial'[f] = partial[f]
      BY <1>1, <1>2, <2>2, <3>1
    <3>3. \A f \in Files : Begins(partial'[f], f) BY <1>1, <3>1, <3>2 DEF Data
    <3> QED BY <1>1, <1>2, <1>3, <3>2, <3>3 DEF Data
  <2> QED BY <2>1, <2>2
<1>15. filed' \in Seq([name : Files, data : Seq(Units)]) BY <1>1, <1>2
<1> QED BY <1>1, <1>2, <1>3, <1>9, <1>10, <1>11, <1>12, <1>13, <1>14, <1>15, RxStep

\* The receiver is done and says so, or not.
LEMMA RxLeaves ==
  ASSUME Inv, UNCHANGED <<z, up, struck, gone>>, UNCHANGED <<filed, partial>>,
         NEW o, Window(toRx', toRx, o), ReceiverOK(r'), r'.at \notin SeekingAt \cup TakingAt,
         NEW e \in Frame, e.type \notin {"ZRPOS", "ZRINIT", "ZSKIP"},
         toTx' = toTx \/ toTx' = OnLine(toTx, <<e>>)
  PROVE  Inv'
<1>1. /\ toRx \in Seq(Frame) /\ toTx \in Seq(Frame) /\ Order(z, r, toRx)
      /\ Replies(z, r, toTx) /\ Consent(z, r, toTx, filed) /\ Data(r, partial, filed)
      /\ filed' \in Seq([name : Files, data : Seq(Units)]) /\ partial' \in [Files -> Seq(Units)]
      /\ toRx' \in Seq(Frame)
  BY DEF Inv, TypeInv, Window
<1>2. r'.file = None BY DEF ReceiverOK
<1>3. toTx' = toTx \/ toTx' = toTx \o <<e>> BY DEF OnLine
<1>4. toTx' \in Seq(Frame) BY <1>1, <1>3, Appended
<1>5. Order(z, r', toRx')
  <2>1. Order(z, r, toRx') BY <1>1, OrderWindow
  <2> QED BY <1>2, <2>1, OrderLeft
<1>6. Chain(z, r', toRx', up) BY <1>2, EmptyPositions
<1>7. Replies(z, r', toTx')
  <2>1. Replies(z, r, toTx \o <<e>>) BY <1>1, RepliesNeutral
  <2>2. Replies(z, r, toTx') BY <1>1, <1>3, <2>1
  <2>3. r'.at \notin SeekingAt OBVIOUS
  <2> QED BY <1>2, <2>2, <2>3, RepliesLeft
<1>8. Consent(z, r', toTx', filed')
  <2>1. /\ ~Has(toTx, {"ZRINIT"}) => ~Has(toTx', {"ZRINIT"})
        /\ ~Has(toTx, {"ZSKIP"}) => ~Has(toTx', {"ZSKIP"})
    BY <1>1, <1>3, Appended
  <2>2. Consent(z, r', toTx', filed) BY <1>1, <2>1, ConsentKeeps
  <2> QED BY <2>2
<1>9. Data(r', partial', filed') BY <1>1, <1>2 DEF Data
<1> QED BY <1>1, <1>4, <1>5, <1>6, <1>7, <1>8, <1>9, RxStep

\* The receiver goes on looking for a file.
LEMMA RxSeeks ==
  ASSUME Inv, UNCHANGED <<z, up, struck, gone>>, UNCHANGED <<filed, partial>>,
         NEW o, Window(toRx', toRx, o), ReceiverOK(r'), r.at \in SeekingAt, r'.at \in SeekingAt,
         r'.at = "sec" => ~Has(toRx', DataT) /\ z.at \notin SendingAt,
         \/ toTx' = toTx
         \/ toTx' = OnLine(toTx, <<Hdr("ZRINIT", 0)>>)
         \/ toTx' = OnLine(toTx, <<Hdr("ZNAK", 0)>>)
  PROVE  Inv'
<1>1. /\ toRx \in Seq(Frame) /\ toTx \in Seq(Frame) /\ Order(z, r, toRx) /\ ReceiverOK(r)
      /\ Replies(z, r, toTx) /\ Consent(z, r, toTx, filed) /\ Data(r, partial, filed)
      /\ filed' \in Seq([name : Files, data : Seq(Units)]) /\ partial' \in [Files -> Seq(Units)]
      /\ toRx' \in Seq(Frame)
  BY DEF Inv, TypeInv, Window
<1>2. r'.file = None /\ r.file = None BY <1>1 DEF ReceiverOK, SeekingAt, TakingAt
<1> DEFINE h == Hdr("ZRINIT", 0)
           k == Hdr("ZNAK", 0)
<1>3. h \in Frame /\ h.type = "ZRINIT" /\ k \in Frame /\ k.type = "ZNAK"
  BY FrameTypes DEF Headers
<1>4. toTx' = toTx \/ toTx' = toTx \o <<h>> \/ toTx' = toTx \o <<k>> BY DEF OnLine
<1>5. Replies(z, r, toTx \o <<h>>) BY <1>1, <1>2, RepliesReady
<1> HIDE DEF h, k
<1>6. Replies(z, r, toTx \o <<k>>) BY <1>1, <1>3, RepliesNeutral
<1>7. toTx' \in Seq(Frame) BY <1>1, <1>3, <1>4, Appended
<1>8. Order(z, r', toRx')
  <2>1. Order(z, r, toRx') BY <1>1, OrderWindow
  <2> QED BY <1>2, <2>1, OrderSeek
<1>9. Chain(z, r', toRx', up) BY <1>2, EmptyPositions
<1>10. Replies(z, r', toTx')
  <2>1. Replies(z, r, toTx') BY <1>1, <1>4, <1>5, <1>6
  <2> QED BY <1>2, <2>1, RepliesStay
<1>11. Consent(z, r', toTx', filed')
  <2>1. ~Has(toTx, {"ZSKIP"}) => ~Has(toTx', {"ZSKIP"})
    BY <1>1, <1>3, <1>4, Appended
  <2>2. Consent(z, r', toTx', filed) BY <1>1, <2>1, ConsentKeeps
  <2> QED BY <2>2
<1>12. Data(r', partial', filed') BY <1>1, <1>2 DEF Data
<1> QED BY <1>1, <1>7, <1>8, <1>9, <1>10, <1>11, <1>12, RxStep

\* The receiver goes on with the file it has open.
LEMMA RxTakesOn ==
  ASSUME Inv, UNCHANGED <<z, up, struck, gone>>, UNCHANGED <<filed, partial>>,
         toRx' = toRx \/ (toRx # <<>> /\ toRx' = Tail(toRx)),
         ReceiverOK(r'), r.at \in TakingAt, r'.at \in {"pos", "ext"},
         r'.file = r.file, r'.data = r.data,
         toTx' = toTx \/ toTx' = OnLine(toTx, <<Hdr("ZRPOS", Len(r.data))>>)
  PROVE  Inv'
<1>1. /\ toRx \in Seq(Frame) /\ toTx \in Seq(Frame) /\ Order(z, r, toRx) /\ ReceiverOK(r)
      /\ Replies(z, r, toTx) /\ Consent(z, r, toTx, filed) /\ Data(r, partial, filed)
      /\ filed' \in Seq([name : Files, data : Seq(Units)]) /\ partial' \in [Files -> Seq(Units)]
      /\ Chain(z, r, toRx, up)
  BY DEF Inv, TypeInv
<1>2. /\ r.file # None /\ r.file \in Files /\ r.data \in Seq(Units)
      /\ r'.at \in TakingAt /\ r'.at \notin SeekingAt /\ r'.at # "data"
  BY <1>1 DEF ReceiverOK, SeekingAt, TakingAt
<1>3. \E o : Window(toRx', toRx, o)
  <2>1. CASE toRx' = toRx BY <1>1, <2>1, SameWindow
  <2>2. CASE toRx # <<>> /\ toRx' = Tail(toRx) BY <1>1, <2>2, TailWindow
  <2> QED BY <2>1, <2>2
<1>4. PICK o : Window(toRx', toRx, o) BY <1>3
<1>5. Order(z, r', toRx') /\ toRx' \in Seq(Frame)
  <2>1. Order(z, r, toRx') BY <1>1, <1>4, OrderWindow
  <2>2. Order(z, r', toRx') BY <1>2, <2>1, OrderTake
  <2> QED BY <1>4, <2>2 DEF Window
<1>6. Chain(z, r', toRx', up)
  <2>1. CASE toRx' = toRx
    <3>1. Chain(z, r', toRx, up) BY <1>1, <1>2, ChainStay
    <3> QED BY <2>1, <3>1
  <2>2. CASE toRx # <<>> /\ toRx' = Tail(toRx)
    <3>1. Chain(z, r', Tail(toRx), up) BY <1>1, <1>2, <2>2, ChainRead
    <3> QED BY <2>2, <3>1
  <2> QED BY <2>1, <2>2
<1> DEFINE q == Len(r.data)
           e == Hdr("ZRPOS", q)
<1>7. q \in Nat /\ q <= Size[Outbound[z.idx]] /\ z.at # "init"
  <2>1. r.file = Outbound[z.idx] /\ z.at # "init" BY <1>1, <1>2 DEF Order
  <2>2. q <= Size[r.file] BY <1>1, <1>2 DEF Data, Begins
  <2> QED BY <1>2, <2>1, <2>2
<1>8. e \in Frame /\ e.type = "ZRPOS" BY <1>7, FrameTypes DEF Headers
<1>9. toTx' = toTx \/ toTx' = toTx \o <<e>> BY DEF OnLine
<1> HIDE DEF q
<1>10. Replies(z, r, toTx \o <<e>>) BY <1>1, <1>2, <1>7, RepliesPlace
<1> HIDE DEF e
<1>11. toTx' \in Seq(Frame) BY <1>1, <1>8, <1>9, Appended
<1>12. Replies(z, r', toTx')
  <2>1. Replies(z, r, toTx') BY <1>1, <1>9, <1>10
  <2> QED BY <1>2, <2>1, RepliesStay
<1>13. Consent(z, r', toTx', filed')
  <2>1. /\ ~Has(toTx, {"ZRINIT"}) => ~Has(toTx', {"ZRINIT"})
        /\ ~Has(toTx, {"ZSKIP"}) => ~Has(toTx', {"ZSKIP"})
    BY <1>1, <1>8, <1>9, Appended
  <2>2. Consent(z, r', toTx', filed) BY <1>1, <1>2, <2>1, ConsentKeeps
  <2> QED BY <2>2
<1>14. Data(r', partial', filed') BY <1>1 DEF Data
<1> QED BY <1>1, <1>5, <1>6, <1>11, <1>12, <1>13, <1>14, RxStep

Reads == toRx' = toRx \/ (toRx # <<>> /\ toRx' = Tail(toRx))

LEMMA ReadsWindow ==
  ASSUME Inv, Reads
  PROVE  \E o : Window(toRx', toRx, o)
<1>1. toRx \in Seq(Frame) BY DEF Inv, TypeInv
<1>2. CASE toRx' = toRx BY <1>1, <1>2, SameWindow
<1>3. CASE toRx # <<>> /\ toRx' = Tail(toRx) BY <1>1, <1>3, TailWindow
<1> QED BY <1>2, <1>3 DEF Reads

\* The receiver gives up, or goes on looking.
LEMMA SeekAgain ==
  ASSUME Inv, UNCHANGED <<z, up, struck, gone>>, Reads, r.at \in SeekingAt, InitAgain \/ BadName
  PROVE  Inv' /\ UNCHANGED filed
<1>1. PICK o : Window(toRx', toRx, o) BY ReadsWindow
<1>2. ReceiverOK(r) BY DEF Inv, TypeInv
<1>3. CASE RxFail BY <1>1, <1>3, RxGivesUp
<1>4. CASE ~RxFail
  <2>1. /\ r' = [r EXCEPT !.n = @ - 1, !.at = "init"] /\ UNCHANGED <<filed, partial>>
        /\ \/ toTx' = OnLine(toTx, <<Hdr("ZRINIT", 0)>>)
           \/ toTx' = OnLine(toTx, <<Hdr("ZNAK", 0)>>)
    BY <1>4 DEF InitAgain, BadName, Answers, RxKeeps
  <2>2. ReceiverOK(r') /\ r'.at = "init"
    <3>1. r'.at = "init" /\ r'.file = r.file BY <1>2, <2>1 DEF ReceiverOK
    <3>2. r.file = None /\ "init" \notin TakingAt BY <1>2 DEF ReceiverOK, SeekingAt, TakingAt
    <3> DEFINE k == r.n - 1
    <3>3. k \in Int BY <1>2 DEF ReceiverOK
    <3>4. r' = [r EXCEPT !.n = k, !.at = "init"] BY <2>1
    <3> HIDE DEF k
    <3>5. r' \in [at : {"init", "sec", "pos", "ext", "data", "bibi", "done", "fail"},
                 n : Int, file : Files \cup {None}, data : Seq(Units)]
      BY <1>2, <3>3, <3>4 DEF ReceiverOK
    <3> QED BY <3>1, <3>2, <3>5 DEF ReceiverOK
  <2>3. r'.at \in SeekingAt /\ r'.at # "sec" BY <2>2 DEF SeekingAt
  <2>4. Inv' BY <1>1, <2>1, <2>2, <2>3, RxSeeks
  <2> QED BY <2>1, <2>4
<1> QED BY <1>3, <1>4

\* The receiver gives up, or says once more where its file goes on.
LEMMA TakeAgain ==
  ASSUME Inv, UNCHANGED <<z, up, struck, gone>>, Reads, r.at \in TakingAt, AskAgain
  PROVE  Inv' /\ UNCHANGED filed
<1>1. PICK o : Window(toRx', toRx, o) BY ReadsWindow
<1>2. ReceiverOK(r) BY DEF Inv, TypeInv
<1>3. CASE RxFail BY <1>1, <1>3, RxGivesUp
<1>4. CASE ~RxFail
  <2>1. /\ r' = [r EXCEPT !.n = @ - 1, !.at = "pos"] /\ UNCHANGED <<filed, partial>>
        /\ toTx' = OnLine(toTx, <<Hdr("ZRPOS", Len(r.data))>>)
    BY <1>4 DEF AskAgain, Answers, RxKeeps
  <2>2. /\ ReceiverOK(r') /\ r'.at \in {"pos", "ext"} /\ r'.file = r.file /\ r'.data = r.data
    <3>1. r'.at = "pos" /\ r'.file = r.file /\ r'.data = r.data
      BY <1>2, <2>1 DEF ReceiverOK
    <3>2. r.file # None /\ "pos" \in TakingAt BY <1>2 DEF ReceiverOK, TakingAt
    <3> DEFINE k == r.n - 1
    <3>3. k \in Int BY <1>2 DEF ReceiverOK
    <3>4. r' = [r EXCEPT !.n = k, !.at = "pos"] BY <2>1
    <3> HIDE DEF k
    <3>5. r' \in [at : {"init", "sec", "pos", "ext", "data", "bibi", "done", "fail"},
                 n : Int, file : Files \cup {None}, data : Seq(Units)]
      BY <1>2, <3>3, <3>4 DEF ReceiverOK
    <3> QED BY <3>1, <3>2, <3>5 DEF ReceiverOK
  <2>3. Inv' BY <2>1, <2>2, RxTakesOn DEF Reads
  <2> QED BY <2>1, <2>3
<1> QED BY <1>3, <1>4

\* The receiver reads a name, whatever it is, and says where its file goes on.
LEMMA NameAgain ==
  ASSUME Inv, UNCHANGED <<z, up, struck, gone>>, Reads, r.at = "ext",
         r' = [r EXCEPT !.at = "pos"], Answers(Hdr("ZRPOS", Len(r.data))), RxKeeps
  PROVE  Inv' /\ UNCHANGED filed
<1>1. ReceiverOK(r) BY DEF Inv, TypeInv
<1>2. /\ ReceiverOK(r') /\ r'.at \in {"pos", "ext"} /\ r'.file = r.file /\ r'.data = r.data
      /\ r.at \in TakingAt
  BY <1>1 DEF ReceiverOK, TakingAt
<1>3. UNCHANGED <<filed, partial>> /\ toTx' = OnLine(toTx, <<Hdr("ZRPOS", Len(r.data))>>)
  BY DEF RxKeeps, Answers
<1>4. Inv' BY <1>2, <1>3, RxTakesOn DEF Reads
<1> QED BY <1>3, <1>4

LEMMA TakesFacts ==
  ASSUME Inv, RxTakes
  PROVE  /\ UNCHANGED <<z, up, struck, gone>> /\ Reads /\ toRx # <<>> /\ toRx' = Tail(toRx)
         /\ RxHeader = toRx[1].type /\ Head(toRx) = toRx[1] /\ 1 \in DOMAIN toRx
         /\ toRx[1] \in Frame /\ Window(toRx', toRx, 1)
         /\ \A T : toRx[1].type \in T => Has(toRx, T)
<1>1. toRx # <<>> /\ toRx' = Tail(toRx) /\ UNCHANGED <<z, up, struck, gone>>
  BY DEF RxTakes, rxOnly
<1>2. toRx \in Seq(Frame) BY DEF Inv, TypeInv
<1>3. Head(toRx) = toRx[1] /\ 1 \in DOMAIN toRx /\ toRx[1] \in Frame /\ Window(toRx', toRx, 1)
  BY <1>1, <1>2, TailWindow
<1> QED BY <1>1, <1>3 DEF Reads, RxHeader, Has

\* No frame of a kind follows where Before excludes it.
LEMMA NothingAfter ==
  ASSUME NEW c \in Seq(Frame), NEW d, Window(d, c, 1), 1 \in DOMAIN c, NEW T, NEW U,
         Before(c, T, U), c[1].type \in T, "BAD" \notin U
  PROVE  ~Has(d, U)
<1>1. \A k \in DOMAIN d : k + 1 \in DOMAIN c /\ 1 < k + 1 /\ (d[k] = c[k + 1] \/ d[k] = Bad)
  BY DEF Window
<1> QED BY <1>1 DEF Before, Has, Bad

LEMMA InitReceiverStep ==
  ASSUME Inv, InitReceiver
  PROVE  Inv' /\ UNCHANGED filed
<1>1. RxTakes /\ r.at = "init" BY DEF InitReceiver
<1>2. r.at \in SeekingAt /\ ReceiverOK(r) /\ Order(z, r, toRx) /\ toRx \in Seq(Frame)
  BY <1>1 DEF SeekingAt, Inv, TypeInv
<1>3. /\ UNCHANGED <<z, up, struck, gone>> /\ Reads /\ Window(toRx', toRx, 1)
      /\ RxHeader = toRx[1].type /\ 1 \in DOMAIN toRx
  BY <1>1, TakesFacts
<1>4. CASE RxHeader = "ZFILE"
  <2>1. r' = [r EXCEPT !.at = "sec"] /\ UNCHANGED toTx /\ UNCHANGED <<filed, partial>>
    BY <1>4 DEF InitReceiver, RxKeeps
  <2>2. ReceiverOK(r') /\ r'.at \in SeekingAt
    BY <1>1, <1>2, <2>1 DEF ReceiverOK, SeekingAt, TakingAt
  <2>3. toRx[1].type \in NameT BY <1>3, <1>4 DEF NameT
  <2>4. Has(toRx, NameT) BY <1>1, <2>3, TakesFacts
  <2>5. z.at \notin SendingAt /\ Before(toRx, NameT, DataT) BY <1>2, <2>4 DEF Order
  <2>6. ~Has(toRx', DataT)
    <3>1. "BAD" \notin DataT BY DEF DataT
    <3> QED BY <1>2, <1>3, <2>3, <2>5, <3>1, NothingAfter
  <2>7. Inv' BY <1>2, <1>3, <2>1, <2>2, <2>5, <2>6, RxSeeks
  <2> QED BY <2>1, <2>7
<1>5. CASE RxHeader = "ZFIN"
  <2> DEFINE e == Hdr("ZFIN", 0)
  <2>1. r' = [r EXCEPT !.at = "bibi"] /\ toTx' = OnLine(toTx, <<e>>) /\ UNCHANGED <<filed, partial>>
    BY <1>5 DEF InitReceiver, RxKeeps, Answers
  <2>2. e \in Frame /\ e.type \notin {"ZRPOS", "ZRINIT", "ZSKIP"} BY FrameTypes DEF Headers
  <2> HIDE DEF e
  <2>3. ReceiverOK(r') /\ r'.at \notin SeekingAt \cup TakingAt
    BY <1>1, <1>2, <2>1 DEF ReceiverOK, SeekingAt, TakingAt
  <2>4. Inv' BY <1>3, <2>1, <2>2, <2>3, RxLeaves
  <2> QED BY <2>1, <2>4
<1>6. CASE RxHeader = "CAN"
  <2>1. RxFail BY <1>6 DEF InitReceiver
  <2> QED BY <1>3, <2>1, RxGivesUp
<1>7. CASE RxHeader \in {"SUB", "NAME", "OO"}
  <2>1. r' = r /\ UNCHANGED toTx /\ UNCHANGED <<filed, partial>>
    BY <1>7 DEF InitReceiver, RxKeeps
  <2>2. ReceiverOK(r') /\ r'.at \in SeekingAt /\ r'.at # "sec" BY <1>1, <1>2, <2>1
  <2>3. Inv' BY <1>2, <1>3, <2>1, <2>2, RxSeeks
  <2> QED BY <2>1, <2>3
<1>8. CASE RxHeader \notin {"ZFILE", "ZFIN", "CAN", "SUB", "NAME", "OO"}
  <2>1. InitAgain BY <1>8 DEF InitReceiver
  <2> QED BY <1>2, <1>3, <2>1, SeekAgain
<1> QED BY <1>4, <1>5, <1>6, <1>7, <1>8

LEMMA SeqElement == ASSUME NEW S, NEW s \in Seq(S), NEW i \in DOMAIN s PROVE s[i] \in S
OBVIOUS

\* What is filed under the name of a file is that file.
LEMMA HaveArrived ==
  ASSUME Data(r, partial, filed), filed \in Seq([name : Files, data : Seq(Units)]), NEW f,
         Have(f) \/ f \in Held
  PROVE  ArrivedIn(filed, f)
<1>1. CASE f \in Held BY <1>1 DEF ArrivedIn
<1>2. CASE Have(f)
  <2>1. PICK i \in DOMAIN filed : filed[i].name = f BY <1>2 DEF Have
  <2>2. filed[i] \in [name : Files, data : Seq(Units)] BY SeqElement
  <2>3. filed[i] = [name |-> filed[i].name, data |-> filed[i].data] BY <2>2
  <2>4. filed[i].data = Content(f) BY <2>1 DEF Data
  <2> QED BY <2>1, <2>3, <2>4 DEF ArrivedIn
<1> QED BY <1>1, <1>2

LEMMA ReceiveNameStep ==
  ASSUME Inv, RefusedOnce, ReceiveName
  PROVE  Inv' /\ UNCHANGED filed
<1>1. RxTakes /\ r.at = "sec" BY DEF ReceiveName
<1>2. /\ r.at \in SeekingAt /\ ReceiverOK(r) /\ Order(z, r, toRx) /\ toRx \in Seq(Frame)
      /\ toTx \in Seq(Frame) /\ Data(r, partial, filed) /\ Replies(z, r, toTx)
      /\ Consent(z, r, toTx, filed) /\ SenderOK(z)
      /\ filed \in Seq([name : Files, data : Seq(Units)]) /\ partial \in [Files -> Seq(Units)]
  BY <1>1 DEF SeekingAt, Inv, TypeInv
<1>3. /\ UNCHANGED <<z, up, struck, gone>> /\ Reads /\ Window(toRx', toRx, 1)
      /\ RxHeader = toRx[1].type /\ 1 \in DOMAIN toRx /\ Head(toRx) = toRx[1]
      /\ toRx[1] \in Frame
  BY <1>1, TakesFacts
<1>4. CASE RxHeader = "NAME"
  <2> DEFINE f == Head(toRx).file
  <2>1. toRx[1].type \in NameT /\ toRx[1].type \in {"NAME"} /\ toRx[1].type \in NameT \cup DataT
    BY <1>3, <1>4 DEF NameT
  <2>2. Has(toRx, NameT) /\ Has(toRx, {"NAME"}) /\ Has(toRx, NameT \cup DataT)
    BY <1>1, <2>1, TakesFacts
  <2>3. z.idx # 0 /\ f = Outbound[z.idx] /\ z.at # "init" /\ z.at \notin SendingAt
        /\ ~Has(toRx, DataT)
    <3>1. r.at \in SeekingAt \cup TakingAt /\ r.at # "init" BY <1>1, <1>2
    <3> QED BY <1>1, <1>2, <1>3, <1>4, <2>2, <3>1 DEF Order, NamesAre
  <2>4. f \in Files BY <1>3, <1>4, FrameTypes
  <2>5. z.at \in AskingAt \cup Ended
    BY <1>2, <2>3 DEF SenderOK, AskingAt, SendingAt, Ended
  <2>6. ~Has(toTx, {"ZSKIP"}) BY <2>2 DEF RefusedOnce
  <2>7. UNCHANGED <<filed, partial>> BY <1>4 DEF ReceiveName, RxKeeps
  <2>8. Order(z, r, toRx') /\ toRx' \in Seq(Frame) /\ ~Has(toRx', DataT)
    <3>1. toRx' \in Seq(Frame) BY <1>3 DEF Window
    <3>2. "BAD" \notin DataT BY DEF DataT
    <3> QED BY <1>2, <1>3, <2>3, <3>1, <3>2, OrderWindow, WindowKeeps
  <2>9. Tries \in Nat \ {0} BY ZmodemAssumption
  <2>10. /\ filed' \in Seq([name : Files, data : Seq(Units)])
         /\ partial' \in [Files -> Seq(Units)]
    BY <1>2, <2>7
  <2>11. CASE Refuses(f)
    <3> DEFINE e == Hdr("ZSKIP", 0)
    <3>1. r' = Idle /\ toTx' = OnLine(toTx, <<e>>)
      BY <1>4, <2>11 DEF ReceiveName, Answers
    <3>2. e \in Frame /\ e.type = "ZSKIP" BY FrameTypes DEF Headers
    <3>3. ReceiverOK(r') /\ r'.at = "init" /\ r'.file = None
      BY <2>9, <3>1 DEF ReceiverOK, Idle, TakingAt
    <3>3a. r'.at \in SeekingAt /\ r.file = None /\ r'.at # "sec"
      BY <1>1, <1>2, <3>3 DEF SeekingAt, ReceiverOK, TakingAt
    <3>4. toTx' = toTx \/ toTx' = toTx \o <<e>> BY <3>1 DEF OnLine
    <3>5. Replies(z, r, toTx \o <<e>>) BY <1>2, <2>5, <3>3a, RepliesSkip
    <3> HIDE DEF e
    <3>6. toTx' \in Seq(Frame) BY <1>2, <3>2, <3>4, Appended
    <3>7. Replies(z, r', toTx')
      <4>1. Replies(z, r, toTx') BY <1>2, <3>4, <3>5
      <4> QED BY <1>2, <3>3, <3>3a, <4>1, RepliesStay
    <3>8. Order(z, r', toRx') BY <1>2, <2>8, <3>3, <3>3a, OrderSeek
    <3>9. Chain(z, r', toRx', up) BY <3>3, EmptyPositions
    <3>10. Consent(z, r', toTx', filed')
      <4>1. ArrivedIn(filed, f) \/ Size[f] > Room BY <1>2, <2>11, HaveArrived DEF Refuses
      <4> QED BY <2>3, <2>7, <4>1 DEF Consent
    <3>11. Data(r', partial', filed') BY <1>2, <2>7, <3>3 DEF Data
    <3>12. Inv'
      BY <1>3, <2>8, <2>10, <3>3, <3>6, <3>7, <3>8, <3>9, <3>10, <3>11, RxStep
    <3> QED BY <2>7, <3>12
  <2>12. CASE ~Refuses(f)
    <3> DEFINE q == Filestart(f)
               e == Hdr("ZRPOS", q)
               d == IF q = 0 THEN <<>> ELSE partial[f]
    <3>1. r' = [at |-> "pos", n |-> Tries, file |-> f, data |-> d] /\ toTx' = OnLine(toTx, <<e>>)
      BY <1>4, <2>12 DEF ReceiveName, Answers
    <3>2. q \in Nat /\ q <= Size[f]
      <4>1. Len(partial[f]) \in Nat /\ Len(partial[f]) <= Size[f]
        BY <1>2, <2>4 DEF Data, Begins
      <4>2. Size[f] \in Nat BY <2>4, ListFacts
      <4> QED BY <4>1, <4>2 DEF Filestart
    <3>3. d \in Seq(Units) /\ Begins(d, f)
      <4>1. <<>> \in Seq(Units) /\ partial[f] \in Seq(Units) BY <1>2, <2>4
      <4>2. Begins(<<>>, f) /\ Begins(partial[f], f) BY <1>2, <2>4, WholeFile DEF Data
      <4> QED BY <4>1, <4>2
    <3> HIDE DEF d, q
    <3>4. e \in Frame /\ e.type = "ZRPOS" BY <3>2, FrameTypes DEF Headers
    <3>5. f # None BY <2>4, ListFacts
    <3> HIDE DEF f
    <3>6. ReceiverOK(r') /\ r'.at = "pos" /\ r'.file = f /\ r'.data = d
      BY <2>4, <2>9, <3>1, <3>3, <3>5 DEF ReceiverOK, TakingAt
    <3>7. "pos" \in TakingAt /\ "pos" \notin SeekingAt BY DEF TakingAt, SeekingAt
    <3>8. toTx' = toTx \/ toTx' = toTx \o <<e>> BY <3>1 DEF OnLine
    <3>9. Replies(z, r', toTx) BY <1>2, <2>3, <2>6, <3>6, <3>7, RepliesAccept
    <3>10. Replies(z, r', toTx \o <<e>>)
      <4>1. q <= Size[Outbound[z.idx]] /\ r'.at \in TakingAt /\ r'.file # None
        BY <2>3, <3>2, <3>5, <3>6, <3>7
      <4> QED BY <1>2, <2>3, <3>2, <3>9, <4>1, RepliesPlace
    <3> HIDE DEF e
    <3>11. toTx' \in Seq(Frame) /\ ~Has(toTx', {"ZSKIP"})
      BY <1>2, <2>6, <3>4, <3>8, Appended
    <3>12. Replies(z, r', toTx') BY <3>8, <3>9, <3>10
    <3>13. Order(z, r', toRx')
      BY <1>1, <2>3, <2>8, <3>6, OrderAccept
    <3>14. Chain(z, r', toRx', up)
      <4>1. r'.at # "data" BY <3>6
      <4> QED BY <2>8, <4>1, NoDataChain
    <3>15. Consent(z, r', toTx', filed') BY <2>3, <3>11 DEF Consent
    <3>16. Data(r', partial', filed') BY <1>2, <2>7, <3>3, <3>6 DEF Data
    <3>17. Inv'
      BY <1>3, <2>8, <2>10, <3>6, <3>11, <3>12, <3>13, <3>14, <3>15, <3>16, RxStep
    <3> QED BY <2>7, <3>17
  <2> QED BY <2>11, <2>12
<1>5. CASE RxHeader = "CAN"
  <2>1. RxFail BY <1>5 DEF ReceiveName
  <2> QED BY <1>3, <2>1, RxGivesUp
<1>6. CASE RxHeader \notin {"NAME", "CAN"}
  <2>1. BadName BY <1>6 DEF ReceiveName
  <2> QED BY <1>2, <1>3, <2>1, SeekAgain
<1> QED BY <1>4, <1>5, <1>6

\* What a step of the receiver may file: the file it is being sent, whole.
Files1 == \/ UNCHANGED filed
          \/ /\ z.idx # 0
             /\ filed' = Append(filed, [name |-> Offered, data |-> Content(Offered)])

LEMMA AppendKeeps ==
  ASSUME NEW S, NEW c \in Seq(S), NEW e \in S, NEW d, d = Append(c, e)
  PROVE  /\ d \in Seq(S) /\ Len(d) \in DOMAIN d /\ d[Len(d)] = e
         /\ \A i \in DOMAIN c : i \in DOMAIN d /\ d[i] = c[i]
         /\ \A i \in DOMAIN d : d[i] = e \/ (i \in DOMAIN c /\ d[i] = c[i])
OBVIOUS

LEMMA ArrivedStays ==
  ASSUME filed \in Seq([name : Files, data : Seq(Units)]), Files1, SenderOK(z)
  PROVE  /\ \A f : ArrivedIn(filed, f) => ArrivedIn(filed', f)
         /\ \A f : ArrivedIn(filed', f) => ArrivedIn(filed, f) \/ (z.idx # 0 /\ f = Offered)
         /\ UNCHANGED filed \/ ArrivedIn(filed', Offered)
<1>1. CASE UNCHANGED filed BY <1>1
<1>2. CASE ~UNCHANGED filed
  <2> DEFINE e == [name |-> Offered, data |-> Content(Offered)]
  <2>1. z.idx # 0 /\ filed' = Append(filed, e) BY <1>2 DEF Files1
  <2>2. Offered \in Files BY <2>1, ListFacts DEF SenderOK, Offered
  <2>3. Content(Offered) \in Seq(Units) BY <2>2, ContentFacts
  <2>4. e \in [name : Files, data : Seq(Units)] BY <2>2, <2>3
  <2> HIDE DEF e
  <2>5. /\ Len(filed') \in DOMAIN filed' /\ filed'[Len(filed')] = e
        /\ \A i \in DOMAIN filed : i \in DOMAIN filed' /\ filed'[i] = filed[i]
        /\ \A i \in DOMAIN filed' : filed'[i] = e \/ (i \in DOMAIN filed /\ filed'[i] = filed[i])
    BY <2>1, <2>4, AppendKeeps
  <2>6. \A f : ArrivedIn(filed, f) => ArrivedIn(filed', f) BY <2>5 DEF ArrivedIn
  <2>7. ASSUME NEW f, ArrivedIn(filed', f) PROVE ArrivedIn(filed, f) \/ f = Offered
    <3>1. CASE f \in Held BY <3>1 DEF ArrivedIn
    <3>2. CASE f \notin Held
      <4>1. PICK i \in DOMAIN filed' : filed'[i] = [name |-> f, data |-> Content(f)]
        BY <2>7, <3>2 DEF ArrivedIn
      <4>2. CASE filed'[i] = e
        <5>1. filed'[i].name = Offered BY <4>2 DEF e
        <5>2. filed'[i].name = f BY <4>1
        <5> QED BY <5>1, <5>2
      <4>3. CASE i \in DOMAIN filed /\ filed'[i] = filed[i] BY <4>1, <4>3 DEF ArrivedIn
      <4> QED BY <2>5, <4>2, <4>3
    <3> QED BY <3>1, <3>2
  <2>8. ArrivedIn(filed', Offered) BY <2>5 DEF ArrivedIn, e
  <2> QED BY <2>1, <2>6, <2>7, <2>8
<1> QED BY <1>1, <1>2

\* The end of the file where all that was received ends: the receiver files it.
LEMMA RxFiles ==
  ASSUME Inv, RxTakes, r.at = "pos", RxHeader = "ZEOF", toRx[1].pos = Len(r.data),
         filed' = Append(filed, [name |-> r.file, data |-> r.data]),
         partial' = IF Filestart(r.file) = 0 THEN partial ELSE [partial EXCEPT ![r.file] = <<>>],
         r' = Idle, Answers(Hdr("ZRINIT", 0))
  PROVE  Inv' /\ Files1
<1>1. /\ ReceiverOK(r) /\ Order(z, r, toRx) /\ toRx \in Seq(Frame) /\ SenderOK(z)
      /\ toTx \in Seq(Frame) /\ Data(r, partial, filed) /\ Replies(z, r, toTx)
      /\ Consent(z, r, toTx, filed)
      /\ filed \in Seq([name : Files, data : Seq(Units)]) /\ partial \in [Files -> Seq(Units)]
  BY DEF Inv, TypeInv
<1>2. /\ UNCHANGED <<z, up, struck, gone>> /\ Window(toRx', toRx, 1)
      /\ RxHeader = toRx[1].type /\ 1 \in DOMAIN toRx
  BY TakesFacts
<1>3. r.at \in TakingAt /\ r.file # None /\ r.file \in Files /\ r.data \in Seq(Units)
  BY <1>1 DEF ReceiverOK, TakingAt
<1>4. toRx[1].type \in DataT BY <1>2 DEF DataT
<1>5. Has(toRx, DataT) BY <1>4, TakesFacts
<1>6. /\ z.idx # 0 /\ r.file = Outbound[z.idx] /\ Before(toRx, DataT, NameT)
      /\ EofsAre(toRx, Size[r.file]) /\ z.at \notin AskingAt /\ z.at # "init"
  BY <1>1, <1>3, <1>5 DEF Order
<1> DEFINE f == r.file
           e == [name |-> f, data |-> r.data]
<1>7. Len(r.data) = Size[f] BY <1>2, <1>6 DEF EofsAre
<1>8. r.data = Content(f) BY <1>1, <1>3, <1>7, WholeFile DEF Data
<1>9. e \in [name : Files, data : Seq(Units)] /\ e.name = f /\ e.data = Content(f)
  BY <1>3, <1>8
<1>10. Files1 BY <1>6, <1>8 DEF Files1, Offered
<1>11. filed' = Append(filed, e) OBVIOUS
<1> HIDE DEF e
<1>12. filed' \in Seq([name : Files, data : Seq(Units)]) /\
       \A i \in DOMAIN filed' : filed'[i] = e \/ (i \in DOMAIN filed /\ filed'[i] = filed[i])
  BY <1>1, <1>9, <1>11, AppendKeeps
<1>13. ~Has(toRx', NameT)
  <2>1. "BAD" \notin NameT BY DEF NameT
  <2> QED BY <1>1, <1>2, <1>4, <1>6, <2>1, NothingAfter
<1>14. ReceiverOK(r') /\ r'.at = "init" /\ r'.file = None /\ r'.at \in SeekingAt
  <2>1. Tries \in Nat \ {0} BY ZmodemAssumption
  <2> QED BY <2>1 DEF ReceiverOK, Idle, TakingAt, SeekingAt
<1>15. toRx' \in Seq(Frame) /\ Order(z, r', toRx')
  <2>1. toRx' \in Seq(Frame) BY <1>2 DEF Window
  <2>2. Order(z, r, toRx') BY <1>1, <1>2, OrderWindow
  <2> QED BY <1>3, <1>13, <1>14, <2>1, <2>2, OrderFiled
<1>16. Chain(z, r', toRx', up) BY <1>14, EmptyPositions
<1> DEFINE h == Hdr("ZRINIT", 0)
<1>17. h \in Frame /\ h.type = "ZRINIT" BY FrameTypes DEF Headers
<1>18. toTx' = toTx \/ toTx' = toTx \o <<h>> BY DEF Answers, OnLine
<1>19. Replies(z, r', toTx) BY <1>1, <1>3, <1>6, <1>14, RepliesFiled
<1>20. Replies(z, r', toTx \o <<h>>) BY <1>1, <1>14, <1>19, RepliesReady
<1> HIDE DEF h
<1>21. Replies(z, r', toTx') BY <1>18, <1>19, <1>20
<1>22. toTx' \in Seq(Frame) BY <1>1, <1>17, <1>18, Appended
<1>23. Consent(z, r', toTx', filed')
  <2>1. UNCHANGED filed \/ ArrivedIn(filed', Offered) BY <1>1, <1>10, ArrivedStays
  <2>2. filed' # filed BY <1>1, <1>9, <1>11
  <2> QED BY <1>6, <2>1, <2>2 DEF Consent, Offered
<1>24. partial' \in [Files -> Seq(Units)] /\ \A g \in Files : Begins(partial'[g], g)
  <2> DEFINE empty == <<>>
  <2>1. empty \in Seq(Units) /\ Begins(empty, f) BY <1>3, WholeFile
  <2>2. \A g \in Files : Begins(partial[g], g) BY <1>1 DEF Data
  <2>3. partial' = partial \/ partial' = [partial EXCEPT ![f] = empty] OBVIOUS
  <2> HIDE DEF empty
  <2>4. CASE partial' = [partial EXCEPT ![f] = empty]
    <3>1. partial' \in [Files -> Seq(Units)] BY <1>1, <2>1, <2>4
    <3>2. \A g \in Files : partial'[g] = IF g = f THEN empty ELSE partial[g] BY <1>1, <2>4
    <3> QED BY <2>1, <2>2, <3>1, <3>2
  <2> QED BY <1>1, <2>2, <2>3, <2>4
<1>25. Data(r', partial', filed')
  <2>1. \A i \in DOMAIN filed' : filed'[i].data = Content(filed'[i].name)
    BY <1>1, <1>9, <1>12 DEF Data
  <2> QED BY <1>14, <1>24, <2>1 DEF Data
<1>26. Inv'
  BY <1>2, <1>12, <1>14, <1>15, <1>16, <1>21, <1>22, <1>23, <1>24, <1>25, RxStep
<1> QED BY <1>10, <1>26

\* The receiver begins to read a frame of data.
LEMMA RxEnters ==
  ASSUME Inv, RxTakes, r.at = "pos", RxHeader = "ZDATA", toRx[1].pos = Len(r.data),
         r' = [r EXCEPT !.at = "data"], UNCHANGED toTx, RxKeeps
  PROVE  Inv'
<1>1. /\ ReceiverOK(r) /\ Order(z, r, toRx) /\ toRx \in Seq(Frame) /\ Chain(z, r, toRx, up)
      /\ toTx \in Seq(Frame) /\ Data(r, partial, filed) /\ Replies(z, r, toTx)
      /\ Consent(z, r, toTx, filed)
      /\ filed \in Seq([name : Files, data : Seq(Units)]) /\ partial \in [Files -> Seq(Units)]
  BY DEF Inv, TypeInv
<1>2. /\ UNCHANGED <<z, up, struck, gone>> /\ Window(toRx', toRx, 1) /\ toRx # <<>>
      /\ RxHeader = toRx[1].type /\ 1 \in DOMAIN toRx /\ toRx' = Tail(toRx)
  BY TakesFacts
<1>3. r.at \in TakingAt /\ r.file # None BY <1>1 DEF ReceiverOK, TakingAt
<1>4. /\ ReceiverOK(r') /\ r'.at \in TakingAt /\ r'.file = r.file /\ r'.data = r.data
      /\ r'.at \notin SeekingAt
  BY <1>1, <1>3 DEF ReceiverOK, TakingAt, SeekingAt
<1>5. toRx[1].type \in DataT BY <1>2 DEF DataT
<1>6. Has(toRx, DataT) BY <1>5, TakesFacts
<1>7. z.at \notin AskingAt BY <1>1, <1>3, <1>6 DEF Order
<1>8. toRx' \in Seq(Frame) /\ Order(z, r', toRx')
  <2>1. Order(z, r, toRx') BY <1>1, <1>2, OrderWindow
  <2>2. toRx' \in Seq(Frame) BY <1>2 DEF Window
  <2> QED BY <1>3, <1>4, <1>7, <2>1, <2>2, OrderTake
<1>9. Chain(z, r', toRx', up)
  <2>1. Chain(z, r', Tail(toRx), up) BY <1>1, <1>2, <1>4, ChainEnter
  <2> QED BY <1>2, <2>1
<1>10. Replies(z, r', toTx') BY <1>1, <1>4, RepliesStay
<1>11. Consent(z, r', toTx', filed')
  <2>1. Consent(z, r', toTx, filed) BY <1>1, <1>4 DEF Consent
  <2> QED BY <2>1 DEF RxKeeps
<1>12. Data(r', partial', filed') BY <1>1, <1>4 DEF Data, RxKeeps
<1>13. toTx' \in Seq(Frame) /\ filed' \in Seq([name : Files, data : Seq(Units)])
       /\ partial' \in [Files -> Seq(Units)]
  BY <1>1 DEF RxKeeps
<1> QED BY <1>2, <1>4, <1>8, <1>9, <1>10, <1>11, <1>12, <1>13, RxStep

LEMMA ReceiveHeaderStep ==
  ASSUME Inv, ReceiveHeader
  PROVE  Inv' /\ Files1
<1>1. RxTakes /\ r.at = "pos" BY DEF ReceiveHeader
<1>2. r.at \in TakingAt /\ ReceiverOK(r) BY <1>1 DEF TakingAt, Inv, TypeInv
<1>3. /\ UNCHANGED <<z, up, struck, gone>> /\ Reads /\ Window(toRx', toRx, 1)
      /\ Head(toRx) = toRx[1]
  BY <1>1, TakesFacts
<1>4. CASE RxHeader = "ZDATA" /\ DataHere(Head(toRx).pos)
  <2>1. r' = [r EXCEPT !.at = "data"] /\ UNCHANGED toTx /\ RxKeeps
    BY <1>4 DEF ReceiveHeader
  <2>2. Inv' BY <1>1, <1>3, <1>4, <2>1, RxEnters DEF DataHere
  <2> QED BY <2>1, <2>2 DEF Files1, RxKeeps
<1>5. CASE RxHeader = "ZEOF" /\ EofHere(Head(toRx).pos)
  <2>1. /\ filed' = Append(filed, [name |-> r.file, data |-> r.data])
        /\ partial' = IF Filestart(r.file) = 0 THEN partial ELSE [partial EXCEPT ![r.file] = <<>>]
        /\ r' = Idle /\ Answers(Hdr("ZRINIT", 0))
    BY <1>5 DEF ReceiveHeader
  <2>2. toRx[1].pos = Len(r.data) BY <1>3, <1>5 DEF EofHere
  <2> QED BY <1>1, <1>5, <2>1, <2>2, RxFiles
<1>6. ASSUME UNCHANGED <<r, toTx>>, RxKeeps PROVE Inv' /\ Files1
  <2>1. /\ ReceiverOK(r') /\ r'.at \in {"pos", "ext"} /\ r'.file = r.file /\ r'.data = r.data
        /\ UNCHANGED <<filed, partial>> /\ toTx' = toTx
    BY <1>1, <1>2, <1>6 DEF RxKeeps
  <2>2. Inv' BY <1>2, <1>3, <2>1, RxTakesOn DEF Reads
  <2> QED BY <2>1, <2>2 DEF Files1
<1>7. ASSUME AskAgain PROVE Inv' /\ Files1
  BY <1>2, <1>3, <1>7, TakeAgain DEF Files1
<1>8. CASE RxHeader = "ZEOF" /\ ~EofHere(Head(toRx).pos)
  <2>1. UNCHANGED <<r, toTx>> /\ RxKeeps BY <1>8 DEF ReceiveHeader
  <2> QED BY <1>6, <2>1
<1>9. CASE RxHeader = "ZFILE"
  <2>1. r' = [r EXCEPT !.at = "ext"] /\ UNCHANGED toTx /\ UNCHANGED <<filed, partial>>
    BY <1>9 DEF ReceiveHeader, RxKeeps
  <2>2. ReceiverOK(r') /\ r'.at \in {"pos", "ext"} /\ r'.file = r.file /\ r'.data = r.data
    BY <1>2, <2>1 DEF ReceiverOK, TakingAt
  <2>3. Inv' BY <1>2, <1>3, <2>1, <2>2, RxTakesOn DEF Reads
  <2> QED BY <2>1, <2>3 DEF Files1
<1>10. CASE RxHeader \in {"SUB", "NAME", "OO"}
  <2>1. (UNCHANGED <<r, toTx>> /\ RxKeeps) \/ AskAgain BY <1>10 DEF ReceiveHeader
  <2> QED BY <1>6, <1>7, <2>1
<1>11. CASE RxHeader \in {"CAN", "ZFIN", "ZRQINIT"}
  <2>1. RxFail BY <1>11 DEF ReceiveHeader
  <2> QED BY <1>3, <2>1, RxGivesUp DEF Files1
<1>12. CASE /\ RxHeader \notin {"ZEOF", "ZFILE", "SUB", "NAME", "OO", "CAN", "ZFIN", "ZRQINIT"}
            /\ ~(RxHeader = "ZDATA" /\ DataHere(Head(toRx).pos))
  <2>1. AskAgain BY <1>12 DEF ReceiveHeader
  <2> QED BY <1>7, <2>1
<1> QED BY <1>4, <1>5, <1>8, <1>9, <1>10, <1>11, <1>12

LEMMA ReceiveNameAgainStep ==
  ASSUME Inv, ReceiveNameAgain
  PROVE  Inv' /\ UNCHANGED filed
<1>1. RxTakes /\ r.at = "ext" BY DEF ReceiveNameAgain
<1>2. UNCHANGED <<z, up, struck, gone>> /\ Reads /\ Window(toRx', toRx, 1)
  BY <1>1, TakesFacts
<1>3. CASE RxHeader = "CAN"
  <2>1. RxFail BY <1>3 DEF ReceiveNameAgain
  <2> QED BY <1>2, <2>1, RxGivesUp
<1>4. CASE RxHeader # "CAN"
  <2>1. r' = [r EXCEPT !.at = "pos"] /\ Answers(Hdr("ZRPOS", Len(r.data))) /\ RxKeeps
    BY <1>4 DEF ReceiveNameAgain
  <2> QED BY <1>1, <1>2, <2>1, NameAgain
<1> QED BY <1>3, <1>4

LEMMA ReceiveDataStep ==
  ASSUME Inv, ReceiveData
  PROVE  Inv' /\ UNCHANGED filed
<1>1. RxTakes /\ r.at = "data" BY DEF ReceiveData
<1>2. /\ ReceiverOK(r) /\ Order(z, r, toRx) /\ toRx \in Seq(Frame) /\ Chain(z, r, toRx, up)
      /\ toTx \in Seq(Frame) /\ Data(r, partial, filed) /\ Replies(z, r, toTx)
      /\ Consent(z, r, toTx, filed)
      /\ filed \in Seq([name : Files, data : Seq(Units)]) /\ partial \in [Files -> Seq(Units)]
  BY DEF Inv, TypeInv
<1>3. /\ UNCHANGED <<z, up, struck, gone>> /\ Window(toRx', toRx, 1) /\ toRx # <<>> /\ Reads
      /\ RxHeader = toRx[1].type /\ 1 \in DOMAIN toRx /\ toRx' = Tail(toRx)
      /\ Head(toRx) = toRx[1]
  BY <1>1, TakesFacts
<1>4. /\ r.at \in TakingAt /\ r.file # None /\ r.file \in Files /\ r.data \in Seq(Units)
  BY <1>1, <1>2 DEF ReceiverOK, TakingAt
<1>5. CASE RxHeader = "SUB"
  <2> DEFINE x == IF toRx[1].end = "ZCRCG" THEN "data" ELSE "pos"
             d == r.data \o toRx[1].data
  <2>1. r' = [r EXCEPT !.data = d, !.n = Tries, !.at = x] /\ UNCHANGED toTx /\ RxKeeps
    BY <1>3, <1>5 DEF ReceiveData
  <2>2. r'.at = x /\ r'.file = r.file /\ r'.data = d
    BY <1>2, <2>1 DEF ReceiverOK
  <2>3. Begins(r.data, r.file) /\ Size[r.file] \in Nat BY <1>2, <1>4, ListFacts DEF Data
  <2>3a. (r'.at = "data" => toRx[1].end = "ZCRCG") /\ r'.data = r.data \o toRx[1].data
    BY <2>2
  <2>3b. toRx[1].type = "SUB" BY <1>3, <1>5
  <2> HIDE DEF x, d
  <2>4. Chain(z, r', Tail(toRx), up) /\ Begins(r'.data, r.file) /\ r'.data \in Seq(Units)
    BY <1>1, <1>2, <1>3, <1>4, <2>2, <2>3, <2>3a, <2>3b, ChainData
  <2>5. x \in {"data", "pos"} BY DEF x
  <2>6. Tries \in Int BY ZmodemAssumption
  <2>7. /\ ReceiverOK(r') /\ r'.at \in TakingAt /\ r'.at \notin SeekingAt
    <3>1. d \in Seq(Units) BY <2>2, <2>4
    <3>2. r' \in [at : {"init", "sec", "pos", "ext", "data", "bibi", "done", "fail"},
                  n : Int, file : Files \cup {None}, data : Seq(Units)]
      BY <1>2, <2>1, <2>5, <2>6, <3>1 DEF ReceiverOK
    <3>3. r'.at \in TakingAt /\ r'.at \notin SeekingAt
      BY <2>2, <2>5 DEF TakingAt, SeekingAt
    <3> QED BY <1>4, <2>2, <3>2, <3>3 DEF ReceiverOK
  <2>8. z.at \notin AskingAt BY <1>1, <1>2, <1>4 DEF Order
  <2>9. toRx' \in Seq(Frame) /\ Order(z, r', toRx')
    <3>1. Order(z, r, toRx') BY <1>2, <1>3, OrderWindow
    <3>2. toRx' \in Seq(Frame) BY <1>3 DEF Window
    <3> QED BY <1>4, <2>2, <2>7, <2>8, <3>1, <3>2, OrderTake
  <2>10. Chain(z, r', toRx', up) BY <1>3, <2>4
  <2>11. Replies(z, r', toTx') BY <1>2, <2>1, <2>2, <2>7, RepliesStay
  <2>12. Consent(z, r', toTx', filed')
    <3>1. Consent(z, r', toTx, filed) BY <1>2, <2>7, ConsentKeeps
    <3> QED BY <2>1, <3>1 DEF RxKeeps
  <2>13. Data(r', partial', filed') BY <1>2, <2>1, <2>2, <2>4 DEF Data, RxKeeps
  <2>14. toTx' \in Seq(Frame) /\ filed' \in Seq([name : Files, data : Seq(Units)])
         /\ partial' \in [Files -> Seq(Units)]
    BY <1>2, <2>1 DEF RxKeeps
  <2>15. Inv' BY <1>3, <2>7, <2>9, <2>10, <2>11, <2>12, <2>13, <2>14, RxStep
  <2> QED BY <2>1, <2>15 DEF RxKeeps
<1>6. CASE RxHeader = "CAN"
  <2>1. RxFail BY <1>6 DEF ReceiveData
  <2> QED BY <1>3, <2>1, RxGivesUp
<1>7. CASE RxHeader \notin {"SUB", "CAN"}
  <2>1. AskAgain BY <1>7 DEF ReceiveData
  <2> QED BY <1>3, <1>4, <2>1, TakeAgain
<1> QED BY <1>5, <1>6, <1>7

\* The receiver has ended the batch.
LEMMA RxDone ==
  ASSUME Inv, UNCHANGED <<z, up, struck, gone>>, Reads, r.at = "bibi",
         r' = [r EXCEPT !.at = "done"], RxKeeps,
         UNCHANGED toTx \/ Answers(Hdr("ZFIN", 0))
  PROVE  Inv' /\ UNCHANGED filed
<1>1. ReceiverOK(r) BY DEF Inv, TypeInv
<1>2. PICK o : Window(toRx', toRx, o) BY ReadsWindow
<1> DEFINE e == Hdr("ZFIN", 0)
<1>3. e \in Frame /\ e.type \notin {"ZRPOS", "ZRINIT", "ZSKIP"} BY FrameTypes DEF Headers
<1>4. toTx' = toTx \/ toTx' = OnLine(toTx, <<e>>) BY DEF Answers
<1> HIDE DEF e
<1>5. UNCHANGED <<filed, partial>> BY DEF RxKeeps
<1>6. ReceiverOK(r') /\ r'.at \notin SeekingAt \cup TakingAt
  BY <1>1 DEF ReceiverOK, SeekingAt, TakingAt
<1>7. Inv' BY <1>2, <1>3, <1>4, <1>5, <1>6, RxLeaves
<1> QED BY <1>5, <1>7

LEMMA RxTimeoutStep ==
  ASSUME Inv, RxTimeout, RxReading, UNCHANGED toRx, UNCHANGED <<z, up, struck, gone>>
  PROVE  Inv' /\ UNCHANGED filed
<1>1. Reads BY DEF Reads
<1>2. CASE r.at \in {"init", "sec"}
  <2>1. InitAgain \/ BadName BY <1>2 DEF RxTimeout
  <2>2. r.at \in SeekingAt BY <1>2 DEF SeekingAt
  <2> QED BY <1>1, <2>1, <2>2, SeekAgain
<1>3. CASE r.at = "ext"
  <2>1. r' = [r EXCEPT !.at = "pos"] /\ Answers(Hdr("ZRPOS", Len(r.data))) /\ RxKeeps
    BY <1>3 DEF RxTimeout
  <2> QED BY <1>1, <1>3, <2>1, NameAgain
<1>4. CASE r.at = "bibi"
  <2>1. r' = [r EXCEPT !.at = "done"] /\ UNCHANGED toTx /\ RxKeeps BY <1>4 DEF RxTimeout
  <2> QED BY <1>1, <1>4, <2>1, RxDone
<1>5. CASE r.at \in {"pos", "data"}
  <2>1. AskAgain BY <1>5 DEF RxTimeout
  <2>2. r.at \in TakingAt BY <1>5 DEF TakingAt
  <2> QED BY <1>1, <2>1, <2>2, TakeAgain
<1> QED BY <1>2, <1>3, <1>4, <1>5 DEF RxReading

\* Whatever the receiver does
RxActs == Receiver \/ RxEarly \/ RxEscape

LEMMA ReceiverStep ==
  ASSUME Inv, RefusedOnce, RxActs
  PROVE  Inv' /\ Files1 /\ UNCHANGED <<z, struck, gone>>
<1>1. UNCHANGED <<z, struck, gone>>
  BY DEF RxActs, Receiver, InitReceiver, ReceiveName, ReceiveHeader, ReceiveNameAgain, ReceiveData,
         AckBibi, RxTimer, RxNoCarrier, RxEarly, RxEscape, RxTakes, rxOnly
<1>2. CASE InitReceiver BY <1>1, <1>2, InitReceiverStep DEF Files1
<1>3. CASE ReceiveName BY <1>1, <1>3, ReceiveNameStep DEF Files1
<1>4. CASE ReceiveHeader BY <1>1, <1>4, ReceiveHeaderStep
<1>5. CASE ReceiveNameAgain BY <1>1, <1>5, ReceiveNameAgainStep DEF Files1
<1>6. CASE ReceiveData BY <1>1, <1>6, ReceiveDataStep DEF Files1
<1>7. CASE AckBibi
  <2>1. RxTakes BY <1>7 DEF AckBibi
  <2>2. UNCHANGED <<z, up, struck, gone>> /\ Reads BY <2>1, TakesFacts
  <2>3. /\ r.at = "bibi" /\ r' = [r EXCEPT !.at = "done"] /\ RxKeeps
        /\ UNCHANGED toTx \/ Answers(Hdr("ZFIN", 0))
    BY <1>7 DEF AckBibi
  <2> QED BY <1>1, <2>2, <2>3, RxDone DEF Files1
<1>8. CASE RxTimer
  <2>1. RxTimeout /\ RxReading /\ UNCHANGED toRx /\ UNCHANGED <<z, up, struck, gone>>
    BY <1>8 DEF RxTimer, rxOnly
  <2> QED BY <1>1, <2>1, RxTimeoutStep DEF Files1
<1>9. CASE RxEarly
  <2>1. RxTimeout /\ RxReading /\ UNCHANGED toRx /\ UNCHANGED <<z, up, struck, gone>>
    BY <1>9 DEF RxEarly
  <2> QED BY <1>1, <2>1, RxTimeoutStep DEF Files1
<1>10. ASSUME UNCHANGED toRx, UNCHANGED <<z, up, struck, gone>>, RxFail
       PROVE  Inv' /\ UNCHANGED filed
  <2>1. Reads BY <1>10 DEF Reads
  <2>2. PICK o : Window(toRx', toRx, o) BY <2>1, ReadsWindow
  <2> QED BY <1>10, <2>2, RxGivesUp
<1>11. CASE RxNoCarrier
  <2>1. UNCHANGED toRx /\ UNCHANGED <<z, up, struck, gone>>
    BY <1>11 DEF RxNoCarrier, rxOnly
  <2>2. CASE r.at = "bibi"
    <3>1. r' = [r EXCEPT !.at = "done"] /\ UNCHANGED toTx /\ RxKeeps
      BY <1>11, <2>2 DEF RxNoCarrier
    <3>2. Reads BY <2>1 DEF Reads
    <3> QED BY <1>1, <2>1, <2>2, <3>1, <3>2, RxDone DEF Files1
  <2>3. CASE r.at # "bibi"
    <3>1. RxFail BY <1>11, <2>3 DEF RxNoCarrier
    <3> QED BY <1>1, <1>10, <2>1, <3>1 DEF Files1
  <2> QED BY <2>2, <2>3
<1>12. CASE RxEscape
  <2>1. UNCHANGED toRx /\ UNCHANGED <<z, up, struck, gone>> /\ RxFail
    BY <1>12 DEF RxEscape
  <2> QED BY <1>1, <1>10, <2>1 DEF Files1
<1> QED
  BY <1>2, <1>3, <1>4, <1>5, <1>6, <1>7, <1>8, <1>9, <1>11, <1>12 DEF RxActs, Receiver

-----------------------------------------------------------------------------
(* The line, the operators, and the next call                                *)

\* What is on its way is damaged or lost, on one side or the other.
LEMMA NoiseStep ==
  ASSUME Inv, Noise
  PROVE  Inv' /\ UNCHANGED <<z, struck, gone, filed>>
<1>1. /\ TypeInv /\ toRx \in Seq(Frame) /\ toTx \in Seq(Frame) /\ Order(z, r, toRx)
      /\ Chain(z, r, toRx, up) /\ Replies(z, r, toTx) /\ Consent(z, r, toTx, filed)
      /\ Place(z) /\ Data(r, partial, filed) /\ Unstruck(z, struck)
  BY DEF Inv, TypeInv
<1>2. UNCHANGED <<z, r, up, struck, gone, filed, partial>> BY DEF Noise
<1>3. CASE toRx # <<>> /\ toRx' \in Hit(toRx) /\ UNCHANGED toTx
  <2>1. \E o : Window(toRx', toRx, o) BY <1>1, <1>3, HitWindow
  <2>2. PICK o : Window(toRx', toRx, o) BY <2>1
  <2>3. Order(z, r, toRx') BY <1>1, <2>2, OrderWindow
  <2>4. Chain(z, r, toRx', up) BY <1>1, <1>3, ChainHit
  <2>5. toRx' \in Seq(Frame) BY <2>2 DEF Window
  <2>6. TypeInv' BY <1>1, <1>2, <1>3, <2>5 DEF TypeInv
  <2>7. /\ Order(z, r, toRx)' /\ Chain(z, r, toRx, up)' /\ Replies(z, r, toTx)'
        /\ Consent(z, r, toTx, filed)' /\ Place(z)' /\ Data(r, partial, filed)'
        /\ Unstruck(z, struck)'
    BY <1>1, <1>2, <1>3, <2>3, <2>4
  <2> QED BY <1>2, <2>6, <2>7 DEF Inv
<1>4. CASE toTx # <<>> /\ toTx' \in Hit(toTx) /\ UNCHANGED toRx
  <2>1. \E o : Window(toTx', toTx, o) BY <1>1, <1>4, HitWindow
  <2>2. PICK o : Window(toTx', toTx, o) BY <2>1
  <2>3. Replies(z, r, toTx') BY <1>1, <2>2, RepliesWindow
  <2>4. Consent(z, r, toTx', filed)
    <3>1. "BAD" \notin {"ZRINIT"} /\ "BAD" \notin {"ZSKIP"} OBVIOUS
    <3>2. /\ ~Has(toTx, {"ZRINIT"}) => ~Has(toTx', {"ZRINIT"})
          /\ ~Has(toTx, {"ZSKIP"}) => ~Has(toTx', {"ZSKIP"})
      BY <1>1, <2>2, <3>1, WindowKeeps
    <3> QED BY <1>1, <3>2 DEF Consent
  <2>5. toTx' \in Seq(Frame) BY <2>2 DEF Window
  <2>6. TypeInv' BY <1>1, <1>2, <1>4, <2>5 DEF TypeInv
  <2>7. /\ Order(z, r, toRx)' /\ Chain(z, r, toRx, up)' /\ Replies(z, r, toTx)'
        /\ Consent(z, r, toTx, filed)' /\ Place(z)' /\ Data(r, partial, filed)'
        /\ Unstruck(z, struck)'
    BY <1>1, <1>2, <1>4, <2>3, <2>4
  <2> QED BY <1>2, <2>6, <2>7 DEF Inv
<1> QED BY <1>3, <1>4 DEF Noise

LEMMA CarrierStep ==
  ASSUME Inv, CarrierLost
  PROVE  Inv' /\ UNCHANGED <<z, struck, gone, filed>>
<1>1. /\ TypeInv /\ toRx \in Seq(Frame) /\ toTx \in Seq(Frame) /\ Order(z, r, toRx)
      /\ Chain(z, r, toRx, up) /\ Replies(z, r, toTx) /\ Consent(z, r, toTx, filed)
      /\ Place(z) /\ Data(r, partial, filed) /\ Unstruck(z, struck)
  BY DEF Inv, TypeInv
<1>2. UNCHANGED <<z, r, struck, gone, filed, partial>> /\ up' = FALSE BY DEF CarrierLost
<1>3. Window(toRx', toRx, 0) BY <1>1, PrefixWindow DEF CarrierLost
<1>4. Window(toTx', toTx, 0) BY <1>1, PrefixWindow DEF CarrierLost
<1>5. toRx' \in Seq(Frame) /\ toTx' \in Seq(Frame) BY <1>3, <1>4 DEF Window
<1>6. Order(z, r, toRx') BY <1>1, <1>3, OrderWindow
<1>7. Chain(z, r, toRx', FALSE) BY <1>1, <1>3, ChainOffline
<1>8. Replies(z, r, toTx') BY <1>1, <1>4, RepliesWindow
<1>9. Consent(z, r, toTx', filed)
  <2>1. "BAD" \notin {"ZRINIT"} /\ "BAD" \notin {"ZSKIP"} OBVIOUS
  <2>2. /\ ~Has(toTx, {"ZRINIT"}) => ~Has(toTx', {"ZRINIT"})
        /\ ~Has(toTx, {"ZSKIP"}) => ~Has(toTx', {"ZSKIP"})
    BY <1>1, <1>4, <2>1, WindowKeeps
  <2> QED BY <1>1, <2>2 DEF Consent
<1>10. TypeInv' BY <1>1, <1>2, <1>5 DEF TypeInv
<1>11. /\ Order(z, r, toRx)' /\ Chain(z, r, toRx, up)' /\ Replies(z, r, toTx)'
       /\ Consent(z, r, toTx, filed)' /\ Place(z)' /\ Data(r, partial, filed)'
       /\ Unstruck(z, struck)'
  BY <1>1, <1>2, <1>6, <1>7, <1>8, <1>9
<1> QED BY <1>2, <1>10, <1>11 DEF Inv

LEMMA NewCallStep ==
  ASSUME Inv, NewCall
  PROVE  Inv' /\ UNCHANGED <<struck, gone, filed>>
<1>1. TypeInv /\ Data(r, partial, filed) BY DEF Inv
<1>2. /\ z' = Start(struck).tx /\ toRx' = Start(struck).out /\ r' = Idle
      /\ toTx' = <<Hdr("ZRINIT", 0)>> /\ up' = TRUE /\ UNCHANGED <<struck, gone, filed, partial>>
  BY DEF NewCall
<1>3. /\ SenderOK(z') /\ ReceiverOK(r') /\ toRx' \in Seq(Frame) /\ toTx' \in Seq(Frame)
      /\ Order(z', r', toRx') /\ Chain(z', r', toRx', TRUE) /\ Replies(z', r', toTx')
      /\ Consent(z', r', toTx', filed') /\ Place(z') /\ Unstruck(z', struck) /\ r'.file = None
  BY <1>2, CallBegins
<1>4. TypeInv' BY <1>1, <1>2, <1>3 DEF TypeInv
<1>5. Data(r', partial', filed') BY <1>1, <1>2, <1>3 DEF Data
<1>6. /\ Order(z, r, toRx)' /\ Chain(z, r, toRx, up)' /\ Replies(z, r, toTx)'
      /\ Consent(z, r, toTx, filed)' /\ Place(z)' /\ Data(r, partial, filed)'
      /\ Unstruck(z, struck)'
  BY <1>2, <1>3, <1>5
<1> QED BY <1>2, <1>4, <1>6 DEF Inv

\* Every step keeps the invariant, files only what is being sent and is whole, and
\* strikes off only what the receiver has or cannot take.
LEMMA StepHolds ==
  ASSUME Inv, RefusedOnce, [Next]_vars
  PROVE  Inv' /\ ((Strikes(Offered) /\ UNCHANGED filed) \/ (Files1 /\ UNCHANGED <<struck, gone>>))
<1>1. CASE TxActs BY <1>1, SenderStep
<1>2. CASE RxActs BY <1>2, ReceiverStep
<1>3. CASE Noise BY <1>3, NoiseStep DEF Files1
<1>4. CASE LineDrop \/ HangUp
  <2>1. CarrierLost BY <1>4 DEF LineDrop, HangUp
  <2> QED BY <2>1, CarrierStep DEF Files1
<1>5. CASE NewCall BY <1>5, NewCallStep DEF Files1
<1>6. CASE UNCHANGED vars
  <2>1. /\ TypeInv /\ Order(z, r, toRx)
        /\ Chain(z, r, toRx, up) /\ Replies(z, r, toTx) /\ Consent(z, r, toTx, filed)
        /\ Place(z) /\ Data(r, partial, filed) /\ Unstruck(z, struck)
    BY DEF Inv
  <2>2. TypeInv' BY <1>6, <2>1 DEF TypeInv, vars
  <2>3. /\ Order(z, r, toRx)' /\ Chain(z, r, toRx, up)' /\ Replies(z, r, toTx)'
        /\ Consent(z, r, toTx, filed)' /\ Place(z)' /\ Data(r, partial, filed)'
        /\ Unstruck(z, struck)'
    BY <1>6, <2>1 DEF vars
  <2> QED BY <1>6, <2>2, <2>3 DEF Inv, Files1, vars
<1> QED BY <1>1, <1>2, <1>3, <1>4, <1>5, <1>6 DEF Next, Line, TxActs, RxActs

LEMMA InvHolds == Spec /\ []RefusedOnce => []Inv
<1>1. Inv /\ RefusedOnce /\ [Next]_vars => Inv' BY StepHolds
<1> QED BY <1>1, InitHolds, PTL DEF Spec

-----------------------------------------------------------------------------
(* The theorems                                                              *)

\* As long as no refusal is repeated, what is filed under a name is that file from
\* the first unit to the last, whatever the line damages or loses.
THEOREM ReceivedIntactHolds == Spec /\ []RefusedOnce => []ReceivedIntact
<1>1. Inv => ReceivedIntact BY DEF Inv, Data, ReceivedIntact
<1> QED BY <1>1, InvHolds, PTL

LEMMA BeginningIsPrefix ==
  ASSUME NEW f \in Files, NEW d \in Seq(Units), Begins(d, f)
  PROVE  IsPrefix(d, Content(f))
<1> DEFINE g == Content(f)
<1>1. /\ g \in Seq(Units) /\ Len(g) = Size[f] /\ Size[f] \in Nat
      /\ \A k \in 1 .. Size[f] : g[k] = Unit(f, k)
  BY ContentFacts, ListFacts
<1> HIDE DEF g
<1>2. Len(d) <= Len(g) /\ \A k \in 1 .. Len(d) : d[k] = g[k] BY <1>1 DEF Begins
<1>3. SubSeq(d, 1, Len(d)) = SubSeq(g, 1, Len(d)) BY <1>1, <1>2
<1>4. IsPrefix(d, g) BY <1>2, <1>3 DEF IsPrefix
<1> QED BY <1>4 DEF g

\* What is kept of a file that was cut off, and what is there of the one being
\* received, is a beginning of that file.
THEOREM BeginningsHold == Spec /\ []RefusedOnce => []Beginnings
<1>1. Inv => Beginnings
  <2> SUFFICES ASSUME Inv PROVE Beginnings OBVIOUS
  <2>1. /\ ReceiverOK(r) /\ partial \in [Files -> Seq(Units)] /\ Data(r, partial, filed)
    BY DEF Inv, TypeInv
  <2>2. r.file # None => IsPrefix(r.data, Content(r.file))
    BY <2>1, BeginningIsPrefix DEF ReceiverOK, Data
  <2>3. \A f \in Files : IsPrefix(partial[f], Content(f))
    BY <2>1, BeginningIsPrefix DEF Data
  <2> QED BY <2>2, <2>3 DEF Beginnings
<1> QED BY <1>1, InvHolds, PTL

Roomy == \A f \in Files : Size[f] <= Room

LEMMA MailStep ==
  ASSUME Roomy, Inv, RefusedOnce, NoMailLost, [Next]_vars
  PROVE  NoMailLost'
<1>1. /\ SenderOK(z) /\ filed \in Seq([name : Files, data : Seq(Units)])
      /\ struck' \subseteq Files /\ gone' \subseteq Files
  BY StepHolds DEF Inv, TypeInv
<1>2. \A f \in struck \cup gone : ArrivedIn(filed, f) BY DEF NoMailLost, Arrived, ArrivedIn
<1>3. CASE Strikes(Offered) /\ UNCHANGED filed
  <2>1. CASE struck' = struck /\ gone' = gone
    BY <1>2, <1>3, <2>1 DEF NoMailLost, Arrived, ArrivedIn
  <2>2. CASE /\ ArrivedIn(filed, Offered) \/ Size[Offered] > Room
             /\ z.idx # 0
             /\ struck' \in {struck, struck \cup {Offered}} /\ gone' \subseteq gone \cup {Offered}
    <3>1. ASSUME NEW f \in struck' \cup gone' PROVE ArrivedIn(filed, f)
      <4>1. CASE f \in struck \cup gone BY <1>2, <4>1
      <4>2. CASE f \notin struck \cup gone
        <5>1. f = Offered /\ f \in Files BY <1>1, <2>2, <3>1, <4>2
        <5>2. ~(Size[f] > Room)
          <6>1. Size[f] \in Nat /\ Room \in Nat BY <5>1, ListFacts, ZmodemAssumption
          <6> QED BY <5>1, <6>1 DEF Roomy
        <5> QED BY <2>2, <5>1, <5>2
      <4> QED BY <4>1, <4>2
    <3> QED BY <1>3, <3>1 DEF NoMailLost, Arrived, ArrivedIn
  <2> QED BY <1>3, <2>1, <2>2 DEF Strikes
<1>4. CASE Files1 /\ UNCHANGED <<struck, gone>>
  <2>1. \A f : ArrivedIn(filed, f) => ArrivedIn(filed', f) BY <1>1, <1>4, ArrivedStays
  <2> QED BY <1>2, <1>4, <2>1 DEF NoMailLost, Arrived, ArrivedIn
<1> QED BY <1>3, <1>4, StepHolds

\* If the receiver has room for every file, nothing is deleted or flagged as sent
\* before the other side has all of it.
THEOREM NoMailLostHolds == ASSUME Roomy PROVE Spec /\ []RefusedOnce => []NoMailLost
<1>1. Init => NoMailLost BY DEF Init, NoMailLost
<1>2. Inv /\ RefusedOnce /\ NoMailLost /\ [Next]_vars => NoMailLost' BY MailStep
<1> QED BY <1>1, <1>2, InvHolds, PTL DEF Spec

There == Held \cup {f \in Files : Arrived(f)}
Mail  == {Outbound[i] : i \in DOMAIN Outbound}

LEMMA TransferStep ==
  ASSUME Roomy, Inv, RefusedOnce, [Next]_vars
  PROVE  [Transfer!Next]_<<There, struck>>
<1>1. /\ SenderOK(z) /\ filed \in Seq([name : Files, data : Seq(Units)])
      /\ struck \subseteq Files /\ struck' \subseteq Files
  BY StepHolds DEF Inv, TypeInv
<1>2. /\ \A f \in Files : f \in There <=> ArrivedIn(filed, f)
      /\ \A f \in Files : f \in There' <=> ArrivedIn(filed', f)
      /\ There \subseteq Files /\ There' \subseteq Files
  <2>1. Held \subseteq Files BY ZmodemAssumption
  <2> QED BY <2>1 DEF There, Arrived, ArrivedIn
<1>3. z.idx # 0 => Offered \in Mail /\ Offered \in Files
  BY <1>1, ListFacts DEF Mail, SenderOK, Offered
<1>4. CASE Strikes(Offered) /\ UNCHANGED filed
  <2>1. There' = There BY <1>2, <1>4
  <2>2. CASE struck' = struck BY <2>1, <2>2
  <2>3. CASE struck' # struck
    <3>1. /\ ArrivedIn(filed, Offered) \/ Size[Offered] > Room
          /\ struck' = struck \cup {Offered} /\ Offered \notin struck /\ z.idx # 0
      BY <1>4, <2>3 DEF Strikes
    <3>2. Offered \in Files /\ Offered \in Mail BY <1>3, <3>1
    <3>3. ~(Size[Offered] > Room)
      <4>1. Size[Offered] \in Nat /\ Room \in Nat BY <3>2, ListFacts, ZmodemAssumption
      <4> QED BY <3>2, <4>1 DEF Roomy
    <3>4. Offered \in There BY <1>2, <3>1, <3>2, <3>3
    <3>5. \E m \in Mail : m \in There /\ m \notin struck /\ struck' = struck \cup {m} /\ There' = There
      BY <2>1, <3>1, <3>2, <3>4
    <3> QED BY <3>5 DEF Transfer!Next, Transfer!Strike, There, Mail
  <2> QED BY <2>2, <2>3
<1>5. CASE Files1 /\ UNCHANGED <<struck, gone>>
  <2>1. /\ \A f : ArrivedIn(filed, f) => ArrivedIn(filed', f)
        /\ \A f : ArrivedIn(filed', f) => ArrivedIn(filed, f) \/ (z.idx # 0 /\ f = Offered)
    BY <1>1, <1>5, ArrivedStays
  <2>2. \A f \in Files : f \in There => f \in There' BY <1>2, <2>1
  <2>3. \A f \in Files : f \in There' => f \in There \/ (z.idx # 0 /\ f = Offered)
    BY <1>2, <2>1
  <2>4. CASE There' = There BY <1>5, <2>4
  <2>5. CASE There' # There
    <3>1. z.idx # 0 /\ Offered \notin There /\ Offered \in There' BY <1>2, <2>2, <2>3, <2>5
    <3>2. There' = There \cup {Offered} BY <1>2, <2>2, <2>3, <3>1
    <3>3. \E m \in Mail : m \notin There /\ There' = There \cup {m} /\ struck' = struck
      BY <1>3, <1>5, <3>1, <3>2
    <3> QED BY <3>3 DEF Transfer!Next, Transfer!Deliver, There, Mail
  <2> QED BY <2>4, <2>5
<1> QED BY <1>4, <1>5, StepHolds

\* On the same condition the calls together do for each item of mail what MailTransfer
\* promises: it is struck off once, after it has arrived in full.
THEOREM TransfersMailHolds == ASSUME Roomy PROVE Spec /\ []RefusedOnce => TransfersMail
<1>1. Init => Transfer!Init
  <2> SUFFICES ASSUME Init PROVE Transfer!Init OBVIOUS
  <2>1. struck = {} /\ DOMAIN filed = {} BY DEF Init
  <2>2. {f \in Files : Arrived(f)} \subseteq Held BY <2>1 DEF Arrived
  <2> QED BY <2>1, <2>2 DEF Transfer!Init
<1>2. Inv /\ RefusedOnce /\ [Next]_vars => [Transfer!Next]_<<There, struck>>
  BY TransferStep
<1> QED BY <1>1, <1>2, InvHolds, PTL DEF Spec, TransfersMail, Transfer!Spec, There

-----------------------------------------------------------------------------
(* Where nothing is refused                                                  *)

Unrefused == ~Has(toTx, {"ZSKIP"})

\* The receiver is not asked to take a file that it refuses.
Welcome == r.at = "sec" /\ toRx # <<>> /\ Head(toRx).type = "NAME" => ~Refuses(Head(toRx).file)

\* The sender only takes from what is on its way to it.
LEMMA TxHears ==
  ASSUME Inv, TxActs
  PROVE  \E o : Window(toTx', toTx, o)
<1>1. toTx \in Seq(Frame) BY DEF Inv, TypeInv
<1>2. CASE toTx' = toTx BY <1>1, <1>2, SameWindow
<1>3. CASE toTx # <<>> /\ toTx' = Tail(toTx) BY <1>1, <1>3, TailWindow
<1>4. CASE toTx # <<>> /\ toTx' \in Flushed(Tail(toTx))
  <2>1. Window(Tail(toTx), toTx, 1) /\ Tail(toTx) \in Seq(Frame) BY <1>1, <1>4, TailWindow DEF Window
  <2>2. PICK k : Window(toTx', Tail(toTx), k) BY <1>4, <2>1, FlushedWindow
  <2>3. Window(toTx', toTx, 1 + k) BY <1>1, <2>1, <2>2, WindowOfWindow
  <2> QED BY <2>3
<1>5. toTx' = toTx \/ (toTx # <<>> /\ (toTx' = Tail(toTx) \/ toTx' \in Flushed(Tail(toTx))))
  BY DEF TxActs, Sender, GetReceiverInfo, SendFile, SendData, SendEof, Interrupted,
         SyncWithReceiver, EndSend, TxTimer, TxNoCarrier, TxEarly, TxEscape, TxTakes
<1> QED BY <1>2, <1>3, <1>4, <1>5

\* The receiver says where a file goes on, or that it is ready, done or confused.
LEMMA RxSays ==
  ASSUME Inv, RxActs, Welcome
  PROVE  \/ toTx' = toTx
         \/ \E h \in {"ZRINIT", "ZNAK", "ZFIN", "ZRPOS"}, p \in Nat : Answers(Hdr(h, p))
         \/ RxFail
<1>1. Len(r.data) \in Nat BY DEF Inv, TypeInv, ReceiverOK
<1>2. CASE InitReceiver \/ AckBibi \/ RxNoCarrier \/ RxEscape
  BY <1>2 DEF InitReceiver, AckBibi, RxNoCarrier, RxEscape, InitAgain
<1>3. CASE ReceiveName
  <2>1. RxTakes /\ r.at = "sec" BY <1>3 DEF ReceiveName
  <2>2. toRx # <<>> BY <2>1 DEF RxTakes
  <2>3. CASE RxHeader = "NAME"
    <3> DEFINE f == Head(toRx).file
    <3>1. ~Refuses(f) BY <2>1, <2>2, <2>3 DEF Welcome, RxHeader
    <3>2. Answers(Hdr("ZRPOS", Filestart(f))) BY <1>3, <2>3, <3>1 DEF ReceiveName
    <3>3. Filestart(f) \in Nat
      <4>1. f \in Files
        <5>1. toRx[1] \in Frame /\ Head(toRx) = toRx[1]
          BY <2>1, TakesFacts
        <5> QED BY <2>3, <5>1, FrameTypes DEF RxHeader
      <4>2. Len(partial[f]) \in Nat BY <4>1 DEF Inv, TypeInv
      <4> QED BY <4>2 DEF Filestart
    <3> QED BY <3>2, <3>3
  <2>4. CASE RxHeader # "NAME" BY <1>3, <2>4 DEF ReceiveName, BadName
  <2> QED BY <2>3, <2>4
<1>4. CASE ReceiveHeader BY <1>1, <1>4 DEF ReceiveHeader, AskAgain
<1>5. CASE ReceiveNameAgain BY <1>1, <1>5 DEF ReceiveNameAgain
<1>6. CASE ReceiveData BY <1>1, <1>6 DEF ReceiveData, AskAgain
<1>7. CASE RxTimer \/ RxEarly
  <2>1. RxTimeout BY <1>7 DEF RxTimer, RxEarly
  <2> QED BY <1>1, <2>1 DEF RxTimeout, InitAgain, BadName, AskAgain
<1> QED BY <1>2, <1>3, <1>4, <1>5, <1>6, <1>7 DEF RxActs, Receiver

LEMMA UnrefusedStep ==
  ASSUME Inv, Unrefused, Welcome, [Next]_vars
  PROVE  Unrefused'
<1>1. toTx \in Seq(Frame) BY DEF Inv, TypeInv
<1>2. ASSUME \E o : Window(toTx', toTx, o) PROVE Unrefused'
  <2>1. PICK o : Window(toTx', toTx, o) BY <1>2
  <2>2. "BAD" \notin {"ZSKIP"} OBVIOUS
  <2>3. ~Has(toTx', {"ZSKIP"}) BY <1>1, <2>1, <2>2, WindowKeeps DEF Unrefused
  <2> QED BY <2>3 DEF Unrefused
<1>3. CASE TxActs BY <1>2, <1>3, TxHears
<1>4. CASE RxActs
  <2>1. CASE toTx' = toTx BY <2>1 DEF Unrefused
  <2>2. CASE \E h \in {"ZRINIT", "ZNAK", "ZFIN", "ZRPOS"}, p \in Nat : Answers(Hdr(h, p))
    <3>1. PICK h \in {"ZRINIT", "ZNAK", "ZFIN", "ZRPOS"}, p \in Nat : Answers(Hdr(h, p)) BY <2>2
    <3> DEFINE e == Hdr(h, p)
    <3>2. e \in Frame /\ e.type # "ZSKIP" BY FrameTypes DEF Headers
    <3>3. toTx' = toTx \/ toTx' = toTx \o <<e>> BY <3>1 DEF Answers, OnLine
    <3> HIDE DEF e
    <3>4. ~Has(toTx', {"ZSKIP"}) BY <1>1, <3>2, <3>3, Appended DEF Unrefused
    <3> QED BY <3>4 DEF Unrefused
  <2>3. CASE RxFail
    <3>1. PICK c \in Cleared(toTx) : toTx' = OnLine(c, <<Can>>) BY <2>3 DEF RxFail
    <3>2. Window(c, toTx, 0) /\ c \in Seq(Frame) BY <1>1, ClearedWindow DEF Window
    <3>3. "BAD" \notin {"ZSKIP"} OBVIOUS
    <3>4. ~Has(c, {"ZSKIP"}) BY <1>1, <3>2, <3>3, WindowKeeps DEF Unrefused
    <3>5. Can \in Frame /\ Can.type # "ZSKIP" BY FrameTypes
    <3>6. toTx' = c \/ toTx' = c \o <<Can>> BY <3>1 DEF OnLine
    <3>7. ~Has(toTx', {"ZSKIP"}) BY <3>2, <3>4, <3>5, <3>6, Appended
    <3> QED BY <3>7 DEF Unrefused
  <2> QED BY <1>4, <2>1, <2>2, <2>3, RxSays
<1>5. CASE Noise
  <2>1. CASE toTx' = toTx BY <2>1 DEF Unrefused
  <2>2. CASE toTx # <<>> /\ toTx' \in Hit(toTx)
    <3>1. \E o : Window(toTx', toTx, o) BY <1>1, <2>2, HitWindow
    <3> QED BY <1>2, <3>1
  <2> QED BY <1>5, <2>1, <2>2 DEF Noise
<1>6. CASE LineDrop \/ HangUp
  <2>1. CarrierLost BY <1>6 DEF LineDrop, HangUp
  <2>2. Window(toTx', toTx, 0) BY <1>1, <2>1, PrefixWindow DEF CarrierLost
  <2> QED BY <1>2, <2>2
<1>7. CASE NewCall
  <2>1. toTx' = <<Hdr("ZRINIT", 0)>> BY <1>7 DEF NewCall
  <2>2. \A i \in DOMAIN toTx' : toTx'[i] = Hdr("ZRINIT", 0) BY <2>1
  <2>3. Hdr("ZRINIT", 0).type = "ZRINIT" BY FrameTypes DEF Headers
  <2> QED BY <2>2, <2>3 DEF Unrefused, Has
<1>8. CASE UNCHANGED vars BY <1>8 DEF Unrefused, vars
<1> QED BY <1>3, <1>4, <1>5, <1>6, <1>7, <1>8 DEF Next, Line, TxActs, RxActs

LEMMA UnrefusedInit == Init => Unrefused
<1> SUFFICES ASSUME Init PROVE Unrefused OBVIOUS
<1>1. toTx = <<Hdr("ZRINIT", 0)>> BY DEF Init
<1>2. \A i \in DOMAIN toTx : toTx[i] = Hdr("ZRINIT", 0) BY <1>1
<1>3. Hdr("ZRINIT", 0).type = "ZRINIT" BY FrameTypes DEF Headers
<1> QED BY <1>2, <1>3 DEF Unrefused, Has

LEMMA UnrefusedOnce == Unrefused => RefusedOnce
BY DEF Unrefused, RefusedOnce, Has

\* A packet has a new name in every call: the other side never has it already.
OnlyPackets == \A i \in DOMAIN Outbound : Outbound[i] \in Packets

LEMMA PacketsWelcome == ASSUME Roomy, OnlyPackets PROVE Inv => Welcome
<1> SUFFICES ASSUME Inv, r.at = "sec", toRx # <<>>, Head(toRx).type = "NAME"
             PROVE  ~Refuses(Head(toRx).file)
  BY DEF Welcome
<1>1. SenderOK(z) /\ toRx \in Seq(Frame) /\ Order(z, r, toRx) BY DEF Inv, TypeInv
<1>2. 1 \in DOMAIN toRx /\ toRx[1].type = "NAME" /\ Head(toRx) = toRx[1] BY <1>1
<1>3. z.idx # 0 /\ NamesAre(toRx, Outbound[z.idx])
  BY <1>1, <1>2 DEF Order, SeekingAt, Has
<1> DEFINE f == Outbound[z.idx]
<1>4. toRx[1].file = f BY <1>2, <1>3 DEF NamesAre
<1>5. z.idx \in DOMAIN Outbound BY <1>1, <1>3, ListFacts DEF SenderOK
<1>6. f \in Packets /\ f \in Files BY <1>5, ListFacts DEF OnlyPackets
<1>7. ~(Size[f] > Room)
  <2>1. Size[f] \in Nat /\ Room \in Nat BY <1>6, ListFacts, ZmodemAssumption
  <2> QED BY <1>6, <2>1 DEF Roomy
<1>8. ~Refuses(f) BY <1>6, <1>7 DEF Refuses
<1> QED BY <1>2, <1>4, <1>8

LEMMA PacketsRefusedOnce == ASSUME Roomy, OnlyPackets PROVE Spec => []RefusedOnce
<1>1. Inv => Welcome BY PacketsWelcome
<1>2. Inv /\ Unrefused /\ [Next]_vars => Inv' /\ Unrefused'
  BY <1>1, StepHolds, UnrefusedStep, UnrefusedOnce
<1>3. Init => Inv /\ Unrefused BY InitHolds, UnrefusedInit
<1> QED BY <1>2, <1>3, UnrefusedOnce, PTL DEF Spec

\* Where all the mail is in packets and the receiver has room for each of them, no
\* call, however it ends, loses, mutilates or strikes off unsent anything.
THEOREM PacketsTransferred ==
  ASSUME Roomy, OnlyPackets
  PROVE  Spec => [](ReceivedIntact /\ Beginnings /\ NoMailLost) /\ TransfersMail
<1>1. Spec => []RefusedOnce BY PacketsRefusedOnce
<1>2. Spec /\ []RefusedOnce => []NoMailLost BY NoMailLostHolds
<1>3. Spec /\ []RefusedOnce => TransfersMail BY TransfersMailHolds
<1> QED BY <1>1, <1>2, <1>3, ReceivedIntactHolds, BeginningsHold, PTL
===============================================================================
