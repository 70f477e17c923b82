------------------------------ MODULE JanusDelivery ------------------------------
(***************************************************************************)
(* Delivery by Janus: while nobody refuses a file, and requests are not    *)
(* limited, what is lost, repeated or late on the line neither strikes off *)
(* a file that has not arrived nor skips one that was asked for.           *)
(***************************************************************************)
EXTENDS JanusProofs

-----------------------------------------------------------------------------
(* Packets on the line *)

\* Packets about the files that s sends to its peer: the ones s sends ...
Forth == {"FNAME", "BLK", "FREQNAK"}
\* ... and the peer's answers.
Back  == {"FNACK", "EOFACK", "FREQ", "FRNAKACK"}

\* The packets on line c that are of a type in T, and which come before which
In(c, T)    == {c[i] : i \in {k \in DOMAIN c : c[k].type \in T}}
Pairs(c, T) == {<<c[q[1]], c[q[2]]>> :
                  q \in {k \in (DOMAIN c) \X (DOMAIN c) :
                           k[1] < k[2] /\ c[k[1]].type \in T /\ c[k[2]].type \in T}}

\* Line c1 has nothing of a type in T, and nothing before anything else, that
\* c has not.
Fewer(c, c1, T) == In(c1, T) \subseteq In(c, T) /\ Pairs(c1, T) \subseteq Pairs(c, T)

\* Line c1 may have x behind all that c has.
Adds(c, c1, x, T) == /\ In(c1, T) \subseteq In(c, T) \cup {x}
                     /\ Pairs(c1, T) \subseteq Pairs(c, T) \cup (In(c, T) \X {x})

-----------------------------------------------------------------------------
(* One direction: transmitter t of s, receiver r of its peer p, the packets *)
(* F on line c from s to p and B on line b back, and in which order         *)

Names(t)  == t.state \in {"XSENDFNAME", "XRCVFNACK"}
Sends(t)  == t.state \in {"XSENDBLK", "XRCVEOFACK"}
Denies(t) == t.state \in {"XSENDFREQNAK", "XRCVFRNAKACK"}

\* p still has a request to make, after d of them, and what it is answered
More(p, d)    == d < Len(Requests[p])
Ans(p, d)     == Answer[Requests[p][d + 1]]
AllHere(a, A) == \A k \in DOMAIN a : a[k] \in A

\* A file is offered, or the null name.  What the receiver has agreed to, or
\* answers, is about this name; a null name behind the times is harmless, the
\* receiver being still between files and the request it repeats the same.
NamingInv(p, t, r, F, FF, B, BB, d) ==
  /\ r.state = "RRCVBLK" => r.file = t.file
  /\ r.state = "RDONE" => t.file = None
  /\ \A x \in B : x.type = "FNACK" => x.file = t.file /\ r.state # "RRCVFNAME"
  /\ r.state # "RRCVFNAME" => \A x \in F : x.type = "FNAME" /\ x.file = t.file
  /\ \A q \in FF : q[1].type = "FNAME" /\ q[1].file = t.file =>
                     q[2].type = "FNAME" /\ q[2].file = t.file
  /\ \A x \in F : /\ x.type = "FNAME" => x.file \in {t.file, None}
                  /\ x.type = "FREQNAK" => t.file = None
                  /\ x.type = "FNAME" /\ x.file # t.file =>
                       /\ t.sendreq /\ More(p, d) /\ ~r.started /\ t.reqtmp = Ans(p, d)
                       /\ \A y \in F : y.type = "FNAME"
  /\ \A x \in B : x.type = "FREQ" =>
       /\ r.state # "RDONE" /\ \A y \in F : y.type = "FNAME"
       /\ t.file = None => ~r.started /\ More(p, d) /\ x.arg = d + 1
       /\ t.file # None => t.sendreq /\ t.reqtmp = Answer[Requests[p][x.arg]]
  /\ \A q \in BB : /\ q[1].type = "FNACK" => q[2].type \notin {"EOFACK", "FREQ"}
                   /\ q[1].type = "FREQ" => q[2].type # "FRNAKACK"

\* A file is sent: the receiver is at it, or has it.
SendingInv(t, r, F, FF, B, BB, A) ==
  /\ r.state # "RDONE" /\ (r.state = "RRCVBLK" => r.file = t.file)
  /\ \A x \in F : x.type # "FREQNAK" /\ x.file = t.file
  /\ \A q \in FF : q[1].type = "BLK" => q[2].type = "BLK"
  /\ r.state = "RRCVFNAME" => t.file \in A /\ \A x \in F : x.type = "BLK"
  /\ r.state = "RRCVBLK" => \A x \in B : x.type # "EOFACK"
  /\ \A x \in B : x.type # "FREQ"
  /\ \A q \in BB : q[1].type = "EOFACK" => q[2].type # "FNACK"

\* A request matched nothing: the receiver is between files.
DenyingInv(p, t, r, F, FF, B, BB, d) ==
  /\ t.file = None /\ ~t.sendreq /\ r.state = "RRCVFNAME"
  /\ More(p, d) /\ Ans(p, d) = <<>>
  /\ \A x \in F : /\ x.type # "BLK" /\ x.file = None
                  /\ x.type = "FNAME" => ~r.started
  /\ \A q \in FF : q[1].type = "FREQNAK" => q[2].type # "FNAME"
  /\ \A x \in B : /\ x.type # "FNACK"
                  /\ x.type = "FRNAKACK" => \A y \in F : y.type # "FNAME"
  /\ \A q \in BB : q[1].type = "FRNAKACK" => q[2].type # "FREQ"

\* The batch is over on one side only when it is on the other.
DoneInv(t, r) == t.file = None /\ r.state = "RDONE"

\* What the request under way asked for has arrived, or is on the list.
RequestInv(p, t, r, F, d, A) ==
  /\ r.state = "RDONE" => ~More(p, d)
  /\ t.sendreq =>
       /\ t.file # None /\ t.file = Head(t.reqtmp) /\ More(p, d)
       /\ \A k \in DOMAIN Ans(p, d) : \/ Ans(p, d)[k] \in A
                                      \/ \E m \in DOMAIN t.reqtmp : t.reqtmp[m] = Ans(p, d)[k]
  /\ /\ Names(t) /\ t.file = None /\ More(p, d)
     /\ r.started \/ \E x \in F : x.type = "FREQNAK"
     => AllHere(Ans(p, d), A)

\* The outbound scan: what lies behind it is struck off, S; requests come after.
ScanInv(s, t, r, S) ==
  IF t.file # None /\ ~t.sendreq
  THEN /\ t.idx \in DOMAIN Outbound[s] /\ t.file = Outbound[s][t.idx]
       /\ t.doafter = DoAfter(t.file)
       /\ \A j \in DOMAIN Outbound[s] : j < t.idx => Outbound[s][j] \in S
       /\ ~r.started /\ ~r.attempting
  ELSE AllHere(Outbound[s], S)

Dir(s, t, r, c, b, d, S, A) ==
  /\ Names(t) => NamingInv(Peer(s), t, r, In(c, Forth), Pairs(c, Forth),
                           In(b, Back), Pairs(b, Back), d)
  /\ Sends(t) => SendingInv(t, r, In(c, Forth), Pairs(c, Forth),
                            In(b, Back), Pairs(b, Back), A)
  /\ Denies(t) => DenyingInv(Peer(s), t, r, In(c, Forth), Pairs(c, Forth),
                             In(b, Back), Pairs(b, Back), d)
  /\ t.state = "XDONE" => DoneInv(t, r)
  /\ RequestInv(Peer(s), t, r, In(c, Forth), d, A)
  /\ ScanInv(s, t, r, S)

\* What the types say of the two halves
Shapes(t, r) == /\ Names(t) \/ Sends(t) \/ Denies(t) \/ t.state = "XDONE"
                /\ Sends(t) => t.file # None
                /\ r.state \in {"RDONE", "RRCVFNAME", "RRCVBLK"}
                /\ r.state = "RRCVBLK" => r.file # None
                /\ r.state = "RDONE" => r.file = None

\* u does what t does, about the same file
SameTx(t, u) == /\ Names(t) <=> Names(u)
                /\ Sends(t) <=> Sends(u)
                /\ Denies(t) <=> Denies(u)
                /\ t.state = "XDONE" <=> u.state = "XDONE"
                /\ u.file = t.file /\ u.idx = t.idx /\ u.doafter = t.doafter
                /\ u.sendreq = t.sendreq /\ u.reqtmp = t.reqtmp
SameRx(r, w) == /\ w.state = r.state /\ w.file = r.file
                /\ w.started = r.started /\ w.attempting = r.attempting

\* Losing packets, and gaining files, does no harm.
LEMMA DirFewer ==
  ASSUME NEW s, NEW t, NEW r, NEW c, NEW b, NEW d, NEW S, NEW A, Dir(s, t, r, c, b, d, S, A),
         NEW u, SameTx(t, u), NEW w, SameRx(r, w),
         NEW c1, Fewer(c, c1, Forth), NEW b1, Fewer(b, b1, Back),
         NEW S1, S \subseteq S1, NEW A1, A \subseteq A1
  PROVE  Dir(s, u, w, c1, b1, d, S1, A1)
<1> DEFINE F == In(c, Forth)   FF == Pairs(c, Forth)   B == In(b, Back)   BB == Pairs(b, Back)
           G == In(c1, Forth)  GG == Pairs(c1, Forth)  C == In(b1, Back)  CC == Pairs(b1, Back)
           p == Peer(s)
<1>1. G \subseteq F /\ GG \subseteq FF /\ C \subseteq B /\ CC \subseteq BB
  BY DEF Fewer
<1>2. /\ Names(t) => NamingInv(p, t, r, F, FF, B, BB, d)
      /\ Sends(t) => SendingInv(t, r, F, FF, B, BB, A)
      /\ Denies(t) => DenyingInv(p, t, r, F, FF, B, BB, d)
      /\ RequestInv(p, t, r, F, d, A)
      /\ t.state = "XDONE" => DoneInv(t, r)
  BY DEF Dir
<1>3. ScanInv(s, u, w, S1)
  BY DEF Dir, ScanInv, SameTx, SameRx, AllHere
<1> HIDE DEF F, FF, B, BB, G, GG, C, CC, p
<1>4. Names(u) => NamingInv(p, u, w, G, GG, C, CC, d)
  BY <1>1, <1>2 DEF NamingInv, SameTx, SameRx
<1>5. Sends(u) => SendingInv(u, w, G, GG, C, CC, A1)
  BY <1>1, <1>2 DEF SendingInv, SameTx, SameRx
<1>6. Denies(u) => DenyingInv(p, u, w, G, GG, C, CC, d)
  BY <1>1, <1>2 DEF DenyingInv, SameTx, SameRx
<1>7. RequestInv(p, u, w, G, d, A1)
  BY <1>1, <1>2 DEF RequestInv, SameTx, SameRx, AllHere
<1>8. u.state = "XDONE" => DoneInv(u, w)
  BY <1>2 DEF DoneInv, SameTx, SameRx
<1> QED BY <1>3, <1>4, <1>5, <1>6, <1>7, <1>8 DEF Dir, F, FF, B, BB, G, GG, C, CC, p

-----------------------------------------------------------------------------
(* What s sends *)

\* Sending the name again keeps the direction in order.
LEMMA SendNameDir ==
  ASSUME NEW s, NEW t, NEW r, NEW c, NEW b, NEW d, NEW S, NEW A, Dir(s, t, r, c, b, d, S, A),
         Names(t), NEW u, SameTx(t, u), NEW c1, Adds(c, c1, Fname(t.file), Forth)
  PROVE  Dir(s, u, r, c1, b, d, S, A)
<1> DEFINE F == In(c, Forth)   FF == Pairs(c, Forth)   B == In(b, Back)   BB == Pairs(b, Back)
           G == In(c1, Forth)  GG == Pairs(c1, Forth)
           p == Peer(s)
           x == Fname(t.file)
<1>1. G \subseteq F \cup {x} /\ GG \subseteq FF \cup (F \X {x})
  BY DEF Adds
<1>2. NamingInv(p, t, r, F, FF, B, BB, d) /\ RequestInv(p, t, r, F, d, A)
  BY DEF Dir
<1>3. ScanInv(s, u, r, S)
  BY DEF Dir, ScanInv, SameTx
<1>4. x.type = "FNAME" /\ x.file = t.file
  BY DEF Fname
<1> HIDE DEF F, FF, B, BB, G, GG, p, x
<1>5. NamingInv(p, u, r, G, GG, B, BB, d)
  <2>1. /\ \A q \in GG : q[1].type = "FNAME" /\ q[1].file = t.file =>
                          q[2].type = "FNAME" /\ q[2].file = t.file
    BY <1>1, <1>2, <1>4 DEF NamingInv
  <2> QED BY <1>1, <1>2, <1>4, <2>1 DEF NamingInv, SameTx
<1>6. RequestInv(p, u, r, G, d, A)
  BY <1>1, <1>2, <1>4 DEF RequestInv, SameTx
<1>7. ~Sends(u) /\ ~Denies(u) /\ u.state # "XDONE"
  BY DEF SameTx, Names, Sends, Denies
<1> QED BY <1>3, <1>5, <1>6, <1>7 DEF Dir, F, FF, B, BB, G, GG, p

\* So does a block of the file.
LEMMA SendBlockDir ==
  ASSUME NEW s, NEW t, NEW r, NEW c, NEW b, NEW d, NEW S, NEW A, Dir(s, t, r, c, b, d, S, A),
         Sends(t), NEW u, SameTx(t, u), NEW x, x.type = "BLK", x.file = t.file,
         NEW c1, Adds(c, c1, x, Forth)
  PROVE  Dir(s, u, r, c1, b, d, S, A)
<1> DEFINE F == In(c, Forth)   FF == Pairs(c, Forth)   B == In(b, Back)   BB == Pairs(b, Back)
           G == In(c1, Forth)  GG == Pairs(c1, Forth)
           p == Peer(s)
<1>1. G \subseteq F \cup {x} /\ GG \subseteq FF \cup (F \X {x})
  BY DEF Adds
<1>2. SendingInv(t, r, F, FF, B, BB, A) /\ RequestInv(p, t, r, F, d, A)
  BY DEF Dir
<1>3. ScanInv(s, u, r, S)
  BY DEF Dir, ScanInv, SameTx
<1> HIDE DEF F, FF, B, BB, G, GG, p
<1>4. SendingInv(u, r, G, GG, B, BB, A)
  <2>1. \A q \in GG : q[1].type = "BLK" => q[2].type = "BLK"
    BY <1>1, <1>2 DEF SendingInv
  <2> QED BY <1>1, <1>2, <2>1 DEF SendingInv, SameTx
<1>5. ~Names(u) /\ ~Denies(u) /\ u.state # "XDONE"
  BY DEF SameTx, Names, Sends, Denies
<1>6. RequestInv(p, u, r, G, d, A)
  BY <1>1, <1>2, <1>5 DEF RequestInv, SameTx
<1> QED BY <1>3, <1>4, <1>5, <1>6 DEF Dir, F, FF, B, BB, G, GG, p

\* So does the denial of a request.
LEMMA SendDenialDir ==
  ASSUME NEW s, NEW t, NEW r, NEW c, NEW b, NEW d, NEW S, NEW A, Dir(s, t, r, c, b, d, S, A),
         Denies(t), NEW u, SameTx(t, u), NEW c1, Adds(c, c1, Pkt("FREQNAK"), Forth)
  PROVE  Dir(s, u, r, c1, b, d, S, A)
<1> DEFINE F == In(c, Forth)   FF == Pairs(c, Forth)   B == In(b, Back)   BB == Pairs(b, Back)
           G == In(c1, Forth)  GG == Pairs(c1, Forth)
           p == Peer(s)
           x == Pkt("FREQNAK")
<1>1. G \subseteq F \cup {x} /\ GG \subseteq FF \cup (F \X {x})
  BY DEF Adds
<1>2. DenyingInv(p, t, r, F, FF, B, BB, d) /\ RequestInv(p, t, r, F, d, A)
  BY DEF Dir
<1>3. ScanInv(s, u, r, S)
  BY DEF Dir, ScanInv, SameTx
<1>4. x.type = "FREQNAK" /\ x.file = None
  BY DEF Pkt
<1> HIDE DEF F, FF, B, BB, G, GG, p, x
<1>5. DenyingInv(p, u, r, G, GG, B, BB, d)
  <2>1. \A q \in GG : q[1].type = "FREQNAK" => q[2].type # "FNAME"
    BY <1>1, <1>2, <1>4 DEF DenyingInv
  <2> QED BY <1>1, <1>2, <1>4, <2>1 DEF DenyingInv, SameTx
<1>6. ~Names(u) /\ ~Sends(u) /\ u.state # "XDONE"
  BY DEF SameTx, Names, Sends, Denies
<1>7. RequestInv(p, u, r, G, d, A)
  BY <1>1, <1>2, <1>6 DEF RequestInv, SameTx
<1> QED BY <1>3, <1>5, <1>6, <1>7 DEF Dir, F, FF, B, BB, G, GG, p

-----------------------------------------------------------------------------
(* What p makes of it *)

\* x is the first packet on line c, of a type in T; c1 is what is left.
First(c, x, c1, T) == /\ x \in In(c, T)
                      /\ \A y \in In(c1, T) : <<x, y>> \in Pairs(c, T)
                      /\ Fewer(c, c1, T)

\* The name p has, once it has read name f.
Heeds(r, f) == IF r.state = "RRCVFNAME" THEN f ELSE r.file

\* Requests made, once p has read a null name.
Made(p, r, d) == IF r.started /\ More(p, d) THEN d + 1 ELSE d

\* A request is over when all it asked for has arrived.
LEMMA ServedHere ==
  ASSUME NEW s, NEW t, NEW r, NEW c, NEW b, NEW d, NEW S, NEW A, Dir(s, t, r, c, b, d, S, A),
         Shapes(t, r), NEW x \in In(c, Forth), x.type = "FNAME",
         Heeds(r, x.file) = None, r.started, More(Peer(s), d)
  PROVE  /\ Names(t) /\ t.file = None /\ r.state = "RRCVFNAME"
         /\ AllHere(Ans(Peer(s), d), A)
<1> DEFINE F == In(c, Forth)   FF == Pairs(c, Forth)   B == In(b, Back)   BB == Pairs(b, Back)
           p == Peer(s)
<1>1. /\ Names(t) => NamingInv(p, t, r, F, FF, B, BB, d)
      /\ Sends(t) => SendingInv(t, r, F, FF, B, BB, A)
      /\ Denies(t) => DenyingInv(p, t, r, F, FF, B, BB, d)
      /\ RequestInv(p, t, r, F, d, A)
      /\ t.state = "XDONE" => DoneInv(t, r)
  BY DEF Dir
<1> HIDE DEF F, FF, B, BB
<1>2. x \in F BY DEF F
<1> HIDE DEF p
<1>3. More(p, d) BY DEF p
<1>4. r.state = "RRCVFNAME" /\ x.file = None
  <2>1. r.state # "RDONE" BY <1>1, <1>3 DEF RequestInv
  <2> QED BY <2>1 DEF Shapes, Heeds
<1>5. ~Sends(t)
  BY <1>1, <1>2, <1>4 DEF SendingInv
<1>6. ~Denies(t)
  BY <1>1, <1>2 DEF DenyingInv
<1>7. t.state # "XDONE"
  BY <1>1, <1>4 DEF DoneInv
<1>8. Names(t) /\ t.file = None
  BY <1>1, <1>2, <1>4, <1>5, <1>6, <1>7 DEF Shapes, NamingInv
<1>9. AllHere(Ans(p, d), A)
  BY <1>1, <1>3, <1>8 DEF RequestInv
<1> QED BY <1>4, <1>8, <1>9 DEF p

\* A null name is answered with a request: p is still between files.
LEMMA AskDir ==
  ASSUME NEW s, NEW t, NEW r, NEW c, NEW b, NEW d, NEW S, NEW A, Dir(s, t, r, c, b, d, S, A),
         Shapes(t, r), d \in Nat, Len(Requests[Peer(s)]) \in Nat,
         NEW x, x.type = "FNAME", NEW c1, First(c, x, c1, Forth), Heeds(r, x.file) = None,
         NEW e, e = Made(Peer(s), r, d), More(Peer(s), e),
         NEW w, w.state = r.state, w.file = None, ~w.started,
         NEW b1, Adds(b, b1, Freq(e + 1), Back)
  PROVE  Dir(s, t, w, c1, b1, e, S, A)
<1> DEFINE F == In(c, Forth)   FF == Pairs(c, Forth)   B == In(b, Back)   BB == Pairs(b, Back)
           G == In(c1, Forth)  GG == Pairs(c1, Forth)  C == In(b1, Back)  CC == Pairs(b1, Back)
           p == Peer(s)
           z == Freq(e + 1)
<1>1. /\ G \subseteq F /\ GG \subseteq FF /\ x \in F /\ \A y \in G : <<x, y>> \in FF
      /\ C \subseteq B \cup {z} /\ CC \subseteq BB \cup (B \X {z})
  BY DEF First, Fewer, Adds
<1>2. /\ Names(t) => NamingInv(p, t, r, F, FF, B, BB, d)
      /\ Sends(t) => SendingInv(t, r, F, FF, B, BB, A)
      /\ Denies(t) => DenyingInv(p, t, r, F, FF, B, BB, d)
      /\ RequestInv(p, t, r, F, d, A)
      /\ t.state = "XDONE" => DoneInv(t, r)
  BY DEF Dir
<1>3. z.type = "FREQ" /\ z.arg = e + 1
  BY DEF Freq
<1>4. More(p, d) /\ (e = d \/ (e = d + 1 /\ r.started)) /\ (r.started => e = d + 1)
  BY DEF Made, More
<1>5. More(p, e)
  OBVIOUS
<1>6. r.state = "RRCVFNAME" /\ x.file = None
  <2>1. r.state # "RDONE" BY <1>2, <1>4 DEF RequestInv
  <2> QED BY <2>1 DEF Shapes, Heeds
<1> HIDE DEF F, FF, B, BB, G, GG, C, CC, p, z
<1>7. ~Sends(t) /\ t.state # "XDONE"
  BY <1>1, <1>2, <1>6 DEF SendingInv, DoneInv
<1>8. Names(t) => NamingInv(p, t, w, G, GG, C, CC, e)
  <2> SUFFICES ASSUME Names(t) PROVE NamingInv(p, t, w, G, GG, C, CC, e)
    OBVIOUS
  <2>1. NamingInv(p, t, r, F, FF, B, BB, d)
    BY <1>2
  <2>2. \A y \in G : y.type = "FNAME" /\ (t.file = None => y.file = None)
    BY <1>1, <1>6, <2>1 DEF NamingInv
  <2>3. t.file # None => ~r.started /\ t.sendreq /\ t.reqtmp = Ans(p, d)
    BY <1>1, <1>6, <2>1 DEF NamingInv
  <2>4. \A y \in B : y.type # "FNACK"
    BY <1>6, <2>1 DEF NamingInv
  <2>5. r.started => \A y \in B : y.type # "FREQ"
    BY <2>1, <2>3 DEF NamingInv
  <2>6. \A y \in C : y.type # "FNACK"
    BY <1>1, <1>3, <2>4
  <2>7. \A q \in CC : q[1].type = "FREQ" => q[2].type # "FRNAKACK"
    BY <1>1, <1>3, <2>1 DEF NamingInv
  <2>8. \A q \in CC : q[1].type # "FNACK" \/ q[2].type \notin {"EOFACK", "FREQ"}
    <3> SUFFICES ASSUME NEW q \in CC PROVE q[1].type # "FNACK" \/ q[2].type \notin {"EOFACK", "FREQ"}
      OBVIOUS
    <3>1. CASE q \in BB BY <2>1, <3>1 DEF NamingInv
    <3>2. CASE q \in B \X {z} BY <2>4, <3>2
    <3> QED BY <1>1, <3>1, <3>2
  <2>9. \A y \in C : y.type = "FREQ" =>
          /\ t.file = None => y.arg = e + 1
          /\ t.file # None => t.sendreq /\ t.reqtmp = Answer[Requests[p][y.arg]]
    <3> SUFFICES ASSUME NEW y \in C, y.type = "FREQ"
                 PROVE  /\ t.file = None => y.arg = e + 1
                        /\ t.file # None => t.sendreq /\ t.reqtmp = Answer[Requests[p][y.arg]]
      OBVIOUS
    <3>1. CASE y = z
      BY <1>3, <1>4, <2>3, <3>1 DEF Ans
    <3>2. CASE y \in B
      <4>1. ~r.started /\ e = d BY <1>4, <2>5, <3>2
      <4> QED BY <2>1, <3>2, <4>1 DEF NamingInv
    <3> QED BY <1>1, <3>1, <3>2
  <2>10. \A y \in G : y.file # t.file => t.sendreq /\ t.reqtmp = Ans(p, e)
    BY <1>4, <2>2, <2>3
  <2>11. \A y \in G : y.file \in {t.file, None}
    BY <1>1, <2>1, <2>2 DEF NamingInv
  <2>12. \A q \in GG : q[1].type = "FNAME" /\ q[1].file = t.file =>
                       q[2].type = "FNAME" /\ q[2].file = t.file
    BY <1>1, <2>1 DEF NamingInv
  <2> QED BY <1>5, <1>6, <2>2, <2>6, <2>7, <2>8, <2>9, <2>10, <2>11, <2>12 DEF NamingInv
<1>9. Denies(t) => DenyingInv(p, t, w, G, GG, C, CC, e)
  <2> SUFFICES ASSUME Denies(t) PROVE DenyingInv(p, t, w, G, GG, C, CC, e)
    OBVIOUS
  <2>1. DenyingInv(p, t, r, F, FF, B, BB, d)
    BY <1>2
  <2>2. e = d /\ \A y \in B : y.type # "FRNAKACK"
    BY <1>1, <1>4, <2>1 DEF DenyingInv
  <2>3. \A q \in CC : q[1].type = "FRNAKACK" => q[2].type # "FREQ"
    <3> SUFFICES ASSUME NEW q \in CC PROVE q[1].type = "FRNAKACK" => q[2].type # "FREQ"
      OBVIOUS
    <3>1. CASE q \in BB BY <2>1, <3>1 DEF DenyingInv
    <3>2. CASE q \in B \X {z} BY <2>2, <3>2
    <3> QED BY <1>1, <3>1, <3>2
  <2>4. \A y \in C : y.type # "FNACK" /\ y.type # "FRNAKACK"
    BY <1>1, <1>3, <2>1, <2>2 DEF DenyingInv
  <2> QED BY <1>1, <1>6, <2>1, <2>2, <2>3, <2>4 DEF DenyingInv
<1>10. RequestInv(p, t, w, G, e, A)
  <2>1. CASE e = d
    BY <1>1, <1>2, <1>6, <2>1 DEF RequestInv
  <2>2. CASE e = d + 1 /\ r.started
    <3>1. ~Denies(t) BY <1>1, <1>2, <2>2 DEF DenyingInv
    <3>2. NamingInv(p, t, r, F, FF, B, BB, d) BY <1>2, <1>7, <3>1 DEF Shapes
    <3>3. t.file = None /\ ~t.sendreq
      BY <1>1, <1>2, <1>6, <2>2, <3>2 DEF NamingInv, RequestInv
    <3>4. \A y \in G : y.type # "FREQNAK"
      BY <1>1, <1>6, <3>2, <3>3 DEF NamingInv
    <3> QED BY <1>6, <3>3, <3>4 DEF RequestInv
  <2> QED BY <1>4, <2>1, <2>2
<1>11. ScanInv(s, t, w, S)
  <2>1. ~(t.file # None /\ ~t.sendreq)
    BY <1>1, <1>2, <1>6, <1>7 DEF Shapes, NamingInv, DenyingInv
  <2> QED BY <2>1 DEF Dir, ScanInv
<1> QED BY <1>7, <1>8, <1>9, <1>10, <1>11 DEF Dir, F, FF, B, BB, G, GG, C, CC, p

\* A name that is answered is the name of the file under way.
LEMMA AnswersOurs ==
  ASSUME NEW s, NEW t, NEW r, NEW c, NEW b, NEW d, NEW S, NEW A, Dir(s, t, r, c, b, d, S, A),
         Shapes(t, r), d \in Nat, Len(Requests[Peer(s)]) \in Nat,
         NEW x \in In(c, Forth), x.type = "FNAME", NEW f, f = Heeds(r, x.file),
         NEW e, e = IF f = None THEN Made(Peer(s), r, d) ELSE d,
         f = None => ~More(Peer(s), e)
  PROVE  ~Denies(t) /\ f = t.file
<1> DEFINE F == In(c, Forth)   FF == Pairs(c, Forth)   B == In(b, Back)   BB == Pairs(b, Back)
           p == Peer(s)
<1>1. x \in F
  OBVIOUS
<1>2. /\ Names(t) => NamingInv(p, t, r, F, FF, B, BB, d)
      /\ Sends(t) => SendingInv(t, r, F, FF, B, BB, A)
      /\ Denies(t) => DenyingInv(p, t, r, F, FF, B, BB, d)
      /\ t.state = "XDONE" => DoneInv(t, r)
  BY DEF Dir
<1>3. f = None /\ ~r.started => ~More(p, d)
  BY DEF Made, More
<1>4. f = IF r.state = "RRCVFNAME" THEN x.file ELSE r.file
  BY DEF Heeds
<1> HIDE DEF F, FF, B, BB, p
<1>5. ~Denies(t)
  <2> SUFFICES ASSUME Denies(t) PROVE FALSE
    OBVIOUS
  <2>1. DenyingInv(p, t, r, F, FF, B, BB, d)
    BY <1>2
  <2>2. f = None /\ ~r.started /\ More(p, d)
    BY <1>1, <1>4, <2>1 DEF DenyingInv
  <2> QED BY <1>3, <2>2
<1>6. f = t.file
  <2>1. CASE Names(t)
    <3>1. NamingInv(p, t, r, F, FF, B, BB, d)
      BY <1>2, <2>1
    <3>2. CASE r.state = "RRCVFNAME"
      <4>1. x.file # t.file => x.file = None /\ ~r.started /\ More(p, d)
        BY <1>1, <3>1 DEF NamingInv
      <4> QED BY <1>3, <1>4, <3>2, <4>1
    <3>3. CASE r.state = "RRCVBLK"
      BY <1>4, <3>1, <3>3 DEF NamingInv
    <3>4. CASE r.state = "RDONE"
      BY <1>4, <3>1, <3>4 DEF NamingInv, Shapes
    <3> QED BY <3>2, <3>3, <3>4 DEF Shapes
  <2>2. CASE Sends(t)
    BY <1>1, <1>2, <1>4, <2>2 DEF SendingInv, Shapes
  <2>3. CASE t.state = "XDONE"
    BY <1>2, <1>4, <2>3 DEF DoneInv, Shapes
  <2> QED BY <1>5, <2>1, <2>2, <2>3 DEF Shapes
<1> QED BY <1>5, <1>6

\* Any other name is answered with where to start; the null name is the end.
LEMMA AnswerDir ==
  ASSUME NEW s, NEW t, NEW r, NEW c, NEW b, NEW d, NEW S, NEW A, Dir(s, t, r, c, b, d, S, A),
         Shapes(t, r), d \in Nat, Len(Requests[Peer(s)]) \in Nat,
         NEW x, x.type = "FNAME", NEW c1, First(c, x, c1, Forth),
         NEW f, f = Heeds(r, x.file),
         NEW e, e = IF f = None THEN Made(Peer(s), r, d) ELSE d,
         f = None => ~More(Peer(s), e),
         NEW w, w.state = (IF f = None THEN "RDONE" ELSE "RRCVBLK"), w.file = f,
         w.started => r.started \/ r.attempting, ~w.attempting,
         NEW z, z.type = "FNACK", z.file = x.file, NEW b1, Adds(b, b1, z, Back)
  PROVE  Dir(s, t, w, c1, b1, e, S, A)
<1> DEFINE F == In(c, Forth)   FF == Pairs(c, Forth)   B == In(b, Back)   BB == Pairs(b, Back)
           G == In(c1, Forth)  GG == Pairs(c1, Forth)  C == In(b1, Back)  CC == Pairs(b1, Back)
           p == Peer(s)
<1>1. /\ G \subseteq F /\ GG \subseteq FF /\ x \in F /\ \A y \in G : <<x, y>> \in FF
      /\ C \subseteq B \cup {z} /\ CC \subseteq BB \cup (B \X {z})
  BY DEF First, Fewer, Adds
<1>2. /\ Names(t) => NamingInv(p, t, r, F, FF, B, BB, d)
      /\ Sends(t) => SendingInv(t, r, F, FF, B, BB, A)
      /\ Denies(t) => DenyingInv(p, t, r, F, FF, B, BB, d)
      /\ RequestInv(p, t, r, F, d, A)
      /\ t.state = "XDONE" => DoneInv(t, r)
      /\ ScanInv(s, t, r, S)
  BY DEF Dir
<1>3. /\ e = d \/ (e = d + 1 /\ r.started /\ f = None)
      /\ f = None /\ ~r.started => e = d /\ ~More(p, d)
      /\ f = None /\ r.started /\ More(p, d) => e = d + 1
      /\ f = None => ~More(p, e)
  BY DEF Made, More
<1>4. f = IF r.state = "RRCVFNAME" THEN x.file ELSE r.file
  BY DEF Heeds
<1>5. ~Denies(t) /\ f = t.file
  <2>1. x \in In(c, Forth) BY DEF First
  <2>2. f = None => ~More(Peer(s), e) OBVIOUS
  <2> QED BY <2>1, <2>2, AnswersOurs
<1> HIDE DEF F, FF, B, BB, G, GG, C, CC, p
<1>6. Names(t) => NamingInv(p, t, w, G, GG, C, CC, e)
  <2> SUFFICES ASSUME Names(t) PROVE NamingInv(p, t, w, G, GG, C, CC, e)
    OBVIOUS
  <2>1. NamingInv(p, t, r, F, FF, B, BB, d)
    BY <1>2
  <2>2. x.file = t.file
    <3>1. CASE r.state = "RRCVFNAME" BY <1>4, <1>5, <3>1
    <3>2. CASE r.state # "RRCVFNAME" BY <1>1, <2>1, <3>2 DEF NamingInv
    <3> QED BY <3>1, <3>2
  <2>3. \A y \in G : y.type = "FNAME" /\ y.file = t.file
    BY <1>1, <2>1, <2>2 DEF NamingInv
  <2>4. t.file = None => \A y \in B : y.type # "FREQ"
    <3> SUFFICES ASSUME t.file = None, NEW y \in B, y.type = "FREQ" PROVE FALSE
      OBVIOUS
    <3>1. ~r.started /\ More(p, d)
      BY <2>1 DEF NamingInv
    <3> QED BY <1>3, <1>5, <3>1
  <2>5. \A y \in C : /\ y.type = "FNACK" => y.file = t.file
                     /\ y.type = "FREQ" => /\ t.file # None
                                           /\ t.sendreq /\ t.reqtmp = Answer[Requests[p][y.arg]]
    BY <1>1, <2>1, <2>2, <2>4 DEF NamingInv
  <2>6. \A q \in CC : /\ q[1].type = "FNACK" => q[2].type \notin {"EOFACK", "FREQ"}
                      /\ q[1].type = "FREQ" => q[2].type # "FRNAKACK"
    <3> SUFFICES ASSUME NEW q \in CC
                 PROVE  /\ q[1].type = "FNACK" => q[2].type \notin {"EOFACK", "FREQ"}
                        /\ q[1].type = "FREQ" => q[2].type # "FRNAKACK"
      OBVIOUS
    <3>1. CASE q \in BB BY <2>1, <3>1 DEF NamingInv
    <3>2. CASE q \in B \X {z} BY <3>2
    <3> QED BY <1>1, <3>1, <3>2
  <2>7. \A q \in GG : q[1].type = "FNAME" /\ q[1].file = t.file =>
                      q[2].type = "FNAME" /\ q[2].file = t.file
    BY <1>1, <2>1 DEF NamingInv
  <2>8. /\ w.state = "RRCVBLK" => w.file = t.file
        /\ w.state = "RDONE" => t.file = None
        /\ w.state # "RRCVFNAME"
    BY <1>5
  <2> QED BY <2>3, <2>5, <2>6, <2>7, <2>8 DEF NamingInv
<1>7. Sends(t) => SendingInv(t, w, G, GG, C, CC, A)
  <2> SUFFICES ASSUME Sends(t) PROVE SendingInv(t, w, G, GG, C, CC, A)
    OBVIOUS
  <2>1. SendingInv(t, r, F, FF, B, BB, A)
    BY <1>2
  <2>2. r.state = "RRCVBLK" /\ w.state = "RRCVBLK"
    BY <1>1, <1>5, <2>1 DEF SendingInv, Shapes
  <2>3. \A y \in C : y.type # "EOFACK" /\ y.type # "FREQ"
    BY <1>1, <2>1, <2>2 DEF SendingInv
  <2>4. \A q \in CC : q[1].type = "EOFACK" => q[2].type # "FNACK"
    <3> SUFFICES ASSUME NEW q \in CC, q[1].type = "EOFACK" PROVE q[2].type # "FNACK"
      OBVIOUS
    <3>1. CASE q \in BB BY <2>1, <3>1 DEF SendingInv
    <3>2. CASE q \in B \X {z} BY <2>1, <2>2, <3>2 DEF SendingInv
    <3> QED BY <1>1, <3>1, <3>2
  <2> QED BY <1>1, <1>5, <2>1, <2>2, <2>3, <2>4 DEF SendingInv
<1>8. t.state = "XDONE" => DoneInv(t, w)
  BY <1>2, <1>5 DEF DoneInv
<1>9. RequestInv(p, t, w, G, e, A)
  <2>1. CASE f = None
    BY <1>2, <1>3, <1>5, <2>1 DEF RequestInv
  <2>2. CASE f # None
    BY <1>2, <1>3, <1>5, <2>2 DEF RequestInv
  <2> QED BY <2>1, <2>2
<1>10. ScanInv(s, t, w, S)
  BY <1>2 DEF ScanInv
<1> QED BY <1>5, <1>6, <1>7, <1>8, <1>9, <1>10 DEF Dir, F, FF, B, BB, G, GG, C, CC, p

\* The last block files the file and is acknowledged.
LEMMA BlockDir ==
  ASSUME NEW s, NEW t, NEW r, NEW c, NEW b, NEW d, NEW S, NEW A, Dir(s, t, r, c, b, d, S, A),
         Shapes(t, r), r.state = "RRCVBLK",
         NEW x, x.type = "BLK", NEW c1, First(c, x, c1, Forth),
         NEW w, w.state = "RRCVFNAME", w.started = r.started, w.attempting = r.attempting,
         NEW b1, Adds(b, b1, Pkt("EOFACK"), Back),
         NEW A1, A \subseteq A1, r.file \in A1
  PROVE  Dir(s, t, w, c1, b1, d, S, A1)
<1> DEFINE F == In(c, Forth)   FF == Pairs(c, Forth)   B == In(b, Back)   BB == Pairs(b, Back)
           G == In(c1, Forth)  GG == Pairs(c1, Forth)  C == In(b1, Back)  CC == Pairs(b1, Back)
           p == Peer(s)
           z == Pkt("EOFACK")
<1>1. /\ G \subseteq F /\ GG \subseteq FF /\ x \in F /\ \A y \in G : <<x, y>> \in FF
      /\ C \subseteq B \cup {z} /\ CC \subseteq BB \cup (B \X {z})
  BY DEF First, Fewer, Adds
<1>2. /\ Names(t) => NamingInv(p, t, r, F, FF, B, BB, d)
      /\ Sends(t) => SendingInv(t, r, F, FF, B, BB, A)
      /\ Denies(t) => DenyingInv(p, t, r, F, FF, B, BB, d)
      /\ RequestInv(p, t, r, F, d, A)
      /\ t.state = "XDONE" => DoneInv(t, r)
      /\ ScanInv(s, t, r, S)
  BY DEF Dir
<1>3. z.type = "EOFACK"
  BY DEF Pkt
<1> HIDE DEF F, FF, B, BB, G, GG, C, CC, p, z
<1>4. Sends(t) /\ ~Names(t) /\ ~Denies(t) /\ t.state # "XDONE"
  <2>1. ~Names(t) BY <1>1, <1>2 DEF NamingInv
  <2>2. ~Denies(t) BY <1>1, <1>2 DEF DenyingInv
  <2>3. t.state # "XDONE" BY <1>2 DEF DoneInv
  <2> QED BY <2>1, <2>2, <2>3 DEF Shapes
<1>5. SendingInv(t, r, F, FF, B, BB, A)
  BY <1>2, <1>4
<1>6. SendingInv(t, w, G, GG, C, CC, A1)
  <2>1. t.file \in A1 /\ \A y \in G : y.type = "BLK" /\ y.file = t.file
    BY <1>1, <1>5 DEF SendingInv
  <2>2. \A q \in CC : q[1].type = "EOFACK" => q[2].type # "FNACK"
    <3> SUFFICES ASSUME NEW q \in CC PROVE q[1].type = "EOFACK" => q[2].type # "FNACK"
      OBVIOUS
    <3>1. CASE q \in BB BY <1>5, <3>1 DEF SendingInv
    <3>2. CASE q \in B \X {z} BY <1>3, <3>2
    <3> QED BY <1>1, <3>1, <3>2
  <2>3. \A y \in C : y.type # "FREQ"
    BY <1>1, <1>3, <1>5 DEF SendingInv
  <2>4. \A q \in GG : q[1].type = "BLK" => q[2].type = "BLK"
    BY <1>1, <1>5 DEF SendingInv
  <2> QED BY <2>1, <2>2, <2>3, <2>4 DEF SendingInv
<1>7. RequestInv(p, t, w, G, d, A1)
  BY <1>2, <1>4 DEF RequestInv
<1>8. ScanInv(s, t, w, S)
  BY <1>2 DEF ScanInv
<1> QED BY <1>4, <1>6, <1>7, <1>8 DEF Dir, F, FF, B, BB, G, GG, C, CC, p

\* A stray block, or what was one, is acknowledged between files.
LEMMA StrayDir ==
  ASSUME NEW s, NEW t, NEW r, NEW c, NEW b, NEW d, NEW S, NEW A, Dir(s, t, r, c, b, d, S, A),
         r.state = "RRCVFNAME", NEW c1, Fewer(c, c1, Forth),
         NEW b1, Adds(b, b1, Pkt("EOFACK"), Back)
  PROVE  Dir(s, t, r, c1, b1, d, S, A)
<1> DEFINE F == In(c, Forth)   FF == Pairs(c, Forth)   B == In(b, Back)   BB == Pairs(b, Back)
           G == In(c1, Forth)  GG == Pairs(c1, Forth)  C == In(b1, Back)  CC == Pairs(b1, Back)
           p == Peer(s)
           z == Pkt("EOFACK")
<1>1. /\ G \subseteq F /\ GG \subseteq FF
      /\ C \subseteq B \cup {z} /\ CC \subseteq BB \cup (B \X {z})
  BY DEF Fewer, Adds
<1>2. /\ Names(t) => NamingInv(p, t, r, F, FF, B, BB, d)
      /\ Sends(t) => SendingInv(t, r, F, FF, B, BB, A)
      /\ Denies(t) => DenyingInv(p, t, r, F, FF, B, BB, d)
      /\ RequestInv(p, t, r, F, d, A)
      /\ t.state = "XDONE" => DoneInv(t, r)
      /\ ScanInv(s, t, r, S)
  BY DEF Dir
<1>3. z.type = "EOFACK"
  BY DEF Pkt
<1> HIDE DEF F, FF, B, BB, G, GG, C, CC, p, z
<1>4. \A q \in CC : q \in BB \/ (q[1] \in B /\ q[2].type = "EOFACK")
  BY <1>1, <1>3
<1>5. \A y \in C : y \in B \/ y.type = "EOFACK"
  BY <1>1, <1>3
<1>6. Names(t) => NamingInv(p, t, r, G, GG, C, CC, d)
  <2> SUFFICES ASSUME Names(t) PROVE NamingInv(p, t, r, G, GG, C, CC, d)
    OBVIOUS
  <2>1. NamingInv(p, t, r, F, FF, B, BB, d)
    BY <1>2
  <2>2. \A q \in CC : /\ q[1].type = "FNACK" => q[2].type \notin {"EOFACK", "FREQ"}
                      /\ q[1].type = "FREQ" => q[2].type # "FRNAKACK"
    BY <1>4, <2>1 DEF NamingInv
  <2> QED BY <1>1, <1>5, <2>1, <2>2 DEF NamingInv
<1>7. Sends(t) => SendingInv(t, r, G, GG, C, CC, A)
  BY <1>1, <1>2, <1>4, <1>5 DEF SendingInv
<1>8. Denies(t) => DenyingInv(p, t, r, G, GG, C, CC, d)
  BY <1>1, <1>2, <1>4, <1>5 DEF DenyingInv
<1>9. RequestInv(p, t, r, G, d, A)
  BY <1>1, <1>2 DEF RequestInv
<1> QED BY <1>2, <1>6, <1>7, <1>8, <1>9 DEF Dir, F, FF, B, BB, G, GG, C, CC, p

\* The denial of a request is acknowledged; the request has been made.
LEMMA DeniedDir ==
  ASSUME NEW s, NEW t, NEW r, NEW c, NEW b, NEW d, NEW S, NEW A, Dir(s, t, r, c, b, d, S, A),
         Shapes(t, r), NEW x, x.type = "FREQNAK", NEW c1, First(c, x, c1, Forth),
         NEW w, w.state = r.state, w.file = r.file, ~w.attempting,
         NEW b1, Adds(b, b1, Pkt("FRNAKACK"), Back)
  PROVE  Dir(s, t, w, c1, b1, d, S, A)
<1> DEFINE F == In(c, Forth)   FF == Pairs(c, Forth)   B == In(b, Back)   BB == Pairs(b, Back)
           G == In(c1, Forth)  GG == Pairs(c1, Forth)  C == In(b1, Back)  CC == Pairs(b1, Back)
           p == Peer(s)
           z == Pkt("FRNAKACK")
<1>1. /\ G \subseteq F /\ GG \subseteq FF /\ x \in F /\ \A y \in G : <<x, y>> \in FF
      /\ C \subseteq B \cup {z} /\ CC \subseteq BB \cup (B \X {z})
  BY DEF First, Fewer, Adds
<1>2. /\ Names(t) => NamingInv(p, t, r, F, FF, B, BB, d)
      /\ Sends(t) => SendingInv(t, r, F, FF, B, BB, A)
      /\ Denies(t) => DenyingInv(p, t, r, F, FF, B, BB, d)
      /\ RequestInv(p, t, r, F, d, A)
      /\ t.state = "XDONE" => DoneInv(t, r)
      /\ ScanInv(s, t, r, S)
  BY DEF Dir
<1>3. z.type = "FRNAKACK"
  BY DEF Pkt
<1> HIDE DEF F, FF, B, BB, G, GG, C, CC, p, z
<1>4. \A q \in CC : q \in BB \/ (q[1] \in B /\ q[2].type = "FRNAKACK")
  BY <1>1, <1>3
<1>5. \A y \in C : y \in B \/ y.type = "FRNAKACK"
  BY <1>1, <1>3
<1>6. ~Sends(t)
  BY <1>1, <1>2 DEF SendingInv
<1>7. t.file = None
  BY <1>1, <1>2, <1>6 DEF Shapes, NamingInv, DenyingInv, DoneInv
<1>8. Names(t) => NamingInv(p, t, w, G, GG, C, CC, d)
  <2> SUFFICES ASSUME Names(t) PROVE NamingInv(p, t, w, G, GG, C, CC, d)
    OBVIOUS
  <2>1. NamingInv(p, t, r, F, FF, B, BB, d)
    BY <1>2
  <2>2. r.state = "RRCVFNAME"
    BY <1>1, <2>1 DEF NamingInv
  <2>3. \A y \in C : y.type # "FREQ" /\ y.type # "FNACK"
    BY <1>1, <1>5, <2>1, <2>2 DEF NamingInv
  <2>4. \A y \in G : y.type = "FNAME" => y.file = t.file
    BY <1>1, <1>7, <2>1 DEF NamingInv
  <2>5. \A q \in CC : /\ q[1].type = "FNACK" => q[2].type \notin {"EOFACK", "FREQ"}
                      /\ q[1].type = "FREQ" => q[2].type # "FRNAKACK"
    <3>1. \A y \in B : y.type # "FREQ" /\ y.type # "FNACK"
      BY <1>1, <2>1, <2>2 DEF NamingInv
    <3> QED BY <1>4, <2>1, <3>1 DEF NamingInv
  <2> QED BY <1>1, <1>7, <2>1, <2>2, <2>3, <2>4, <2>5 DEF NamingInv
<1>9. Denies(t) => DenyingInv(p, t, w, G, GG, C, CC, d)
  <2> SUFFICES ASSUME Denies(t) PROVE DenyingInv(p, t, w, G, GG, C, CC, d)
    OBVIOUS
  <2>1. DenyingInv(p, t, r, F, FF, B, BB, d)
    BY <1>2
  <2>2. \A y \in G : y.type # "FNAME"
    BY <1>1, <2>1 DEF DenyingInv
  <2>3. \A q \in CC : q[1].type = "FRNAKACK" => q[2].type # "FREQ"
    BY <1>4, <2>1 DEF DenyingInv
  <2> QED BY <1>1, <1>5, <2>1, <2>2, <2>3 DEF DenyingInv
<1>10. t.state = "XDONE" => DoneInv(t, w)
  BY <1>2 DEF DoneInv
<1>11. RequestInv(p, t, w, G, d, A)
  BY <1>1, <1>2 DEF RequestInv
<1>12. ScanInv(s, t, w, S)
  BY <1>2, <1>7 DEF ScanInv
<1> QED BY <1>6, <1>8, <1>9, <1>10, <1>11, <1>12 DEF Dir, F, FF, B, BB, G, GG, C, CC, p

-----------------------------------------------------------------------------
(* What s makes of the answers *)

\* The null name is understood: nothing is left to send.
LEMMA DoneDir ==
  ASSUME NEW s, NEW t, NEW r, NEW c, NEW b, NEW d, NEW S, NEW A, Dir(s, t, r, c, b, d, S, A),
         Shapes(t, r), Names(t), t.file = None,
         NEW x, x.type = "FNACK", NEW b1, First(b, x, b1, Back), NEW c1, Fewer(c, c1, Forth),
         NEW u, u.state = "XDONE", u.file = t.file, u.sendreq = t.sendreq
  PROVE  Dir(s, u, r, c1, b1, d, S, A) /\ r.state = "RDONE"
<1> DEFINE F == In(c, Forth)   FF == Pairs(c, Forth)   B == In(b, Back)   BB == Pairs(b, Back)
           G == In(c1, Forth)  GG == Pairs(c1, Forth)
           p == Peer(s)
<1>1. G \subseteq F /\ GG \subseteq FF /\ x \in B
  BY DEF First, Fewer
<1>2. NamingInv(p, t, r, F, FF, B, BB, d) /\ RequestInv(p, t, r, F, d, A) /\ ScanInv(s, t, r, S)
  BY DEF Dir
<1>3. ~Names(u) /\ ~Sends(u) /\ ~Denies(u)
  BY DEF Names, Sends, Denies
<1> HIDE DEF F, FF, B, BB, G, GG, p
<1>4. r.state = "RDONE"
  BY <1>1, <1>2 DEF NamingInv, Shapes
<1>5. DoneInv(u, r)
  BY <1>4 DEF DoneInv
<1>6. RequestInv(p, u, r, G, d, A)
  BY <1>1, <1>2, <1>3 DEF RequestInv
<1>7. ScanInv(s, u, r, S)
  BY <1>2 DEF ScanInv
<1> QED BY <1>3, <1>4, <1>5, <1>6, <1>7 DEF Dir, F, FF, B, BB, G, GG, p

\* The name is understood, and the file wanted.
LEMMA GoDir ==
  ASSUME NEW s, NEW t, NEW r, NEW c, NEW b, NEW d, NEW S, NEW A, Dir(s, t, r, c, b, d, S, A),
         Shapes(t, r), Names(t), t.file # None,
         NEW x, x.type = "FNACK", NEW b1, First(b, x, b1, Back), NEW c1, Fewer(c, c1, Forth),
         NEW u, u.state = "XSENDBLK", u.file = t.file, u.idx = t.idx, u.doafter = t.doafter,
         u.sendreq = t.sendreq, u.reqtmp = t.reqtmp
  PROVE  Dir(s, u, r, c1, b1, d, S, A)
<1> DEFINE F == In(c, Forth)   FF == Pairs(c, Forth)   B == In(b, Back)   BB == Pairs(b, Back)
           G == In(c1, Forth)  GG == Pairs(c1, Forth)  C == In(b1, Back)  CC == Pairs(b1, Back)
           p == Peer(s)
<1>1. /\ G \subseteq F /\ GG \subseteq FF /\ C \subseteq B /\ CC \subseteq BB
      /\ x \in B /\ \A y \in C : <<x, y>> \in BB
  BY DEF First, Fewer
<1>2. NamingInv(p, t, r, F, FF, B, BB, d) /\ RequestInv(p, t, r, F, d, A) /\ ScanInv(s, t, r, S)
  BY DEF Dir
<1>3. ~Names(u) /\ Sends(u) /\ ~Denies(u) /\ u.state # "XDONE"
  BY DEF Names, Sends, Denies
<1>9. \A q \in GG : q[1] \in G
  BY DEF GG, G, Pairs, In
<1>10. \A q \in CC : q[1] \in C
  BY DEF CC, C, Pairs, In
<1> HIDE DEF F, FF, B, BB, G, GG, C, CC, p
<1>4. r.state = "RRCVBLK" /\ r.file = t.file
  BY <1>1, <1>2 DEF NamingInv, Shapes
<1>5. \A y \in G : y.type = "FNAME" /\ y.file = t.file
  BY <1>1, <1>2, <1>4 DEF NamingInv
<1>6. \A y \in C : y.type # "EOFACK" /\ y.type # "FREQ"
  BY <1>1, <1>2 DEF NamingInv
<1>7. SendingInv(u, r, G, GG, C, CC, A)
  BY <1>4, <1>5, <1>6, <1>9, <1>10 DEF SendingInv
<1>8. RequestInv(p, u, r, G, d, A)
  BY <1>1, <1>2, <1>3 DEF RequestInv
<1>11. ScanInv(s, u, r, S)
  BY <1>2 DEF ScanInv
<1> QED BY <1>3, <1>7, <1>8, <1>11 DEF Dir, F, FF, B, BB, G, GG, C, CC, p

\* A request, in answer to the null name: q is the list of files it is for.
LEMMA ServeDir ==
  ASSUME NEW s, NEW t, NEW r, NEW c, NEW b, NEW d, NEW S, NEW A, Dir(s, t, r, c, b, d, S, A),
         Shapes(t, r), Names(t), t.file = None,
         NEW x, x.type = "FREQ", NEW b1, First(b, x, b1, Back),
         NEW q \in Seq(Files), q = Answer[Requests[Peer(s)][x.arg]],
         NEW u, u.state = (IF q = <<>> THEN "XSENDFREQNAK" ELSE "XSENDFNAME"),
         u.sendreq = (q # <<>>), u.reqtmp = q, u.file = (IF q = <<>> THEN None ELSE Head(q))
  PROVE  Dir(s, u, r, c, b1, d, S, A)
<1> DEFINE F == In(c, Forth)   FF == Pairs(c, Forth)   B == In(b, Back)   BB == Pairs(b, Back)
           C == In(b1, Back)  CC == Pairs(b1, Back)
           p == Peer(s)
<1>1. /\ C \subseteq B /\ CC \subseteq BB
      /\ x \in B /\ \A y \in C : <<x, y>> \in BB
  BY DEF First, Fewer
<1>2. NamingInv(p, t, r, F, FF, B, BB, d) /\ RequestInv(p, t, r, F, d, A) /\ ScanInv(s, t, r, S)
  BY DEF Dir
<1>3. \A z \in CC : z[1] \in C /\ z[2] \in C
  BY DEF CC, C, Pairs, In
<1>4. \A z \in FF : z[1] \in F /\ z[2] \in F
  BY DEF FF, F, Pairs, In
<1>5. q # <<>> => Head(q) \in Files /\ Head(q) # None /\ Len(q) \in Nat \ {0} /\ Head(q) = q[1]
                  /\ DOMAIN q = 1 .. Len(q)
  BY FilesAssumption
<1> HIDE DEF F, FF, B, BB, C, CC, p
<1>6. /\ r.state # "RDONE" /\ ~r.started /\ More(p, d) /\ x.arg = d + 1
      /\ \A y \in F : y.type = "FNAME" /\ y.file = None
  BY <1>1, <1>2 DEF NamingInv
<1>7. r.state = "RRCVFNAME"
  BY <1>2, <1>6 DEF NamingInv, Shapes
<1>8. q = Ans(p, d)
  BY <1>6 DEF Ans, p
<1>9. \A y \in C : y.type # "FNACK" /\ y.type # "FRNAKACK"
  BY <1>1, <1>2, <1>7 DEF NamingInv
<1>10. AllHere(Outbound[s], S)
  BY <1>2 DEF ScanInv
<1>11. CASE q = <<>>
  <2>1. ~Names(u) /\ ~Sends(u) /\ Denies(u) /\ u.state # "XDONE" /\ u.file = None /\ ~u.sendreq
    BY <1>11 DEF Names, Sends, Denies
  <2>2. DenyingInv(p, u, r, F, FF, C, CC, d)
    BY <1>3, <1>4, <1>6, <1>7, <1>8, <1>9, <1>11, <2>1 DEF DenyingInv
  <2>3. RequestInv(p, u, r, F, d, A)
    BY <1>6, <2>1 DEF RequestInv
  <2>4. ScanInv(s, u, r, S)
    BY <1>10, <2>1 DEF ScanInv
  <2> QED BY <2>1, <2>2, <2>3, <2>4 DEF Dir, F, FF, B, BB, C, CC, p
<1>12. CASE q # <<>>
  <2>1. /\ Names(u) /\ ~Sends(u) /\ ~Denies(u) /\ u.state # "XDONE"
        /\ u.file # None /\ u.sendreq
    BY <1>5, <1>12 DEF Names, Sends, Denies
  <2>2. NamingInv(p, u, r, F, FF, C, CC, d)
    <3>1. \A y \in C : y.type = "FREQ" => y.arg = d + 1
      BY <1>1, <1>2 DEF NamingInv
    <3>2. \A y \in C : y.type = "FREQ" => u.reqtmp = Answer[Requests[p][y.arg]]
      BY <1>8, <3>1 DEF Ans
    <3> QED BY <1>3, <1>4, <1>6, <1>7, <1>8, <1>9, <2>1, <3>2 DEF NamingInv
  <2>3. RequestInv(p, u, r, F, d, A)
    BY <1>6, <1>7, <1>8, <1>12, <2>1 DEF RequestInv
  <2>4. ScanInv(s, u, r, S)
    BY <1>10, <2>1 DEF ScanInv
  <2> QED BY <2>1, <2>2, <2>3, <2>4 DEF Dir, F, FF, B, BB, C, CC, p
<1> QED BY <1>11, <1>12

\* A request that is heard again is served again.
LEMMA SameRequest ==
  ASSUME NEW s, NEW t, NEW r, NEW c, NEW b, NEW d, NEW S, NEW A, Dir(s, t, r, c, b, d, S, A),
         Names(t), t.file # None, NEW x \in In(b, Back), x.type = "FREQ"
  PROVE  t.sendreq /\ t.reqtmp = Answer[Requests[Peer(s)][x.arg]] /\ t.file = Head(t.reqtmp)
BY DEF Dir, NamingInv, RequestInv

\* The denial is understood: back to the null name.
LEMMA DenialOver ==
  ASSUME NEW s, NEW t, NEW r, NEW c, NEW b, NEW d, NEW S, NEW A, Dir(s, t, r, c, b, d, S, A),
         Denies(t), NEW x, x.type = "FRNAKACK", NEW b1, First(b, x, b1, Back),
         NEW u, u.state = "XSENDFNAME", u.file = None, ~u.sendreq
  PROVE  Dir(s, u, r, c, b1, d, S, A)
<1> DEFINE F == In(c, Forth)   FF == Pairs(c, Forth)   B == In(b, Back)   BB == Pairs(b, Back)
           C == In(b1, Back)  CC == Pairs(b1, Back)
           p == Peer(s)
<1>1. /\ C \subseteq B /\ CC \subseteq BB
      /\ x \in B /\ \A y \in C : <<x, y>> \in BB
  BY DEF First, Fewer
<1>2. DenyingInv(p, t, r, F, FF, B, BB, d) /\ RequestInv(p, t, r, F, d, A) /\ ScanInv(s, t, r, S)
  BY DEF Dir
<1>3. \A z \in CC : z[1] \in C /\ z[2] \in C
  BY DEF CC, C, Pairs, In
<1>4. \A z \in FF : z[1] \in F /\ z[2] \in F
  BY DEF FF, F, Pairs, In
<1>5. Names(u) /\ ~Sends(u) /\ ~Denies(u) /\ u.state # "XDONE"
  BY DEF Names, Sends, Denies
<1> HIDE DEF F, FF, B, BB, C, CC, p
<1>6. \A y \in F : y.type # "FNAME" /\ y.type # "BLK"
  BY <1>1, <1>2 DEF DenyingInv
<1>7. \A y \in C : y.type # "FREQ" /\ y.type # "FNACK"
  BY <1>1, <1>2 DEF DenyingInv
<1>8. NamingInv(p, u, r, F, FF, C, CC, d)
  BY <1>2, <1>3, <1>4, <1>6, <1>7 DEF NamingInv, DenyingInv
<1>9. RequestInv(p, u, r, F, d, A)
  BY <1>2 DEF RequestInv, DenyingInv, AllHere
<1>10. ScanInv(s, u, r, S)
  BY <1>2 DEF ScanInv, DenyingInv
<1> QED BY <1>5, <1>8, <1>9, <1>10 DEF Dir, F, FF, B, BB, C, CC, p

\* The end of the file is acknowledged: it has arrived.
LEMMA EndedHere ==
  ASSUME NEW s, NEW t, NEW r, NEW c, NEW b, NEW d, NEW S, NEW A, Dir(s, t, r, c, b, d, S, A),
         Shapes(t, r), Sends(t), NEW x \in In(b, Back), x.type = "EOFACK"
  PROVE  t.file \in A /\ r.state = "RRCVFNAME"
BY DEF Dir, SendingInv, Shapes

\* The next name is offered, between files.
LEMMA NextNameDir ==
  ASSUME NEW s, NEW t, NEW r, NEW c, NEW b, NEW d, NEW S, NEW A, Dir(s, t, r, c, b, d, S, A),
         Shapes(t, r), Sends(t), NEW x, x.type = "EOFACK", NEW b1, First(b, x, b1, Back),
         NEW u, u.state = "XSENDFNAME",
         NEW S1, ScanInv(s, u, r, S1), RequestInv(Peer(s), u, r, In(c, Forth), d, A)
  PROVE  Dir(s, u, r, c, b1, d, S1, A)
<1> DEFINE F == In(c, Forth)   FF == Pairs(c, Forth)   B == In(b, Back)   BB == Pairs(b, Back)
           C == In(b1, Back)  CC == Pairs(b1, Back)
           p == Peer(s)
<1>1. /\ C \subseteq B /\ CC \subseteq BB
      /\ x \in B /\ \A y \in C : <<x, y>> \in BB
  BY DEF First, Fewer
<1>2. SendingInv(t, r, F, FF, B, BB, A) /\ r.state = "RRCVFNAME"
  BY <1>1, EndedHere DEF Dir
<1>3. \A z \in CC : z[1] \in C /\ z[2] \in C
  BY DEF CC, C, Pairs, In
<1>4. \A z \in FF : z[1] \in F /\ z[2] \in F
  BY DEF FF, F, Pairs, In
<1>5. Names(u) /\ ~Sends(u) /\ ~Denies(u) /\ u.state # "XDONE"
  BY DEF Names, Sends, Denies
<1> HIDE DEF F, FF, B, BB, C, CC, p
<1>6. \A y \in F : y.type = "BLK"
  BY <1>2 DEF SendingInv
<1>7. \A y \in C : y.type # "FREQ" /\ y.type # "FNACK"
  BY <1>1, <1>2 DEF SendingInv
<1>8. NamingInv(p, u, r, F, FF, C, CC, d)
  BY <1>2, <1>3, <1>4, <1>6, <1>7 DEF NamingInv
<1> QED BY <1>5, <1>8 DEF Dir, F, FF, B, BB, C, CC, p

-----------------------------------------------------------------------------
(* The lines *)

\* A packet that is first on a line, and the rest.
LEMMA LineRead ==
  ASSUME NEW c \in Seq(Packet), c # <<>>, NEW T
  PROVE  /\ Fewer(c, Tail(c), T)
         /\ Head(c).type \in T => First(c, Head(c), Tail(c), T)
<1> DEFINE g == Tail(c)
<1>1. /\ Len(c) \in Nat /\ Len(c) > 0 /\ DOMAIN c = 1 .. Len(c)
      /\ DOMAIN g = 1 .. Len(c) - 1 /\ \A i \in DOMAIN g : g[i] = c[i + 1]
      /\ Head(c) = c[1]
  BY HeadTailProperties, LenProperties
<1> HIDE DEF g
<1>2. \A i \in DOMAIN g : i + 1 \in DOMAIN c /\ 1 < i + 1
  BY <1>1
<1>3. In(g, T) \subseteq In(c, T)
  BY <1>1, <1>2 DEF In
<1>4. Pairs(g, T) \subseteq Pairs(c, T)
  <2> SUFFICES ASSUME NEW i \in DOMAIN g, NEW j \in DOMAIN g, i < j,
                      g[i].type \in T, g[j].type \in T
               PROVE  <<g[i], g[j]>> \in Pairs(c, T)
    BY DEF Pairs
  <2>1. <<i + 1, j + 1>> \in {k \in (DOMAIN c) \X (DOMAIN c) :
                            k[1] < k[2] /\ c[k[1]].type \in T /\ c[k[2]].type \in T}
    BY <1>1, <1>2
  <2> QED BY <1>1, <2>1 DEF Pairs
<1>5. ASSUME Head(c).type \in T
      PROVE  Head(c) \in In(c, T) /\ \A y \in In(g, T) : <<Head(c), y>> \in Pairs(c, T)
  <2>1. 1 \in DOMAIN c
    BY <1>1
  <2>2. Head(c) \in In(c, T)
    BY <1>1, <1>5, <2>1 DEF In
  <2>3. ASSUME NEW i \in DOMAIN g, g[i].type \in T
        PROVE  <<Head(c), g[i]>> \in Pairs(c, T)
    <3>1. <<1, i + 1>> \in {k \in (DOMAIN c) \X (DOMAIN c) :
                              k[1] < k[2] /\ c[k[1]].type \in T /\ c[k[2]].type \in T}
      BY <1>1, <1>2, <1>5, <2>1, <2>3
    <3> QED BY <1>1, <2>3, <3>1 DEF Pairs
  <2> QED BY <2>2, <2>3 DEF In
<1> QED BY <1>3, <1>4, <1>5 DEF Fewer, First, g

\* A packet put on a line is behind the others.
LEMMA LineSent ==
  ASSUME NEW c \in Seq(Packet), NEW x \in Packet, NEW T
  PROVE  /\ Append(c, x) \in Seq(Packet)
         /\ x.type \notin T => Fewer(c, Append(c, x), T)
         /\ Adds(c, Append(c, x), x, T)
<1> DEFINE g == Append(c, x)
<1>1. /\ Len(c) \in Nat /\ DOMAIN c = 1 .. Len(c) /\ g \in Seq(Packet)
      /\ DOMAIN g = 1 .. Len(c) + 1 /\ \A i \in DOMAIN c : g[i] = c[i]
      /\ g[Len(c) + 1] = x
  BY AppendProperties, LenProperties
<1> HIDE DEF g
<1>2. \A i \in DOMAIN g : i \in Nat /\ (i \in DOMAIN c \/ i = Len(c) + 1)
  BY <1>1
<1>3. ASSUME NEW i \in DOMAIN g, g[i].type \in T
      PROVE  (g[i] = x /\ x.type \in T) \/ (i \in DOMAIN c /\ g[i] \in In(c, T))
  BY <1>1, <1>2, <1>3 DEF In
<1>4. ASSUME NEW i \in DOMAIN g, NEW j \in DOMAIN g, i < j, g[i].type \in T, g[j].type \in T
      PROVE  \/ g[i] \in In(c, T) /\ g[j] = x /\ x.type \in T
             \/ <<g[i], g[j]>> \in Pairs(c, T)
  <2>1. i \in DOMAIN c
    BY <1>1, <1>2, <1>4
  <2>2. CASE j \in DOMAIN c
    <3>1. <<i, j>> \in {k \in (DOMAIN c) \X (DOMAIN c) :
                          k[1] < k[2] /\ c[k[1]].type \in T /\ c[k[2]].type \in T}
      BY <1>1, <1>4, <2>1, <2>2
    <3> QED BY <1>1, <2>1, <2>2, <3>1 DEF Pairs
  <2>3. CASE j = Len(c) + 1
    BY <1>1, <1>4, <2>1, <2>3 DEF In
  <2> QED BY <1>2, <2>2, <2>3
<1>5. \A y \in In(g, T) : y \in In(c, T) \/ (y = x /\ x.type \in T)
  BY <1>3 DEF In
<1>6. \A q \in Pairs(g, T) : q \in Pairs(c, T) \/ (q \in In(c, T) \X {x} /\ x.type \in T)
  <2> SUFFICES ASSUME NEW i \in DOMAIN g, NEW j \in DOMAIN g, i < j,
                      g[i].type \in T, g[j].type \in T
               PROVE  \/ <<g[i], g[j]>> \in Pairs(c, T)
                      \/ <<g[i], g[j]>> \in In(c, T) \X {x} /\ x.type \in T
    BY DEF Pairs
  <2> QED BY <1>4
<1> QED BY <1>1, <1>5, <1>6 DEF Fewer, Adds, g

\* A line that is cut short.
LEMMA LineCut ==
  ASSUME NEW c \in Seq(Packet), NEW n \in 0 .. Len(c), NEW T
  PROVE  SubSeq(c, 1, n) \in Seq(Packet) /\ Fewer(c, SubSeq(c, 1, n), T)
<1> DEFINE g == SubSeq(c, 1, n)
<1>1. /\ Len(c) \in Nat /\ DOMAIN c = 1 .. Len(c) /\ n \in Int
      /\ \A i \in 1 .. n : c[i] \in Packet
  BY LenProperties, ElementOfSeq
<1>2. /\ g \in Seq(Packet) /\ Len(g) = n /\ \A i \in 1 .. n : g[i] = c[i]
  BY <1>1, SubSeqProperties
<1>3. DOMAIN g = 1 .. n
  BY <1>2
<1> HIDE DEF g
<1>4. \A i \in DOMAIN g : i \in DOMAIN c /\ g[i] = c[i]
  BY <1>1, <1>2, <1>3
<1>5. In(g, T) \subseteq In(c, T)
  BY <1>4 DEF In
<1>6. Pairs(g, T) \subseteq Pairs(c, T)
  <2> SUFFICES ASSUME NEW i \in DOMAIN g, NEW j \in DOMAIN g, i < j,
                      g[i].type \in T, g[j].type \in T
               PROVE  <<g[i], g[j]>> \in Pairs(c, T)
    BY DEF Pairs
  <2>1. <<i, j>> \in {k \in (DOMAIN c) \X (DOMAIN c) :
                            k[1] < k[2] /\ c[k[1]].type \in T /\ c[k[2]].type \in T}
    BY <1>4
  <2> QED BY <1>4, <2>1 DEF Pairs
<1> QED BY <1>2, <1>5, <1>6 DEF Fewer, g

\* The first packet of a line is garbled.
LEMMA LineGarbled ==
  ASSUME NEW c \in Seq(Packet), c # <<>>, NEW x \in Packet, NEW T, x.type \notin T
  PROVE  Fewer(c, <<x>> \o Tail(c), T)
<1> DEFINE g == <<x>> \o Tail(c)
<1>1. /\ Len(c) \in Nat /\ Len(c) > 0 /\ DOMAIN c = 1 .. Len(c)
      /\ Tail(c) \in Seq(Packet) /\ Len(Tail(c)) = Len(c) - 1
      /\ \A i \in 1 .. Len(c) - 1 : Tail(c)[i] = c[i + 1]
  BY HeadTailProperties, LenProperties
<1>2. <<x>> \in Seq(Packet) /\ Len(<<x>>) = 1 /\ <<x>>[1] = x
  OBVIOUS
<1>3. /\ g \in Seq(Packet) /\ Len(g) = 1 + (Len(c) - 1)
      /\ \A i \in 1 .. 1 + (Len(c) - 1) : g[i] = IF i <= 1 THEN <<x>>[i] ELSE Tail(c)[i - 1]
  BY <1>1, <1>2, ConcatProperties
<1>4. DOMAIN g = 1 .. Len(c)
  BY <1>1, <1>3
<1> HIDE DEF g
<1>5. \A i \in DOMAIN g : i \in DOMAIN c /\ (g[i] = x \/ g[i] = c[i])
  <2> SUFFICES ASSUME NEW i \in DOMAIN g PROVE i \in DOMAIN c /\ (g[i] = x \/ g[i] = c[i])
    OBVIOUS
  <2>1. CASE i <= 1 BY <1>1, <1>2, <1>3, <1>4, <2>1
  <2>2. CASE ~(i <= 1)
    <3>1. i - 1 \in 1 .. Len(c) - 1 /\ (i - 1) + 1 = i BY <1>1, <1>4, <2>2
    <3> QED BY <1>1, <1>3, <1>4, <2>2, <3>1
  <2> QED BY <2>1, <2>2
<1>6. \A i \in DOMAIN g : g[i].type \in T => i \in DOMAIN c /\ g[i] = c[i]
  BY <1>5
<1>7. In(g, T) \subseteq In(c, T)
  BY <1>6 DEF In
<1>8. Pairs(g, T) \subseteq Pairs(c, T)
  <2> SUFFICES ASSUME NEW i \in DOMAIN g, NEW j \in DOMAIN g, i < j,
                      g[i].type \in T, g[j].type \in T
               PROVE  <<g[i], g[j]>> \in Pairs(c, T)
    BY DEF Pairs
  <2>1. <<i, j>> \in {k \in (DOMAIN c) \X (DOMAIN c) :
                            k[1] < k[2] /\ c[k[1]].type \in T /\ c[k[2]].type \in T}
    BY <1>6
  <2> QED BY <1>6, <2>1 DEF Pairs
<1> QED BY <1>7, <1>8 DEF Fewer, g

\* Packets of no interest behind the others.
LEMMA LineTrailed ==
  ASSUME NEW c \in Seq(Packet), NEW e \in Seq(Packet), NEW T,
         \A i \in DOMAIN e : e[i].type \notin T
  PROVE  Fewer(c, c \o e, T)
<1> DEFINE g == c \o e
<1>1. /\ Len(c) \in Nat /\ DOMAIN c = 1 .. Len(c)
      /\ Len(e) \in Nat /\ DOMAIN e = 1 .. Len(e)
  BY LenProperties
<1>2. /\ g \in Seq(Packet) /\ Len(g) = Len(c) + Len(e)
      /\ \A i \in 1 .. Len(c) + Len(e) : g[i] = IF i <= Len(c) THEN c[i] ELSE e[i - Len(c)]
  BY ConcatProperties
<1>3. DOMAIN g = 1 .. Len(c) + Len(e)
  BY <1>2
<1> HIDE DEF g
<1>4. ASSUME NEW i \in DOMAIN g, g[i].type \in T PROVE i \in DOMAIN c /\ g[i] = c[i]
  <2>1. CASE i <= Len(c) BY <1>1, <1>2, <1>3, <2>1
  <2>2. CASE ~(i <= Len(c))
    <3>1. i - Len(c) \in DOMAIN e BY <1>1, <1>3, <2>2
    <3> QED BY <1>2, <1>3, <1>4, <2>2, <3>1
  <2> QED BY <2>1, <2>2
<1>5. In(g, T) \subseteq In(c, T)
  BY <1>4 DEF In
<1>6. Pairs(g, T) \subseteq Pairs(c, T)
  <2> SUFFICES ASSUME NEW i \in DOMAIN g, NEW j \in DOMAIN g, i < j,
                      g[i].type \in T, g[j].type \in T
               PROVE  <<g[i], g[j]>> \in Pairs(c, T)
    BY DEF Pairs
  <2>1. <<i, j>> \in {k \in (DOMAIN c) \X (DOMAIN c) :
                            k[1] < k[2] /\ c[k[1]].type \in T /\ c[k[2]].type \in T}
    BY <1>4
  <2> QED BY <1>4, <2>1 DEF Pairs
<1> QED BY <1>5, <1>6 DEF Fewer, g

\* Losing twice is losing.
LEMMA FewerFewer ==
  ASSUME NEW c, NEW c1, NEW c2, NEW T, Fewer(c, c1, T), Fewer(c1, c2, T)
  PROVE  Fewer(c, c2, T)
BY DEF Fewer

\* So is adding a packet to a line that then loses some.
LEMMA AddsFewer ==
  ASSUME NEW c, NEW c1, NEW c2, NEW x, NEW T, Adds(c, c1, x, T), Fewer(c1, c2, T)
  PROVE  Adds(c, c2, x, T)
BY DEF Fewer, Adds

\* A line that is left alone loses nothing.
LEMMA FewerSame == \A c, T : Fewer(c, c, T)
BY DEF Fewer

-----------------------------------------------------------------------------
(* The outbound scan *)

Struck == marked \cup removed

\* What the scan passes over is struck off.
LEMMA NextEntryFirst ==
  ASSUME NEW s \in Stations, NEW i \in Nat
  PROVE  LET n == NextEntry(s, i)
         IN  /\ n = 0 => \A j \in DOMAIN Outbound[s] : j > i => Outbound[s][j] \in Struck
             /\ n # 0 => /\ n \in DOMAIN Outbound[s] /\ n > i /\ Outbound[s][n] \notin Struck
                         /\ \A j \in DOMAIN Outbound[s] :
                              j > i /\ j < n => Outbound[s][j] \in Struck
<1> DEFINE left == {j \in DOMAIN Outbound[s] : j > i /\ Offerable(Outbound[s][j])}
           n == NextEntry(s, i)
<1>1. DOMAIN Outbound[s] \subseteq Nat \ {0}
  BY FilesAssumption
<1>2. left \subseteq Nat \ {0} /\ left \subseteq DOMAIN Outbound[s]
  BY <1>1
<1>3. \A j \in DOMAIN Outbound[s] : j > i /\ j \notin left => Outbound[s][j] \in Struck
  BY DEF Offerable, Struck
<1>4. \A j \in left : Outbound[s][j] \notin Struck
  BY DEF Offerable, Struck
<1>5. CASE left = {}
  <2>1. n = 0 BY <1>5 DEF NextEntry
  <2> QED BY <1>3, <1>5, <2>1
<1>6. CASE left # {}
  <2>1. PICK x \in left : \A y \in left : <<y, x>> \notin OpToRel(<, Nat)
    BY <1>2, <1>6, WFMin, NatLessThanWellFounded, Zenon
  <2>2. \A y \in left : ~(y < x)
    BY <1>2, <2>1, Zenon DEF OpToRel
  <2>3. \A y \in left : x <= y
    BY <1>2, <2>2
  <2>4. n = CHOOSE j \in left : \A k \in left : j <= k
    BY <1>6 DEF NextEntry
  <2> HIDE DEF left, n
  <2>5. n \in left /\ \A k \in left : n <= k
    BY <2>3, <2>4
  <2>6. \A j \in DOMAIN Outbound[s] : j < n => j \notin left
    BY <1>1, <1>2, <2>5
  <2>7. n # 0 /\ n \in DOMAIN Outbound[s] /\ Outbound[s][n] \notin Struck
    BY <1>2, <1>4, <2>5
  <2>8. n > i BY <2>5 DEF left
  <2> QED BY <1>3, <2>6, <2>7, <2>8 DEF n
<1> QED BY <1>5, <1>6

\* The scan goes on from entry i, all the entries up to which are struck off, or
\* about to be.
LEMMA ScanOn ==
  ASSUME NEW s \in Stations, NEW t \in TxRecord, NEW i \in Nat, NEW r, NEW S1,
         Struck \subseteq S1,
         \A j \in DOMAIN Outbound[s] : j <= i => Outbound[s][j] \in S1,
         ~r.started /\ ~r.attempting,
         NEW u, u.file = FirstOf(s, t, i).file, u.idx = FirstOf(s, t, i).idx,
         u.doafter = FirstOf(s, t, i).doafter, ~u.sendreq
  PROVE  ScanInv(s, u, r, S1)
<1> DEFINE n == NextEntry(s, i)
           v == FirstOf(s, t, i)
<1>1. DOMAIN Outbound[s] \subseteq Nat
  BY FilesAssumption
<1>2. \A j \in DOMAIN Outbound[s] : j <= i \/ j > i
  BY <1>1
<1>3. CASE n = 0
  <2>1. v = [t EXCEPT !.idx = 0, !.file = None]
    BY <1>3 DEF FirstOf
  <2>2. v.file = None
    BY <2>1 DEF TxRecord
  <2>3. \A j \in DOMAIN Outbound[s] : j > i => Outbound[s][j] \in Struck
    BY <1>3, NextEntryFirst
  <2>4. AllHere(Outbound[s], S1)
    BY <1>2, <2>3 DEF AllHere
  <2> QED BY <2>2, <2>4 DEF ScanInv
<1>4. CASE n # 0
  <2>1. v = [t EXCEPT !.idx = n, !.file = Outbound[s][n], !.doafter = DoAfter(Outbound[s][n])]
    BY <1>4 DEF FirstOf
  <2>2. /\ n \in DOMAIN Outbound[s]
        /\ \A j \in DOMAIN Outbound[s] : j > i /\ j < n => Outbound[s][j] \in Struck
    BY <1>4, NextEntryFirst
  <2> HIDE DEF n
  <2>3. v.idx = n /\ v.file = Outbound[s][n] /\ v.doafter = DoAfter(Outbound[s][n])
    BY <2>1 DEF TxRecord
  <2>4. v.file # None
    <3>1. Outbound[s] \in Seq(Files) BY FilesAssumption
    <3>2. Outbound[s][n] \in Files BY <2>2, <3>1, LenProperties, ElementOfSeq
    <3> QED BY <2>3, <3>2, FilesAssumption
  <2>5. \A j \in DOMAIN Outbound[s] : j < n => Outbound[s][j] \in S1
    BY <1>2, <2>2
  <2> HIDE DEF v
  <2>6. /\ u.file # None /\ u.idx \in DOMAIN Outbound[s] /\ u.file = Outbound[s][u.idx]
        /\ u.doafter = DoAfter(u.file)
    BY <2>2, <2>3, <2>4 DEF v
  <2>7. \A j \in DOMAIN Outbound[s] : j < u.idx => Outbound[s][j] \in S1
    BY <2>3, <2>5 DEF v
  <2> QED BY <2>6, <2>7 DEF ScanInv
<1> QED BY <1>3, <1>4

\* Once everything is struck off, the scan finds nothing.
LEMMA ScanOver ==
  ASSUME NEW s \in Stations, NEW t \in TxRecord, NEW i \in Nat, AllHere(Outbound[s], Struck)
  PROVE  FirstOf(s, t, i).file = None /\ FirstOf(s, t, i).idx = 0
<1>1. NextEntry(s, i) = 0
  BY NextEntryFirst DEF AllHere
<1> QED BY <1>1 DEF FirstOf, TxRecord

-----------------------------------------------------------------------------
(* Both directions of the session *)

Here(s)      == {f \in Files : Arrived(s, f)}
Direction(s) == Dir(s, tx[s], rx[Peer(s)], chan[Peer(s)], chan[s], reqdone[Peer(s)],
                    Struck, Here(Peer(s)))
Delivery     == \A s \in Stations : Direction(s)

\* Nobody has refused a file, that its peer knows of: no FNACK with position -1.
NoRefusal == \A s \in Stations : \A x \in In(chan[s], Back) : x.type = "FNACK" => x.pos # -1

\* The types, in the form needed here.
LEMMA HalfTypes ==
  ASSUME TypeOK, NEW s \in Stations
  PROVE  /\ Peer(s) \in Stations /\ Peer(s) # s /\ Peer(Peer(s)) = s
         /\ \A u \in Stations : u = s \/ u = Peer(s)
         /\ chan[s] \in Seq(Packet) /\ chan[Peer(s)] \in Seq(Packet)
         /\ tx[s] \in TxType /\ tx[s] \in TxRecord
         /\ rx[s] \in RxType /\ rx[s] \in RxRecord
         /\ rx[Peer(s)] \in RxType /\ rx[Peer(s)] \in RxRecord
         /\ Shapes(tx[s], rx[Peer(s)])
         /\ Len(Requests[s]) \in Nat /\ reqdone[s] \in Nat
<1>1. Peer(s) \in Stations /\ Peer(s) # s /\ Peer(Peer(s)) = s /\ \A u \in Stations : u = s \/ u = Peer(s)
  BY PeerFacts DEF Stations, Peer
<1>2. chan[s] \in Seq(Packet) /\ chan[Peer(s)] \in Seq(Packet)
  BY <1>1 DEF TypeOK, Lines
<1>3. /\ tx[s] \in TxType /\ tx[s] \in TxRecord
      /\ rx[s] \in RxType /\ rx[s] \in RxRecord
      /\ rx[Peer(s)] \in RxType /\ rx[Peer(s)] \in RxRecord
  BY <1>1 DEF TypeOK, TxType, RxType
<1>4. Names(tx[s]) \/ Sends(tx[s]) \/ Denies(tx[s]) \/ tx[s].state = "XDONE"
  BY <1>3 DEF TxRecord, Names, Sends, Denies
<1>5. Sends(tx[s]) => tx[s].file # None
  BY <1>3, FilesAssumption DEF TxType, Sends
<1>6. /\ rx[Peer(s)].state \in {"RDONE", "RRCVFNAME", "RRCVBLK"}
      /\ rx[Peer(s)].state = "RRCVBLK" => rx[Peer(s)].file # None
      /\ rx[Peer(s)].state = "RDONE" => rx[Peer(s)].file = None
  BY <1>3, FilesAssumption DEF RxType, RxRecord
<1>7. Len(Requests[s]) \in Nat /\ reqdone[s] \in Nat
  BY RequestsAssumption DEF TypeOK
<1> QED BY <1>1, <1>2, <1>3, <1>4, <1>5, <1>6, <1>7 DEF Shapes

\* Both directions are all there is.
LEMMA BothDirections ==
  ASSUME TypeOK, NEW s \in Stations, Direction(s)', Direction(Peer(s))'
  PROVE  Delivery'
<1>1. \A u \in Stations : u = s \/ u = Peer(s)
  BY HalfTypes
<1> QED BY <1>1 DEF Delivery

\* A direction neither half of which does anything that matters.
LEMMA Unmoved ==
  ASSUME TypeOK, Delivery, NEW s \in Stations,
         SameTx(tx[s], tx'[s]), SameRx(rx[Peer(s)], rx'[Peer(s)]),
         Fewer(chan[Peer(s)], chan'[Peer(s)], Forth), Fewer(chan[s], chan'[s], Back),
         reqdone'[Peer(s)] = reqdone[Peer(s)],
         Struck \subseteq Struck', Here(Peer(s)) \subseteq Here(Peer(s))'
  PROVE  Direction(s)'
<1>1. Dir(s, tx[s], rx[Peer(s)], chan[Peer(s)], chan[s], reqdone[Peer(s)], Struck, Here(Peer(s)))
  BY DEF Delivery, Direction
<1>2. Dir(s, tx'[s], rx'[Peer(s)], chan'[Peer(s)], chan'[s], reqdone[Peer(s)],
          Struck', Here(Peer(s))')
  BY <1>1, DirFewer
<1> QED BY <1>2 DEF Direction

\* Files stay where they are.
LEMMA SameFiles ==
  /\ UNCHANGED got => \A s \in Stations : Here(s) \subseteq Here(s)'
  /\ UNCHANGED <<marked, removed>> => Struck \subseteq Struck'
BY DEF Here, Arrived, Struck

\* A half that is left alone, or only hears that the other end is alive.
LEMMA SameHalves ==
  /\ \A t : SameTx(t, t) /\ SameRx(t, t)
  /\ \A t \in TxType : SameTx(t, Heard(t))
<1>1. \A t : SameTx(t, t) /\ SameRx(t, t)
  BY DEF SameTx, SameRx
<1>2. ASSUME NEW t \in TxType PROVE SameTx(t, Heard(t))
  BY DEF Heard, TxType, TxRecord, SameTx, Names, Sends, Denies
<1> QED BY <1>1, <1>2

\* What becomes of the lines: one packet is sent, one is read, or both.
LEMMA SendLines ==
  ASSUME TypeOK, NEW s \in Stations, NEW x \in Packet, Send(s, x)
  PROVE  /\ chan'[s] = chan[s]
         /\ \A T : /\ x.type \notin T => Fewer(chan[Peer(s)], chan'[Peer(s)], T)
                   /\ Adds(chan[Peer(s)], chan'[Peer(s)], x, T)
<1>1. chan'[s] = chan[s] /\ chan'[Peer(s)] = Append(chan[Peer(s)], x)
  BY HalfTypes DEF Send, TypeOK, Lines
<1> QED BY <1>1, HalfTypes, LineSent

\* One packet is read.
LEMMA ConsumeLines ==
  ASSUME TypeOK, NEW s \in Stations, chan[s] # <<>>, Consume(s)
  PROVE  /\ chan'[Peer(s)] = chan[Peer(s)]
         /\ \A T : /\ Fewer(chan[s], chan'[s], T)
                   /\ Head(chan[s]).type \in T => First(chan[s], Head(chan[s]), chan'[s], T)
<1>1. chan'[s] = Tail(chan[s]) /\ chan'[Peer(s)] = chan[Peer(s)]
  BY HalfTypes DEF Consume, TypeOK, Lines
<1> QED BY <1>1, HalfTypes, LineRead

\* One is read and another sent.
LEMMA ReplyLines ==
  ASSUME TypeOK, NEW s \in Stations, chan[s] # <<>>, NEW x \in Packet, Reply(s, x)
  PROVE  /\ \A T : /\ Fewer(chan[s], chan'[s], T)
                   /\ Head(chan[s]).type \in T => First(chan[s], Head(chan[s]), chan'[s], T)
         /\ \A T : /\ x.type \notin T => Fewer(chan[Peer(s)], chan'[Peer(s)], T)
                   /\ Adds(chan[Peer(s)], chan'[Peer(s)], x, T)
<1>1. chan'[s] = Tail(chan[s]) /\ chan'[Peer(s)] = Append(chan[Peer(s)], x)
  BY HalfTypes DEF Reply, TypeOK, Lines
<1>2. chan[s] \in Seq(Packet) /\ chan[Peer(s)] \in Seq(Packet)
  BY HalfTypes
<1>3. \A T : /\ Fewer(chan[s], chan'[s], T)
             /\ Head(chan[s]).type \in T => First(chan[s], Head(chan[s]), chan'[s], T)
  BY <1>1, <1>2, LineRead
<1>4. \A T : /\ x.type \notin T => Fewer(chan[Peer(s)], chan'[Peer(s)], T)
             /\ Adds(chan[Peer(s)], chan'[Peer(s)], x, T)
  BY <1>1, <1>2, LineSent
<1> QED BY <1>3, <1>4

\* endbatch()'s HALT goes behind the rest.
LEMMA LeaveLines ==
  ASSUME TypeOK, NEW s \in Stations, NEW q \in [Stations -> Seq(Packet)],
         NEW leaving, LeaveOrStay(s, q, leaving)
  PROVE  /\ chan'[s] = q[s]
         /\ \A T \in {Forth, Back} : Fewer(q[Peer(s)], chan'[Peer(s)], T)
<1>1. Pkt("HALT") \in Packet /\ Pkt("HALT").type = "HALT"
  BY DEF Pkt, Packet, PktTypes
<1>2. \A T \in {Forth, Back} : Pkt("HALT").type \notin T
  BY <1>1 DEF Forth, Back
<1>3. CASE chan' = q
  BY <1>3, FewerSame
<1>4. CASE chan' = [q EXCEPT ![Peer(s)] = Append(@, Pkt("HALT"))]
  <2>1. chan'[s] = q[s] /\ chan'[Peer(s)] = Append(q[Peer(s)], Pkt("HALT"))
    BY <1>4, HalfTypes
  <2>2. q[Peer(s)] \in Seq(Packet)
    BY HalfTypes
  <2> QED BY <1>1, <1>2, <2>1, <2>2, LineSent
<1> QED BY <1>3, <1>4 DEF LeaveOrStay

\* The line after a packet has been read, and another one sent.
LEMMA ReadLine ==
  ASSUME TypeOK, NEW s \in Stations, chan[s] # <<>>
  PROVE  LET q == [chan EXCEPT ![s] = Tail(@)]
         IN  /\ q \in [Stations -> Seq(Packet)]
             /\ q[s] = Tail(chan[s]) /\ q[Peer(s)] = chan[Peer(s)]
<1>1. chan \in [Stations -> Seq(Packet)]
  BY DEF TypeOK, Lines
<1>2. Tail(chan[s]) \in Seq(Packet)
  BY <1>1, HeadTailProperties
<1> QED BY <1>1, <1>2, HalfTypes

\* The lines themselves, after a packet has been read and another one sent.
LEMMA ReplyLine ==
  ASSUME TypeOK, NEW s \in Stations, chan[s] # <<>>, NEW x \in Packet
  PROVE  LET q == [chan EXCEPT ![s] = Tail(@), ![Peer(s)] = Append(@, x)]
         IN  /\ q \in [Stations -> Seq(Packet)]
             /\ q[s] = Tail(chan[s]) /\ q[Peer(s)] = Append(chan[Peer(s)], x)
<1> DEFINE q1 == [chan EXCEPT ![s] = Tail(@)]
           q  == [q1 EXCEPT ![Peer(s)] = Append(@, x)]
<1>1. q1 \in [Stations -> Seq(Packet)] /\ q1[s] = Tail(chan[s]) /\ q1[Peer(s)] = chan[Peer(s)]
  BY ReadLine
<1>2. q = [chan EXCEPT ![s] = Tail(@), ![Peer(s)] = Append(@, x)]
  BY HalfTypes
<1> HIDE DEF q1
<1>3. Append(chan[Peer(s)], x) \in Seq(Packet)
  BY HalfTypes
<1>4. q \in [Stations -> Seq(Packet)] /\ q[s] = q1[s] /\ q[Peer(s)] = Append(q1[Peer(s)], x)
  BY <1>1, <1>3, HalfTypes
<1> QED BY <1>1, <1>2, <1>4

-----------------------------------------------------------------------------
(* The steps *)

\* Steps that say nothing about files, on lines that lose packets at most.
LEMMA Neutral ==
  ASSUME TypeOK, Delivery,
         \A s \in Stations : /\ SameTx(tx[s], tx'[s]) /\ SameRx(rx[s], rx'[s])
                             /\ Fewer(chan[s], chan'[s], Forth) /\ Fewer(chan[s], chan'[s], Back),
         UNCHANGED <<reqdone, got, marked, removed>>
  PROVE  Delivery'
<1> SUFFICES ASSUME NEW s \in Stations PROVE Direction(s)'
  BY DEF Delivery
<1>1. Peer(s) \in Stations BY HalfTypes
<1> QED BY <1>1, SameFiles, Unmoved

\* Sending: a block, the name, or the denial of a request.
LEMMA TransmitKeeps ==
  ASSUME TypeOK, NEW s \in Stations, Transmit(s)
  PROVE  /\ SameTx(tx[s], tx'[s]) /\ tx'[Peer(s)] = tx[Peer(s)]
         /\ UNCHANGED <<rx, reqdone, got, marked, removed>>
         /\ \E x \in Packet :
              /\ Send(s, x) /\ x.type \in Forth
              /\ \/ Sends(tx[s]) /\ x.type = "BLK" /\ x.file = tx[s].file
                 \/ Names(tx[s]) /\ x = Fname(tx[s].file)
                 \/ Denies(tx[s]) /\ x = Pkt("FREQNAK")
<1> DEFINE p == Peer(s)
           t == tx[s]
           u == tx'[s]
<1>1. p \in Stations /\ p # s /\ t \in TxRecord /\ t \in TxType
  BY HalfTypes
<1>2. UNCHANGED <<rx, reqdone, got, marked, removed>>
  BY DEF Transmit, SendBlk, SendFname, SendFreqNak, disk
<1>3. CASE SendBlk(s)
  <2>1. PICK pos, n, last, idle, on :
          /\ Send(s, Blk(t.file, pos, n)) /\ pos \in Nat /\ n \in Nat
          /\ tx' = [tx EXCEPT ![s] =
                  [t EXCEPT !.last = last, !.pos = pos + n,
                            !.state = IF on THEN "XRCVEOFACK" ELSE "XSENDBLK",
                            !.retry = on, !.idle = idle]]
    <3>1. PICK size \in 1 .. BlkMax :
            LET rest == IF t.pos < Size[t.file] THEN Size[t.file] - t.pos ELSE 0
                n    == IF size < rest THEN size ELSE rest
                last == n < size \/ t.pos + n >= Size[t.file]
            IN  /\ Send(s, Blk(t.file, t.pos, n))
                /\ tx' = [tx EXCEPT ![s] =
                     [t EXCEPT !.last  = t.pos, !.pos = t.pos + n,
                               !.state = IF last THEN "XRCVEOFACK" ELSE "XSENDBLK",
                               !.retry = last,
                               !.idle  = IF last THEN t.idle ELSE 0]]
      BY <1>3 DEF SendBlk
    <3> DEFINE rest == IF t.pos < Size[t.file] THEN Size[t.file] - t.pos ELSE 0
               n    == IF size < rest THEN size ELSE rest
               last == n < size \/ t.pos + n >= Size[t.file]
    <3>2. t.file \in Files /\ Size[t.file] \in Nat /\ t.pos \in Nat /\ size \in Nat
      <4>1. t.state = "XSENDBLK" BY <1>3 DEF SendBlk
      <4>2. t.file \in Files /\ t.pos \in Nat BY <1>1, <4>1 DEF TxType, TxRecord
      <4> QED BY <4>2, FilesAssumption, BoundsAssumption
    <3>3. n \in Nat BY <3>2
    <3> DEFINE idle == IF last THEN t.idle ELSE 0
    <3>4. /\ Send(s, Blk(t.file, t.pos, n))
          /\ tx' = [tx EXCEPT ![s] =
               [t EXCEPT !.last  = t.pos, !.pos = t.pos + n,
                         !.state = IF last THEN "XRCVEOFACK" ELSE "XSENDBLK",
                         !.retry = last, !.idle  = idle]]
      BY <3>1
    <3> HIDE DEF n, last, idle
    <3> QED BY <3>2, <3>3, <3>4
  <2> DEFINE x == Blk(t.file, pos, n)
  <2>2. t.state = "XSENDBLK" /\ t.file \in Files
    BY <1>1, <1>3 DEF SendBlk, TxType
  <2>3. x \in Packet /\ x.type = "BLK" /\ x.file = t.file
    BY <2>1, <2>2 DEF Blk, Packet, PktTypes
  <2>4. u = [t EXCEPT !.last = last, !.pos = pos + n,
                      !.state = IF on THEN "XRCVEOFACK" ELSE "XSENDBLK",
                      !.retry = on, !.idle = idle]
    BY <2>1, TypeOK DEF TypeOK
  <2>5. tx'[p] = tx[p]
    BY <1>1, <2>1 DEF TypeOK
  <2> HIDE DEF t, u
  <2>6. Sends(t) /\ SameTx(t, u)
    BY <1>1, <2>2, <2>4 DEF TxRecord, SameTx, Names, Sends, Denies
  <2> HIDE DEF x
  <2>7. x.type \in Forth BY <2>3 DEF Forth
  <2> QED BY <1>2, <2>1, <2>3, <2>5, <2>6, <2>7 DEF x, t, u
<1>4. CASE SendFname(s)
  <2> DEFINE x == Fname(t.file)
  <2>1. u = [t EXCEPT !.state = "XRCVFNACK", !.retry = TRUE] /\ tx'[p] = tx[p]
    BY <1>1, <1>4 DEF SendFname, TypeOK
  <2>2. t.state = "XSENDFNAME" /\ Send(s, x)
    BY <1>4 DEF SendFname
  <2>3. x \in Packet /\ x.type = "FNAME"
    BY <1>1 DEF Fname, Packet, PktTypes, TxRecord
  <2> HIDE DEF t, u
  <2>4. Names(t) /\ SameTx(t, u)
    BY <1>1, <2>1, <2>2 DEF TxRecord, SameTx, Names, Sends, Denies
  <2> HIDE DEF x
  <2>5. x.type \in Forth BY <2>3 DEF Forth
  <2> QED BY <1>2, <2>1, <2>2, <2>3, <2>4, <2>5 DEF x, t, u
<1>5. CASE SendFreqNak(s)
  <2> DEFINE x == Pkt("FREQNAK")
  <2>1. u = [t EXCEPT !.state = "XRCVFRNAKACK", !.retry = TRUE] /\ tx'[p] = tx[p]
    BY <1>1, <1>5 DEF SendFreqNak, TypeOK
  <2>2. t.state = "XSENDFREQNAK" /\ Send(s, x)
    BY <1>5 DEF SendFreqNak
  <2>3. x \in Packet /\ x.type = "FREQNAK"
    BY DEF Pkt, Packet, PktTypes
  <2> HIDE DEF t, u
  <2>4. Denies(t) /\ SameTx(t, u)
    BY <1>1, <2>1, <2>2 DEF TxRecord, SameTx, Names, Sends, Denies
  <2> HIDE DEF x
  <2>5. x.type \in Forth BY <2>3 DEF Forth
  <2> QED BY <1>2, <2>1, <2>2, <2>3, <2>4, <2>5 DEF x, t, u
<1> QED BY <1>3, <1>4, <1>5 DEF Transmit

\* What is sent is what the direction allows in this state.
LEMMA DeliveryTransmit ==
  ASSUME TypeOK, Delivery, NEW s \in Stations, Transmit(s)
  PROVE  Delivery'
<1> DEFINE p == Peer(s)
           t == tx[s]
           u == tx'[s]
<1>1. p \in Stations /\ Peer(p) = s
  BY HalfTypes
<1>2. /\ SameTx(t, u) /\ tx'[p] = tx[p]
      /\ UNCHANGED <<rx, reqdone, got, marked, removed>>
  BY TransmitKeeps
<1>3. PICK x \in Packet :
        /\ Send(s, x) /\ x.type \in Forth
        /\ \/ Sends(t) /\ x.type = "BLK" /\ x.file = t.file
           \/ Names(t) /\ x = Fname(t.file)
           \/ Denies(t) /\ x = Pkt("FREQNAK")
  BY TransmitKeeps
<1>4. Struck' = Struck /\ Here(p)' = Here(p) /\ Here(s)' = Here(s)
  BY <1>2 DEF Struck, Here, Arrived
<1>5. Dir(s, t, rx[p], chan[p], chan[s], reqdone[p], Struck, Here(p))
  BY DEF Delivery, Direction
<1>6. /\ chan'[s] = chan[s] /\ Fewer(chan[p], chan'[p], Back)
      /\ Adds(chan[p], chan'[p], x, Forth)
  <2>1. x.type \notin Back BY <1>3 DEF Forth, Back
  <2> QED BY <1>3, <2>1, SendLines
<1>7. Direction(p)'
  <2>1. Fewer(chan[Peer(p)], chan'[Peer(p)], Forth)
    BY <1>1, <1>6, FewerSame
  <2> QED BY <1>1, <1>2, <1>4, <1>6, <2>1, SameHalves, Unmoved
<1>8. Direction(s)'
  <2> HIDE DEF p, t, u
  <2>1. Dir(s, u, rx[p], chan'[p], chan[s], reqdone[p], Struck, Here(p))
    BY <1>2, <1>3, <1>5, <1>6, SendBlockDir, SendNameDir, SendDenialDir
  <2> QED BY <1>2, <1>4, <1>6, <2>1 DEF Direction, p, t, u
<1> QED BY <1>7, <1>8, BothDirections

\* The timers.
LEMMA TimersKeep ==
  ASSUME TypeOK, NEW s \in Stations, XmitTimeout(s) \/ RposTimeout(s)
  PROVE  /\ \A u \in Stations : SameTx(tx[u], tx'[u]) /\ SameRx(rx[u], rx'[u])
         /\ UNCHANGED <<chan, reqdone, got, marked, removed>>
<1>1. CASE XmitTimeout(s)
  <2> DEFINE t  == tx[s]
             st == CASE t.state = "XRCVFNACK"    -> "XSENDFNAME"
                     [] t.state = "XRCVFRNAKACK" -> "XSENDFREQNAK"
                     [] t.state = "XRCVEOFACK"   -> "XSENDBLK"
                     [] OTHER                    -> t.state
             ps == IF t.state = "XRCVEOFACK" THEN t.last ELSE t.pos
             x  == [t EXCEPT !.retry = FALSE, !.idle = t.idle + 1, !.state = st, !.pos = ps]
  <2>1. tx' = [tx EXCEPT ![s] = x] /\ UNCHANGED <<chan, rx, reqdone, got, marked, removed>>
    BY <1>1 DEF XmitTimeout, link, disk
  <2>2. SameTx(t, x)
    <3>1. t \in TxRecord BY HalfTypes
    <3> HIDE DEF ps, t
    <3>2. /\ x.state = st /\ x.file = t.file /\ x.idx = t.idx /\ x.doafter = t.doafter
          /\ x.sendreq = t.sendreq /\ x.reqtmp = t.reqtmp
      <4> HIDE DEF st
      <4> QED BY <3>1 DEF TxRecord
    <3> HIDE DEF x
    <3>3. t.state \in {"XDONE", "XSENDFNAME", "XRCVFNACK", "XSENDBLK", "XRCVEOFACK",
                      "XSENDFREQNAK", "XRCVFRNAKACK"}
      BY <3>1 DEF TxRecord
    <3> QED BY <3>2, <3>3 DEF SameTx, Names, Sends, Denies
  <2> HIDE DEF x
  <2>3. \A v \in Stations : SameTx(tx[v], tx'[v])
    BY <2>1, <2>2, SameHalves DEF TypeOK
  <2> QED BY <2>1, <2>3, SameHalves
<1>2. CASE RposTimeout(s)
  <2> DEFINE y == [rx[s] EXCEPT !.waiting = FALSE, !.samesec = FALSE]
  <2>1. rx' = [rx EXCEPT ![s] = y] /\ UNCHANGED <<chan, tx, reqdone, got, marked, removed>>
    BY <1>2 DEF RposTimeout, link, disk
  <2>2. SameRx(rx[s], y)
    BY HalfTypes DEF RxRecord, SameRx
  <2> HIDE DEF y
  <2>3. \A v \in Stations : SameRx(rx[v], rx'[v])
    BY <2>1, <2>2, SameHalves DEF TypeOK
  <2> QED BY <2>1, <2>3, SameHalves
<1> QED BY <1>1, <1>2

\* A timer that runs out changes neither a file nor a line.
LEMMA DeliveryTimers ==
  ASSUME TypeOK, Delivery, NEW s \in Stations, XmitTimeout(s) \/ RposTimeout(s)
  PROVE  Delivery'
BY TimersKeep, FewerSame, Neutral

\* No line has gained anything, or has it in another order.
LosesOnly == \A u \in Stations, T \in {Forth, Back} : Fewer(chan[u], chan'[u], T)

\* Giving up.
LEMMA GiveUpLoses ==
  ASSUME TypeOK, NEW s \in Stations, NEW q \in [Stations -> Seq(Packet)], GiveUp(s, q),
         \A u \in Stations, T \in {Forth, Back} : Fewer(chan[u], q[u], T)
  PROVE  LosesOnly
<1>1. LeaveOrStay(s, q, TRUE)
  BY DEF GiveUp
<1>2. chan'[s] = q[s] /\ \A T \in {Forth, Back} : Fewer(q[Peer(s)], chan'[Peer(s)], T)
  BY <1>1, LeaveLines
<1>3. \A T \in {Forth, Back} : Fewer(chan[s], chan'[s], T)
  BY <1>2
<1>4. \A T \in {Forth, Back} : Fewer(chan[Peer(s)], chan'[Peer(s)], T)
  BY <1>2, HalfTypes, FewerFewer
<1> QED BY <1>3, <1>4, HalfTypes DEF LosesOnly

\* The four ways to do so.
LEMMA GivesUp ==
  ASSUME TypeOK, NEW s \in Stations, BrainDead(s) \/ Escape(s) \/ NoCarrier(s) \/ RecvHalt(s)
  PROVE  /\ LosesOnly /\ UNCHANGED <<tx, rx, reqdone, got, marked, removed>>
         /\ \E q : GiveUp(s, q)
<1>1. chan \in [Stations -> Seq(Packet)]
  BY DEF TypeOK, Lines
<1>2. CASE GiveUp(s, chan)
  <2>1. LosesOnly BY <1>1, <1>2, FewerSame, GiveUpLoses
  <2>2. UNCHANGED <<tx, rx, reqdone, got, marked, removed>> BY <1>2 DEF GiveUp
  <2> QED BY <1>2, <2>1, <2>2
<1>3. CASE RecvHalt(s)
  <2> DEFINE q == [chan EXCEPT ![s] = Tail(@)]
  <2>1. chan[s] # <<>> /\ GiveUp(s, q)
    BY <1>3 DEF RecvHalt, Receives
  <2>2. q \in [Stations -> Seq(Packet)] /\ q[s] = Tail(chan[s]) /\ q[Peer(s)] = chan[Peer(s)]
    BY <2>1, ReadLine
  <2> HIDE DEF q
  <2>3. \A u \in Stations, T \in {Forth, Back} : Fewer(chan[u], q[u], T)
    <3>1. chan[s] \in Seq(Packet) BY HalfTypes
    <3>2. \A T : Fewer(chan[s], q[s], T) BY <2>1, <2>2, <3>1, LineRead
    <3>3. \A T : Fewer(chan[Peer(s)], q[Peer(s)], T) BY <2>2, FewerSame
    <3> QED BY <3>2, <3>3, HalfTypes
  <2>4. LosesOnly BY <2>1, <2>2, <2>3, GiveUpLoses
  <2>5. UNCHANGED <<tx, rx, reqdone, got, marked, removed>> BY <2>1 DEF GiveUp
  <2> QED BY <2>1, <2>4, <2>5
<1> QED BY <1>2, <1>3 DEF BrainDead, Escape, NoCarrier

\* Nor does giving up, which ends both halves as they are.
LEMMA DeliveryGiveUp ==
  ASSUME TypeOK, Delivery, NEW s \in Stations,
         BrainDead(s) \/ Escape(s) \/ NoCarrier(s) \/ RecvHalt(s)
  PROVE  Delivery'
BY GivesUp, SameHalves, Neutral DEF LosesOnly

\* endbatch() and the line.
LEMMA EndLoses ==
  ASSUME TypeOK, NEW s \in Stations,
         EndBatch(s) \/ EndEscape(s) \/ HangUp(s) \/ Noise(s)
  PROVE  LosesOnly
<1> DEFINE acks == [i \in 1 .. HaltAcks |-> Pkt("HALTACK")]
<1>2. \A t \in PktTypes : Pkt(t) \in Packet /\ Pkt(t).type = t
  BY DEF Pkt, Packet
<1>3. Peer(s) \in Stations /\ Peer(s) # s /\ \A u \in Stations : u = s \/ u = Peer(s)
  BY HalfTypes
<1>4. chan[s] \in Seq(Packet) /\ chan[Peer(s)] \in Seq(Packet) /\ chan \in [Stations -> Seq(Packet)]
  BY HalfTypes DEF TypeOK, Lines
<1>5. ASSUME NEW q \in [Stations -> Seq(Packet)], Finish(s, q), q[Peer(s)] = chan[Peer(s)],
             \A T \in {Forth, Back} : Fewer(chan[s], q[s], T)
      PROVE  LosesOnly
  <2>1. acks \in Seq(Packet) /\ \A i \in DOMAIN acks : acks[i].type = "HALTACK"
    <3>1. acks \in [1 .. HaltAcks -> Packet] BY <1>2 DEF PktTypes
    <3>2. acks \in Seq(Packet) BY <3>1, BoundsAssumption DEF Seq
    <3> QED BY <1>2, <3>2 DEF PktTypes
  <2>2. chan'[s] = q[s] /\ chan'[Peer(s)] = chan[Peer(s)] \o acks
    BY <1>3, <1>5 DEF Finish
  <2> HIDE DEF acks
  <2>3. \A T \in {Forth, Back} : Fewer(chan[Peer(s)], chan'[Peer(s)], T)
    BY <1>4, <2>1, <2>2, LineTrailed DEF Forth, Back
  <2> QED BY <1>3, <1>5, <2>2, <2>3 DEF LosesOnly
<1>7. CASE EndRecv(s)
  <2>1. chan[s] # <<>>
    BY <1>7 DEF EndRecv
  <2> DEFINE q == [chan EXCEPT ![s] = Tail(@)]
  <2>2. CASE Finish(s, q)
    <3>1. q \in [Stations -> Seq(Packet)] /\ q[s] = Tail(chan[s]) /\ q[Peer(s)] = chan[Peer(s)]
      BY <2>1, ReadLine
    <3>2. \A T \in {Forth, Back} : Fewer(chan[s], q[s], T)
      BY <1>4, <2>1, <3>1, LineRead
    <3> HIDE DEF q
    <3> QED BY <1>5, <2>2, <3>1, <3>2
  <2>3. CASE Consume(s)
    <3>1. LosesOnly BY <1>3, <2>1, <2>3, ConsumeLines, FewerSame DEF LosesOnly
    <3> QED BY <3>1
  <2>4. CASE Reply(s, Pkt("HALT"))
    <3>1. Pkt("HALT") \in Packet /\ Pkt("HALT").type \notin Forth /\ Pkt("HALT").type \notin Back
      BY <1>2 DEF PktTypes, Forth, Back
    <3>2. LosesOnly BY <1>3, <2>1, <2>4, <3>1, ReplyLines DEF LosesOnly
    <3> QED BY <3>2
  <2> QED BY <1>7, <2>2, <2>3, <2>4 DEF EndRecv
<1>8. CASE EndTimeout(s) \/ EndNoCarrier(s) \/ EndEscape(s)
  <2>1. CASE Finish(s, chan)
    BY <1>4, <1>5, <2>1, FewerSame
  <2>2. CASE Send(s, Pkt("HALT"))
    <3>1. Pkt("HALT") \in Packet /\ Pkt("HALT").type \notin Forth /\ Pkt("HALT").type \notin Back
      BY <1>2 DEF PktTypes, Forth, Back
    <3>2. LosesOnly BY <1>3, <2>2, <3>1, SendLines, FewerSame DEF LosesOnly
    <3> QED BY <3>2
  <2> QED BY <1>8, <2>1, <2>2 DEF EndTimeout, EndNoCarrier, EndEscape
<1>9. CASE HangUp(s)
  BY <1>9, FewerSame DEF HangUp, LosesOnly
<1>10. CASE Noise(s)
  <2>1. chan[s] # <<>> BY <1>10 DEF Noise
  <2>2. CASE Consume(s)
    <3>1. LosesOnly BY <1>3, <2>1, <2>2, ConsumeLines, FewerSame DEF LosesOnly
    <3> QED BY <3>1
  <2>3. CASE chan' = [chan EXCEPT ![s] = <<Pkt("BAD")>> \o Tail(@)]
    <3>1. chan'[s] = <<Pkt("BAD")>> \o Tail(chan[s]) /\ chan'[Peer(s)] = chan[Peer(s)]
      BY <1>3, <1>4, <2>3
    <3>2. Pkt("BAD") \in Packet /\ Pkt("BAD").type \notin Forth /\ Pkt("BAD").type \notin Back
      BY <1>2 DEF PktTypes, Forth, Back
    <3>3. \A T \in {Forth, Back} : Fewer(chan[s], chan'[s], T)
      BY <1>4, <2>1, <3>1, <3>2, LineGarbled
    <3>4. LosesOnly BY <1>3, <3>1, <3>3, FewerSame DEF LosesOnly
    <3> QED BY <3>4
  <2> QED BY <1>10, <2>2, <2>3 DEF Noise
<1> QED BY <1>7, <1>8, <1>9, <1>10 DEF EndBatch

\* Nor do the end of the batch, hanging up and noise.
LEMMA DeliveryEnd ==
  ASSUME TypeOK, Delivery, NEW s \in Stations,
         EndBatch(s) \/ EndEscape(s) \/ HangUp(s) \/ Noise(s)
  PROVE  Delivery'
<1>1. UNCHANGED <<tx, rx, reqdone, got, marked, removed>>
  BY DEF EndBatch, EndRecv, EndTimeout, EndNoCarrier, EndEscape, HangUp, Noise, disk
<1> QED BY <1>1, EndLoses, SameHalves, Neutral DEF LosesOnly

\* The carrier is lost.
LEMMA DropLoses ==
  ASSUME TypeOK, LineDrop
  PROVE  LosesOnly
<1>2. PICK cut \in [Stations -> 0 .. 1] :
        chan' = [u \in Stations |->
                  IF cut[u] = 0 THEN chan[u] ELSE SubSeq(chan[u], 1, Len(chan[u]) \div 2)]
  BY DEF LineDrop
<1>3. ASSUME NEW u \in Stations, NEW T \in {Forth, Back}
      PROVE  Fewer(chan[u], chan'[u], T)
  <2>1. chan[u] \in Seq(Packet) BY HalfTypes
  <2>2. Len(chan[u]) \div 2 \in 0 .. Len(chan[u])
    <3>1. Len(chan[u]) \in Nat BY <2>1, LenProperties
    <3>2. \A n \in Nat : n \div 2 \in 0 .. n OBVIOUS
    <3> QED BY <3>1, <3>2
  <2>3. chan'[u] = chan[u] \/ chan'[u] = SubSeq(chan[u], 1, Len(chan[u]) \div 2)
    BY <1>2
  <2> QED BY <2>1, <2>2, <2>3, FewerSame, LineCut
<1> QED BY <1>3 DEF LosesOnly

\* Carrier is lost: the lines are cut short.
LEMMA DeliveryDrop ==
  ASSUME TypeOK, Delivery, LineDrop
  PROVE  Delivery'
<1>1. UNCHANGED <<tx, rx, reqdone, got, marked, removed>>
  BY DEF LineDrop, disk
<1> QED BY <1>1, DropLoses, SameHalves, Neutral DEF LosesOnly

-----------------------------------------------------------------------------
(* What is received *)

\* d is the beginning of file f.
Begins(d, f) == Len(d) <= Size[f] /\ \A i \in DOMAIN d : d[i] = <<f, i>>

\* What is being received is the beginning of its file, at least as long as
\* what was kept of it.
Receiving(s, r) == r.state = "RRCVBLK" => /\ Begins(r.data, r.file)
                                          /\ Len(partial[s][r.file]) <= Len(r.data)

\* No block goes past the end of its file.
Fits(x)     == x.type = "BLK" => x.arg = 0 \/ x.pos + x.arg <= Size[x.file]
BlocksFit   == \A s \in Stations : \A x \in In(chan[s], Forth) : Fits(x)
PartsIntact == /\ \A s \in Stations : Receiving(s, rx[s])
               /\ \A s \in Stations, f \in Files : Begins(partial[s][f], f)
               /\ ReceivedIntact
Intact      == BlocksFit /\ PartsIntact

\* A block that reaches the receiver of a file belongs to that file.
LEMMA BlockOurs ==
  ASSUME NEW s, NEW t, NEW r, NEW c, NEW b, NEW d, NEW S, NEW A, Dir(s, t, r, c, b, d, S, A),
         Shapes(t, r), r.state = "RRCVBLK", NEW x \in In(c, Forth), x.type = "BLK"
  PROVE  x.file = r.file
BY DEF Dir, Shapes, NamingInv, SendingInv, DenyingInv, DoneInv

\* The next block makes a longer beginning, or the whole file.
LEMMA BeginsLonger ==
  ASSUME NEW f \in Files, NEW d \in UnitSeqs, Begins(d, f), NEW n \in Nat,
         n = 0 \/ Len(d) + n <= Size[f]
  PROVE  LET e == d \o Units(f, Len(d), n)
         IN  /\ e \in UnitSeqs /\ Len(e) = Len(d) + n /\ Begins(e, f)
             /\ Len(d) + n >= Size[f] => e = Content(f)
<1> DEFINE e == d \o Units(f, Len(d), n)
           m == Len(d)
<1>1. m \in Nat /\ Size[f] \in Nat
  BY LenProperties, FilesAssumption DEF UnitSeqs
<1>2. /\ e \in UnitSeqs /\ Len(e) = m + n
      /\ \A i \in 1 .. m : e[i] = d[i]
      /\ \A i \in 1 .. n : e[m + i] = <<f, m + i>>
  BY <1>1, MoreUnits
<1>3. DOMAIN e = 1 .. m + n /\ DOMAIN d = 1 .. m /\ e = [i \in 1 .. m + n |-> e[i]]
  BY <1>2, LenProperties DEF UnitSeqs
<1>4. m <= Size[f] /\ m + n <= Size[f]
  BY <1>1 DEF Begins
<1> HIDE DEF e, m
<1>5. ASSUME NEW i \in 1 .. m + n PROVE e[i] = <<f, i>>
  <2>1. CASE i \in 1 .. m
    BY <1>2, <1>3, <2>1 DEF Begins
  <2>2. CASE i \notin 1 .. m
    <3>1. i - m \in 1 .. n /\ i = m + (i - m) BY <1>1, <2>2
    <3>2. e[i] = <<f, i>> BY <1>2, <3>1
    <3> QED BY <3>2
  <2> QED BY <2>1, <2>2
<1>6. Begins(e, f) BY <1>2, <1>3, <1>4, <1>5 DEF Begins
<1>7. ASSUME m + n >= Size[f] PROVE e = Content(f)
  <2>1. m + n = Size[f] BY <1>1, <1>4, <1>7
  <2> QED BY <1>3, <1>5, <2>1 DEF Content
<1> QED BY <1>2, <1>6, <1>7 DEF e, m

\* A block at Rxpos, and what becomes of the file.
LEMMA BlockStep ==
  ASSUME TypeOK, ReceivedPlaced, Intact, Delivery, NEW s \in Stations, RecvBlock(s)
  PROVE  LET b == Head(chan[s])
             r == rx[s]
             e == r.data \o Units(r.file, Len(r.data), b.arg)
             full == Completes(r, b.arg)
         IN  /\ chan[s] # <<>> /\ b.type = "BLK" /\ r.state = "RRCVBLK" /\ r.file \in Files
             /\ b.arg \in Nat
             /\ e \in UnitSeqs /\ Begins(e, r.file) /\ Len(e) = Len(r.data) + b.arg
             /\ Len(partial[s][r.file]) <= Len(e)
             /\ full => e = Content(r.file)
             /\ rx'[s].state = (IF full THEN "RRCVFNAME" ELSE "RRCVBLK")
             /\ rx'[s].file = r.file /\ rx'[s].data = e
             /\ rx'[s].started = r.started /\ rx'[s].attempting = r.attempting
             /\ \A u \in Stations : u # s => rx'[u] = rx[u]
             /\ full => /\ got' = [got EXCEPT ![s] = Append(@, [name |-> r.file, data |-> e])]
                        /\ partial' = [partial EXCEPT ![s][r.file] = <<>>]
                        /\ Reply(s, Pkt("EOFACK"))
             /\ ~full => Consume(s) /\ UNCHANGED <<got, partial>>
             /\ tx' = [tx EXCEPT ![s] = Heard(@)]
             /\ UNCHANGED <<marked, removed, reqdone>>
<1> DEFINE b    == Head(chan[s])
           r    == rx[s]
           e    == r.data \o Units(r.file, Len(r.data), b.arg)
           data == r.data \o Units(b.file, b.pos, b.arg)
           full == Completes(r, b.arg)
           st   == IF full THEN "RRCVFNAME" ELSE "RRCVBLK"
           ps   == r.pos + b.arg
<1>1. chan[s] # <<>> /\ b.type = "BLK" /\ r.state = "RRCVBLK" /\ b.pos = r.pos
  BY DEF RecvBlock, Receives, AtRxpos
<1>2. b.file \in Files /\ b.pos \in Nat /\ b.arg \in Nat
  BY <1>1, HeadType DEF PacketTo
<1>3. r \in RxRecord /\ r.file \in Files /\ r.data \in UnitSeqs /\ Len(r.data) \in Nat
  <2>1. r \in RxType BY DEF TypeOK
  <2>2. r \in RxRecord BY <2>1 DEF RxType
  <2> QED BY <1>1, <2>1, <2>2, LenProperties DEF RxType, RxRecord, UnitSeqs
<1>4. r.pos = Len(r.data)
  BY <1>1 DEF ReceivedPlaced, Placed
<1>5. b \in In(chan[s], Forth)
  <2>1. chan[s] \in Seq(Packet) BY HalfTypes
  <2> HIDE DEF b
  <2>2. b.type \in Forth BY <1>1 DEF Forth
  <2> QED BY <1>1, <2>1, <2>2, LineRead DEF First, b
<1>6. b.file = r.file
  <2> DEFINE p == Peer(s)
  <2>1. p \in Stations /\ Peer(p) = s BY HalfTypes
  <2>2. Dir(p, tx[p], r, chan[s], chan[p], reqdone[s], Struck, Here(s)) /\ Shapes(tx[p], r)
    BY <2>1, HalfTypes DEF Delivery, Direction
  <2> HIDE DEF r, b, p
  <2> QED BY <1>1, <1>5, <2>2, BlockOurs
<1>7. data = e
  BY <1>1, <1>4, <1>6
<1>8. b.arg = 0 \/ Len(r.data) + b.arg <= Size[r.file]
  BY <1>1, <1>4, <1>5, <1>6 DEF Intact, BlocksFit, Fits
<1>9. Begins(r.data, r.file) /\ Len(partial[s][r.file]) <= Len(r.data)
  BY <1>1 DEF Intact, PartsIntact, Receiving
<1>10. /\ e \in UnitSeqs /\ Begins(e, r.file) /\ Len(e) = Len(r.data) + b.arg
       /\ Len(r.data) + b.arg >= Size[r.file] => e = Content(r.file)
  <2> DEFINE d == r.data   f == r.file   n == b.arg
  <2>1. /\ d \in UnitSeqs /\ f \in Files /\ n \in Nat /\ Begins(d, f)
        /\ n = 0 \/ Len(d) + n <= Size[f]
    BY <1>2, <1>3, <1>8, <1>9
  <2>2. e = d \o Units(f, Len(d), n) OBVIOUS
  <2> HIDE DEF d, f, n, e
  <2>3. /\ e \in UnitSeqs /\ Len(e) = Len(d) + n /\ Begins(e, f)
        /\ Len(d) + n >= Size[f] => e = Content(f)
    BY <2>1, <2>2, BeginsLonger
  <2> QED BY <2>3 DEF d, f, n
<1>11. Len(partial[s][r.file]) \in Nat
  <2>1. partial[s][r.file] \in UnitSeqs BY <1>3 DEF TypeOK
  <2> QED BY <2>1, LenProperties DEF UnitSeqs
<1>12. full => e = Content(r.file)
  BY <1>4, <1>10 DEF Completes
<1>13. Len(partial[s][r.file]) <= Len(e)
  <2> DEFINE k == Len(partial[s][r.file])   m == Len(r.data)   n == b.arg
  <2>1. k \in Nat /\ m \in Nat /\ n \in Nat /\ k <= m /\ Len(e) = m + n
    BY <1>2, <1>3, <1>9, <1>10, <1>11
  <2> HIDE DEF k, m, n, e
  <2>2. k <= Len(e) BY <2>1
  <2> QED BY <2>2 DEF k
<1>14. PICK m, l :
        rx' = [rx EXCEPT ![s] = [r EXCEPT !.pos = ps, !.data = data, !.room = m, !.lastblk = l,
                                          !.waiting = FALSE, !.cnt = 0, !.state = st]]
  BY DEF RecvBlock
<1>15. /\ full => /\ got' = [got EXCEPT ![s] = Append(@, [name |-> r.file, data |-> data])]
                  /\ partial' = [partial EXCEPT ![s][r.file] = <<>>]
                  /\ Reply(s, Pkt("EOFACK"))
       /\ ~full => Consume(s) /\ UNCHANGED <<got, partial>>
       /\ tx' = [tx EXCEPT ![s] = Heard(@)]
       /\ UNCHANGED <<marked, removed, reqdone>>
  BY DEF RecvBlock
<1>16. /\ rx'[s].state = st /\ rx'[s].file = r.file /\ rx'[s].data = e
       /\ rx'[s].started = r.started /\ rx'[s].attempting = r.attempting
       /\ \A u \in Stations : u # s => rx'[u] = rx[u]
  <2> DEFINE y == [r EXCEPT !.pos = ps, !.data = data, !.room = m, !.lastblk = l,
                            !.waiting = FALSE, !.cnt = 0, !.state = st]
  <2>1. rx' = [rx EXCEPT ![s] = y] BY <1>14
  <2>2. rx \in [Stations -> RxType] BY DEF TypeOK
  <2> HIDE DEF r, ps, data, st, e
  <2>3. /\ y.state = st /\ y.file = r.file /\ y.data = data
        /\ y.started = r.started /\ y.attempting = r.attempting
    BY <1>3 DEF RxRecord
  <2> HIDE DEF y
  <2> QED BY <1>7, <2>1, <2>2, <2>3
<1> HIDE DEF b, r, e, data, full
<1>17. full => got' = [got EXCEPT ![s] = Append(@, [name |-> r.file, data |-> e])]
  BY <1>7, <1>15
<1>18. /\ chan[s] # <<>> /\ b.type = "BLK" /\ r.state = "RRCVBLK" /\ r.file \in Files
       /\ b.arg \in Nat
       /\ e \in UnitSeqs /\ Begins(e, r.file) /\ Len(e) = Len(r.data) + b.arg
       /\ Len(partial[s][r.file]) <= Len(e)
       /\ full => e = Content(r.file)
  BY <1>1, <1>2, <1>3, <1>10, <1>12, <1>13
<1>19. /\ rx'[s].state = (IF full THEN "RRCVFNAME" ELSE "RRCVBLK")
       /\ rx'[s].file = r.file /\ rx'[s].data = e
       /\ rx'[s].started = r.started /\ rx'[s].attempting = r.attempting
       /\ \A u \in Stations : u # s => rx'[u] = rx[u]
  BY <1>16
<1>20. /\ full => /\ got' = [got EXCEPT ![s] = Append(@, [name |-> r.file, data |-> e])]
                  /\ partial' = [partial EXCEPT ![s][r.file] = <<>>]
                  /\ Reply(s, Pkt("EOFACK"))
       /\ ~full => Consume(s) /\ UNCHANGED <<got, partial>>
       /\ tx' = [tx EXCEPT ![s] = Heard(@)]
       /\ UNCHANGED <<marked, removed, reqdone>>
  BY <1>15, <1>17
<1> QED BY ONLY <1>18, <1>19, <1>20 DEF b, r, e, full

\* A name is read: what the receiver makes of it.
LEMMA FnameStep ==
  ASSUME TypeOK, Intact, NEW s \in Stations, RecvFname(s)
  PROVE  LET f == Head(chan[s]).file
             r == rx[s]
             h == Heeds(r, f)
             e == IF h = None THEN Made(s, r, reqdone[s]) ELSE reqdone[s]
             w == rx'[s]
         IN  /\ chan[s] # <<>> /\ Head(chan[s]).type = "FNAME"
             /\ f \in Files \cup {None} /\ h \in Files \cup {None}
             /\ reqdone'[s] = e /\ w.file = h
             /\ \A u \in Stations : u # s => reqdone'[u] = reqdone[u] /\ rx'[u] = rx[u]
             /\ Receiving(s, w)
             /\ UNCHANGED <<got, partial, marked, removed>>
             /\ \/ /\ h = None /\ More(s, e) /\ Reply(s, Freq(e + 1))
                   /\ w.state = r.state /\ w.attempting /\ ~w.started
                   /\ \A u \in Stations : SameTx(tx[u], tx'[u])
                \/ /\ h = None => ~More(s, e)
                   /\ ~w.attempting /\ (w.started <=> r.started \/ r.attempting)
                   /\ \A u \in Stations : SameTx(tx[u], tx'[u])
                   /\ \E pos \in Int, leaving \in BOOLEAN :
                        /\ LeaveOrStay(s, [chan EXCEPT ![s] = Tail(@),
                                             ![Peer(s)] = Append(@, Fnack(f, pos))], leaving)
                        /\ pos # -1 => w.state = (IF h = None THEN "RDONE" ELSE "RRCVBLK")
<1> DEFINE f     == Head(chan[s]).file
           r0    == rx[s]
           h     == Heeds(r0, f)
           e     == IF h = None THEN Made(s, r0, reqdone[s]) ELSE reqdone[s]
           r     == IF r0.state = "RRCVFNAME" THEN ProcFname(s, f) ELSE r0
           null  == r.file = None
           state == IF r.pos = -1 THEN r.state ELSE IF null THEN "RDONE" ELSE "RRCVBLK"
           w     == rx'[s]
<1>1. chan[s] # <<>> /\ Head(chan[s]).type = "FNAME"
  BY DEF RecvFname, Receives
<1>2. f \in Files \cup {None}
  BY <1>1, HeadType DEF PacketTo, Packet
<1>3. r0 \in RxType /\ r0 \in RxRecord
  BY HalfTypes
<1>4. /\ r.file = h /\ h \in Files \cup {None} /\ r \in RxRecord /\ r.pos \in Int
      /\ r.state = r0.state /\ r.started = r0.started /\ r.attempting = r0.attempting
  <2>1. CASE r0.state = "RRCVFNAME" /\ f = None
    <3>1. r = [r0 EXCEPT !.file = None, !.pos = 0, !.data = <<>>] /\ h = f
      BY <2>1 DEF ProcFname, Heeds
    <3>2. r \in RxRecord /\ r.state = r0.state
      <4> HIDE DEF f
      <4> QED BY <1>2, <1>3, <2>1, ProcFnameType DEF RxType
    <3> HIDE DEF r, r0, f, h
    <3> QED BY <1>3, <2>1, <3>1, <3>2 DEF RxRecord
  <2>2. CASE r0.state = "RRCVFNAME" /\ f # None
    <3> DEFINE d  == partial[s][f]
               st == Start(s, f)
    <3>1. r = [r0 EXCEPT !.file = f, !.pos = st, !.data = d] /\ h = f
      BY <2>2 DEF ProcFname, Heeds
    <3>2. r \in RxRecord /\ r.state = r0.state
      <4> HIDE DEF f
      <4> QED BY <1>2, <1>3, <2>2, ProcFnameType DEF RxType
    <3> HIDE DEF r, r0, f, h, d, st
    <3> QED BY <1>2, <1>3, <3>1, <3>2 DEF RxRecord
  <2>3. CASE r0.state # "RRCVFNAME"
    BY <1>3, <2>3 DEF Heeds, RxRecord
  <2> QED BY <2>1, <2>2, <2>3
<1>5. r.pos # -1 /\ h # None => Receiving(s, [r EXCEPT !.state = "RRCVBLK"])
  <2> SUFFICES ASSUME r.pos # -1, h # None
               PROVE  /\ Begins(r.data, r.file)
                      /\ Len(partial[s][r.file]) <= Len(r.data)
    <3> HIDE DEF r
    <3> QED BY <1>4 DEF Receiving, RxRecord
  <2>1. CASE r0.state = "RRCVBLK"
    BY <2>1 DEF Intact, PartsIntact, Receiving
  <2>2. CASE r0.state = "RDONE"
    BY <1>3, <2>2 DEF RxType, Heeds
  <2>3. CASE r0.state = "RRCVFNAME"
    <3> DEFINE d  == partial[s][f]
               st == Start(s, f)
    <3>1. f # None /\ f \in Files BY <1>2, <2>3 DEF Heeds
    <3>2. r = [r0 EXCEPT !.file = f, !.pos = st, !.data = d]
      BY <2>3, <3>1 DEF ProcFname
    <3>3. d \in UnitSeqs /\ Begins(d, f)
      BY <3>1 DEF TypeOK, Intact, PartsIntact
    <3>4. Len(d) \in Nat BY <3>3, LenProperties DEF UnitSeqs
    <3>5. Len(d) <= Len(d) BY <3>4
    <3> HIDE DEF r, r0, st
    <3>6. r.file = f /\ r.data = d
      BY <1>3, <3>2 DEF RxRecord
    <3> QED BY <3>3, <3>5, <3>6
  <2> QED BY <1>3, <2>1, <2>2, <2>3 DEF RxRecord
<1>6. r.pos = -1 => r0.state # "RRCVBLK"
  BY <1>3 DEF RxType, RxRecord
<1>7. e = IF null /\ Served(s, r) THEN reqdone[s] + 1 ELSE reqdone[s]
  <2> HIDE DEF r, r0, h
  <2> QED BY <1>4 DEF Served, Made, More
<1> DEFINE asks == null /\ e < Len(Requests[s])
<1>8. /\ reqdone' = [reqdone EXCEPT ![s] = e]
      /\ UNCHANGED <<got, partial, marked, removed>>
      /\ IF asks
         THEN /\ rx' = [rx EXCEPT ![s] = [r EXCEPT !.attempting = TRUE, !.started = FALSE]]
              /\ tx' = [tx EXCEPT ![s] = Heard(@)]
              /\ Reply(s, Freq(e + 1))
         ELSE /\ rx' = [rx EXCEPT ![s] =
                      [r EXCEPT !.state = state, !.attempting = FALSE,
                                !.started = r.started \/ r.attempting]]
              /\ tx' = [tx EXCEPT ![s] =
                      [Heard(tx[s]) EXCEPT !.inhibit = tx[s].inhibit /\ state # "RDONE"]]
              /\ LeaveOrStay(s,
                      [chan EXCEPT ![s] = Tail(@), ![Peer(s)] = Append(@, Fnack(f, r.pos))],
                      BatchOver(tx[s].state, state))
  <2> HIDE DEF e
  <2> QED BY <1>7 DEF RecvFname
<1>9. reqdone'[s] = e /\ \A u \in Stations : u # s => reqdone'[u] = reqdone[u]
  <2> HIDE DEF e
  <2> QED BY <1>8 DEF TypeOK
<1>10. rx \in [Stations -> RxType] /\ tx \in [Stations -> TxType]
  BY DEF TypeOK
<1>11. CASE asks
  <2> DEFINE y == [r EXCEPT !.attempting = TRUE, !.started = FALSE]
  <2> HIDE DEF r, e, h, f, state
  <2>1. y.file = r.file /\ y.state = r.state /\ y.started = FALSE /\ y.attempting = TRUE
    BY <1>4 DEF RxRecord
  <2> HIDE DEF y
  <2>2. w = y /\ \A u \in Stations : u # s => rx'[u] = rx[u]
    BY <1>8, <1>10, <1>11 DEF y
  <2>3. \A u \in Stations : SameTx(tx[u], tx'[u])
    BY <1>8, <1>10, <1>11, SameHalves
  <2>4. w.state # "RRCVBLK"
    <3>1. r0.state = "RRCVBLK" => h = r0.file /\ r0.file # None
      BY <1>3, FilesAssumption DEF RxType, h, Heeds
    <3> QED BY <1>4, <1>11, <2>1, <2>2, <3>1
  <2>5. Receiving(s, w) BY <2>4 DEF Receiving
  <2>6. h = None /\ More(s, e) /\ Reply(s, Freq(e + 1))
    BY <1>4, <1>8, <1>11 DEF More
  <2>7. w.file = h /\ w.state = r0.state /\ w.attempting /\ ~w.started
    BY <1>4, <2>1, <2>2
  <2> HIDE DEF w, r0
  <2> QED BY <1>1, <1>2, <1>4, <1>8, <1>9, <2>2, <2>3, <2>5, <2>6, <2>7 DEF w, r0, e, h, f
<1>12. CASE ~asks
  <2> DEFINE go == r.started \/ r.attempting
             y  == [r EXCEPT !.state = state, !.attempting = FALSE, !.started = go]
             x  == [Heard(tx[s]) EXCEPT !.inhibit = tx[s].inhibit /\ state # "RDONE"]
             leaving == BatchOver(tx[s].state, state)
  <2>1. leaving \in BOOLEAN BY DEF BatchOver
  <2>2. /\ rx' = [rx EXCEPT ![s] = y] /\ tx' = [tx EXCEPT ![s] = x]
        /\ LeaveOrStay(s, [chan EXCEPT ![s] = Tail(@),
                             ![Peer(s)] = Append(@, Fnack(f, r.pos))], leaving)
    <3> HIDE DEF r, f, state, asks
    <3> QED BY <1>8, <1>12
  <2>3. SameTx(tx[s], x)
    <3>1. tx[s] \in TxRecord BY HalfTypes
    <3> DEFINE i == tx[s].inhibit /\ state # "RDONE"
    <3>2. x = [tx[s] EXCEPT !.idle = 0, !.inhibit = i] BY DEF Heard
    <3> HIDE DEF i, x
    <3>3. /\ x.state = tx[s].state /\ x.file = tx[s].file /\ x.idx = tx[s].idx
          /\ x.doafter = tx[s].doafter /\ x.sendreq = tx[s].sendreq /\ x.reqtmp = tx[s].reqtmp
      BY <3>1, <3>2 DEF TxRecord
    <3> QED BY <3>3 DEF SameTx, Names, Sends, Denies
  <2> HIDE DEF x
  <2>4. \A u \in Stations : SameTx(tx[u], tx'[u])
    BY <1>10, <2>2, <2>3, SameHalves
  <2>5. /\ r.pos # -1 => state = (IF h = None THEN "RDONE" ELSE "RRCVBLK")
        /\ r.pos = -1 => state = r0.state
    <3> HIDE DEF r, h, r0
    <3> QED BY <1>4
  <2>6. state = "RRCVBLK" => /\ Begins(r.data, r.file)
                             /\ Len(partial[s][r.file]) <= Len(r.data)
    <3>1. state = "RRCVBLK" => r.pos # -1 /\ h # None
      BY <1>6, <2>5
    <3> HIDE DEF state, r, h
    <3>2. LET z == [r EXCEPT !.state = "RRCVBLK"]
          IN  z.data = r.data /\ z.file = r.file /\ z.state = "RRCVBLK"
      BY <1>4 DEF RxRecord
    <3> QED BY <1>5, <3>1, <3>2 DEF Receiving
  <2> HIDE DEF r, state, h, e, f, r0, leaving, go, asks
  <2>7. y.file = r.file /\ y.data = r.data /\ y.state = state /\ y.started = go /\ ~y.attempting
    BY <1>4 DEF RxRecord
  <2> HIDE DEF y
  <2>8. w = y /\ \A u \in Stations : u # s => rx'[u] = rx[u]
    BY <1>10, <2>2
  <2>9. Receiving(s, w)
    BY <2>6, <2>7, <2>8 DEF Receiving
  <2>10. w.file = h /\ ~w.attempting /\ (w.started <=> r0.started \/ r0.attempting)
         /\ (r.pos # -1 => w.state = (IF h = None THEN "RDONE" ELSE "RRCVBLK"))
    BY <1>4, <2>5, <2>7, <2>8 DEF go
  <2>11. h = None => ~More(s, e)
    BY <1>4, <1>12 DEF More, asks
  <2> HIDE DEF w
  <2> QED BY <1>1, <1>2, <1>4, <1>8, <1>9, <2>1, <2>2, <2>4, <2>8, <2>9, <2>10, <2>11 DEF w, r0, e, h, f
<1> QED BY <1>11, <1>12

\* CLEAR_OUTBOUND, besides what is read.
LEMMA RposLoses ==
  ASSUME TypeOK, NEW s \in Stations, RecvRpos(s)
  PROVE  LosesOnly
<1> DEFINE out == chan[Peer(s)]
<1>1. chan[s] # <<>> /\ chan[s] \in Seq(Packet) /\ out \in Seq(Packet)
  BY HalfTypes DEF RecvRpos, Receives
<1>2. CASE Consume(s)
  BY <1>1, <1>2, ConsumeLines, FewerSame, HalfTypes DEF LosesOnly
<1>3. CASE ~Consume(s)
  <2>1. PICK k \in 0 .. Len(out) :
          \E q \in {SubSeq(out, 1, k)} \cup
                   IF k < Len(out) THEN {Append(SubSeq(out, 1, k), Pkt("BAD"))} ELSE {} :
            chan' = [chan EXCEPT ![s] = Tail(@), ![Peer(s)] = q]
    BY <1>3 DEF RecvRpos
  <2> DEFINE cut == SubSeq(out, 1, k)
  <2>2. PICK q \in {cut, Append(cut, Pkt("BAD"))} :
          chan' = [chan EXCEPT ![s] = Tail(@), ![Peer(s)] = q]
    BY <2>1
  <2>3. chan'[s] = Tail(chan[s]) /\ chan'[Peer(s)] = q
    BY <2>2, HalfTypes DEF TypeOK, Lines
  <2>4. Pkt("BAD") \in Packet /\ Pkt("BAD").type = "BAD"
    BY DEF Pkt, Packet, PktTypes
  <2> HIDE DEF out
  <2>5. cut \in Seq(Packet) /\ \A T : Fewer(out, cut, T)
    BY <1>1, LineCut
  <2> HIDE DEF cut
  <2>6. \A T \in {Forth, Back} : Fewer(cut, q, T)
    <3>1. \A T \in {Forth, Back} : Pkt("BAD").type \notin T
      BY <2>4 DEF Forth, Back
    <3> QED BY <2>2, <2>4, <2>5, <3>1, LineSent, FewerSame
  <2>7. \A T \in {Forth, Back} : Fewer(out, q, T)
    BY <2>5, <2>6, FewerFewer
  <2>8. \A T \in {Forth, Back} : Fewer(chan[s], chan'[s], T)
    BY <1>1, <2>3, LineRead
  <2> QED BY <2>3, <2>7, <2>8, HalfTypes DEF LosesOnly, out
<1> QED BY <1>2, <1>3

\* A packet is read, and answered with none about a file one sends.
LEMMA ReceiveForth ==
  ASSUME TypeOK, NEW s \in Stations, Receive(s)
  PROVE  \A u \in Stations : Fewer(chan[u], chan'[u], Forth)
<1> DEFINE Goal == \A u \in Stations : Fewer(chan[u], chan'[u], Forth)
<1>1. chan[s] # <<>>
  BY DEF Receive, RecvBlock, RecvGap, RecvStray, RecvFname, RecvFnack, RecvFreq, RecvFreqNak,
         RecvFrnakAck, RecvEofAck, RecvRpos, RecvHaltAck, RecvHalt, Receives
<1>2. CASE Consume(s)
  BY <1>1, <1>2, ConsumeLines, FewerSame, HalfTypes
<1>3. ASSUME NEW x \in Packet, x.type \notin Forth, Reply(s, x)
      PROVE  Goal
  BY <1>1, <1>3, ReplyLines, HalfTypes
<1>4. ASSUME NEW x \in Packet, x.type \notin Forth, NEW leaving,
             LeaveOrStay(s, [chan EXCEPT ![s] = Tail(@), ![Peer(s)] = Append(@, x)], leaving)
      PROVE  Goal
  <2> DEFINE q == [chan EXCEPT ![s] = Tail(@), ![Peer(s)] = Append(@, x)]
  <2>1. /\ q \in [Stations -> Seq(Packet)]
        /\ q[s] = Tail(chan[s]) /\ q[Peer(s)] = Append(chan[Peer(s)], x)
    BY <1>1, ReplyLine
  <2>2. LeaveOrStay(s, q, leaving) BY <1>4
  <2> HIDE DEF q
  <2>3. chan'[s] = q[s] /\ Fewer(q[Peer(s)], chan'[Peer(s)], Forth)
    BY <2>1, <2>2, LeaveLines
  <2>4. Fewer(chan[s], q[s], Forth) /\ Fewer(chan[Peer(s)], q[Peer(s)], Forth)
    <3>1. chan[s] \in Seq(Packet) /\ chan[Peer(s)] \in Seq(Packet) BY HalfTypes
    <3> QED BY <1>1, <1>4, <2>1, <3>1, LineRead, LineSent
  <2> QED BY <2>3, <2>4, FewerFewer, HalfTypes
<1>5. CASE RecvBlock(s) \/ RecvStray(s) \/ RecvFreqNak(s)
  <2>1. \A t \in {"EOFACK", "FRNAKACK"} : Pkt(t) \in Packet /\ Pkt(t).type \notin Forth
    BY DEF Pkt, Packet, PktTypes, Forth
  <2>2. Consume(s) \/ Reply(s, Pkt("EOFACK")) \/ Reply(s, Pkt("FRNAKACK"))
    BY <1>5 DEF RecvBlock, RecvStray, RecvFreqNak
  <2> QED BY <1>2, <1>3, <2>1, <2>2
<1>6. CASE RecvGap(s)
  <2>1. \E tick \in {0, 1} : Consume(s) \/ Reply(s, Rpos(rx[s].pos, rx[s].sttime + tick))
    BY <1>6 DEF RecvGap
  <2>2. PICK tick \in {0, 1} : Consume(s) \/ Reply(s, Rpos(rx[s].pos, rx[s].sttime + tick))
    BY <2>1
  <2> DEFINE x == Rpos(rx[s].pos, rx[s].sttime + tick)
  <2>3. x \in Packet /\ x.type \notin Forth
    BY HalfTypes DEF RxRecord, Rpos, Packet, PktTypes, Forth
  <2> HIDE DEF x
  <2>4. Consume(s) \/ Reply(s, x) BY <2>2 DEF x
  <2> QED BY <1>2, <1>3, <2>3, <2>4
<1>7. CASE RecvFname(s)
  <2> DEFINE f == Head(chan[s]).file
             r == IF rx[s].state = "RRCVFNAME" THEN ProcFname(s, f) ELSE rx[s]
  <2>1. f \in Files \cup {None}
    BY <1>1, HeadType DEF PacketTo, Packet
  <2>2. r.pos \in Int
    <3> HIDE DEF f
    <3> QED BY <2>1, ProcFnameType, HalfTypes DEF RxRecord
  <2>3. reqdone[s] \in Nat BY HalfTypes
  <2>4. PICK n, leaving : \/ Reply(s, Freq(n)) /\ n \in Nat
                          \/ LeaveOrStay(s, [chan EXCEPT ![s] = Tail(@),
                                              ![Peer(s)] = Append(@, Fnack(f, r.pos))], leaving)
    <3> DEFINE done  == IF r.file = None /\ Served(s, r) THEN reqdone[s] + 1 ELSE reqdone[s]
               state == IF r.pos = -1 THEN r.state ELSE IF r.file = None THEN "RDONE" ELSE "RRCVBLK"
    <3>1. done + 1 \in Nat BY <2>3
    <3> WITNESS done + 1, BatchOver(tx[s].state, state)
    <3> QED BY <1>7, <3>1 DEF RecvFname
  <2> HIDE DEF r
  <2>5. Fnack(f, r.pos) \in Packet /\ Fnack(f, r.pos).type \notin Forth
    <3> HIDE DEF f
    <3> QED BY <2>1, <2>2 DEF Fnack, Packet, PktTypes, Forth
  <2>6. n \in Nat => Freq(n) \in Packet /\ Freq(n).type \notin Forth
    BY DEF Freq, Packet, PktTypes, Forth
  <2> QED BY <1>3, <1>4, <2>4, <2>5, <2>6
<1>8. CASE RecvFnack(s)
  <2> DEFINE q == [chan EXCEPT ![s] = Tail(@)]
  <2>1. \E leaving : LeaveOrStay(s, q, leaving)
    BY <1>8 DEF RecvFnack
  <2>2. /\ q \in [Stations -> Seq(Packet)]
        /\ q[s] = Tail(chan[s]) /\ q[Peer(s)] = chan[Peer(s)]
    BY <1>1, ReadLine
  <2> HIDE DEF q
  <2>3. chan'[s] = q[s] /\ Fewer(q[Peer(s)], chan'[Peer(s)], Forth)
    BY <2>1, <2>2, LeaveLines
  <2>4. chan[s] \in Seq(Packet) BY HalfTypes
  <2>5. Fewer(chan[s], chan'[s], Forth)
    BY <1>1, <2>2, <2>3, <2>4, LineRead
  <2> QED BY <2>2, <2>3, <2>5, HalfTypes
<1>9. CASE RecvFreq(s) \/ RecvFrnakAck(s) \/ RecvEofAck(s) \/ RecvHaltAck(s)
  BY <1>2, <1>9 DEF RecvFreq, RecvFrnakAck, RecvEofAck, RecvHaltAck
<1>10. CASE RecvRpos(s)
  BY <1>10, RposLoses DEF LosesOnly
<1>11. CASE RecvHalt(s)
  BY <1>11, GivesUp DEF LosesOnly
<1> QED BY <1>5, <1>6, <1>7, <1>8, <1>9, <1>10, <1>11 DEF Receive

\* No step makes a block that does not fit.
LEMMA BlocksStay == TypeOK /\ BlocksFit /\ [Next]_vars => BlocksFit'
<1> SUFFICES ASSUME TypeOK, BlocksFit, [Next]_vars PROVE BlocksFit'
  OBVIOUS
<1>1. ASSUME \A u \in Stations : \A y \in In(chan'[u], Forth) : y \in In(chan[u], Forth) \/ Fits(y)
      PROVE  BlocksFit'
  BY <1>1 DEF BlocksFit, Fits
<1>2. ASSUME \A u \in Stations : Fewer(chan[u], chan'[u], Forth)
      PROVE  BlocksFit'
  BY <1>1, <1>2 DEF Fewer
<1>3. ASSUME NEW s \in Stations, NEW x \in Packet, Send(s, x), Fits(x)
      PROVE  BlocksFit'
  <2>1. chan'[s] = chan[s] /\ Adds(chan[Peer(s)], chan'[Peer(s)], x, Forth)
    BY <1>3, SendLines
  <2> QED BY <1>1, <1>3, <2>1, HalfTypes DEF Adds
<1>4. CASE UNCHANGED vars
  BY <1>2, <1>4, FewerSame DEF vars
<1>5. CASE LineDrop
  BY <1>2, <1>5, DropLoses DEF LosesOnly
<1>6. CASE NewSession
  <2>1. \A u \in Stations : chan'[u] = <<>>
    BY <1>6 DEF NewSession
  <2>2. \A T : In(<<>>, T) = {}
    BY DEF In
  <2> QED BY <1>1, <2>1, <2>2
<1>7. ASSUME NEW s \in Stations, SendBlk(s) PROVE BlocksFit'
  <2> DEFINE t == tx[s]
  <2>1. PICK n \in Nat : /\ Send(s, Blk(t.file, t.pos, n))
                         /\ n = 0 \/ t.pos + n <= Size[t.file]
    <3>1. PICK size \in 1 .. BlkMax :
            LET rest == IF t.pos < Size[t.file] THEN Size[t.file] - t.pos ELSE 0
                n    == IF size < rest THEN size ELSE rest
            IN  Send(s, Blk(t.file, t.pos, n))
      BY <1>7 DEF SendBlk
    <3> DEFINE rest == IF t.pos < Size[t.file] THEN Size[t.file] - t.pos ELSE 0
               n    == IF size < rest THEN size ELSE rest
    <3>2. Size[t.file] \in Nat /\ t.pos \in Nat /\ size \in Nat
      <4>1. t.state = "XSENDBLK" BY <1>7 DEF SendBlk
      <4>2. t.file \in Files /\ t.pos \in Nat BY <4>1, HalfTypes DEF TxType, TxRecord
      <4> QED BY <4>2, FilesAssumption, BoundsAssumption
    <3>3. n \in Nat /\ (n = 0 \/ t.pos + n <= Size[t.file]) BY <3>2
    <3> QED BY <3>1, <3>3
  <2> DEFINE x == Blk(t.file, t.pos, n)
  <2>2. t.file \in Files /\ t.pos \in Nat
    BY <1>7, HalfTypes DEF SendBlk, TxType, TxRecord
  <2> HIDE DEF t
  <2>3. x \in Packet /\ Fits(x)
    BY <2>1, <2>2 DEF Blk, Packet, PktTypes, Fits
  <2> QED BY <1>3, <2>1, <2>3
<1>8. ASSUME NEW s \in Stations, SendFname(s) \/ SendFreqNak(s) PROVE BlocksFit'
  <2>1. tx[s].file \in Files \cup {None} BY HalfTypes DEF TxRecord
  <2>2. Fname(tx[s].file) \in Packet /\ Fits(Fname(tx[s].file))
    BY <2>1 DEF Fname, Packet, PktTypes, Fits
  <2>3. Pkt("FREQNAK") \in Packet /\ Fits(Pkt("FREQNAK"))
    BY DEF Pkt, Packet, PktTypes, Fits
  <2> QED BY <1>3, <1>8, <2>2, <2>3 DEF SendFname, SendFreqNak
<1>9. ASSUME NEW s \in Stations,
             \/ Transmit(s) \/ Receive(s) \/ Timers(s) \/ EndBatch(s) \/ NoCarrier(s)
             \/ HangUp(s) \/ Escape(s) \/ EndEscape(s) \/ Noise(s)
      PROVE  BlocksFit'
  <2>1. CASE XmitTimeout(s) \/ RposTimeout(s)
    BY <1>2, <2>1, FewerSame DEF XmitTimeout, RposTimeout, link
  <2>2. CASE BrainDead(s) \/ Escape(s) \/ NoCarrier(s)
    BY <1>2, <2>2, GivesUp DEF LosesOnly
  <2>3. CASE EndBatch(s) \/ EndEscape(s) \/ HangUp(s) \/ Noise(s)
    BY <1>2, <2>3, EndLoses DEF LosesOnly
  <2>4. CASE Receive(s)
    BY <1>2, <2>4, ReceiveForth
  <2> QED BY <1>7, <1>8, <1>9, <2>1, <2>2, <2>3, <2>4 DEF Transmit, Timers
<1> QED BY <1>4, <1>5, <1>6, <1>9 DEF Next

\* Steps that leave the files as they are.
LEMMA PartsStay ==
  ASSUME PartsIntact, UNCHANGED <<partial, got>>,
         \A u \in Stations : \/ Receiving(u, rx'[u])
                             \/ /\ rx'[u].state = rx[u].state /\ rx'[u].file = rx[u].file
                                /\ rx'[u].data = rx[u].data
  PROVE  PartsIntact'
<1>1. \A u \in Stations : Receiving(u, rx[u])'
  BY DEF PartsIntact, Receiving, Begins
<1>2. \A u \in Stations, f \in Files : Begins(partial[u][f], f)'
  BY DEF PartsIntact, Begins
<1>3. ReceivedIntact'
  BY DEF PartsIntact, ReceivedIntact
<1> QED BY <1>1, <1>2, <1>3 DEF PartsIntact

\* What appending an element to a sequence keeps, adds and leaves possible.
LEMMA AppendHas ==
  ASSUME NEW T, NEW g \in Seq(T), NEW x \in T, NEW h, h = Append(g, x)
  PROVE  /\ \A i \in DOMAIN h : (i \in DOMAIN g /\ h[i] = g[i]) \/ h[i] = x
         /\ \A i \in DOMAIN g : i \in DOMAIN h /\ h[i] = g[i]
         /\ \E i \in DOMAIN h : h[i] = x
<1>4. /\ Len(g) \in Nat /\ DOMAIN g = 1 .. Len(g) /\ h \in Seq(T)
      /\ Len(h) = Len(g) + 1 /\ h[Len(g) + 1] = x
      /\ \A j \in 1 .. Len(g) : h[j] = g[j]
  BY LenProperties, AppendProperties
<1>5. DOMAIN h = 1 .. Len(g) + 1
  BY <1>4, LenProperties
<1>6. \A i \in DOMAIN h : (i \in DOMAIN g /\ h[i] = g[i]) \/ h[i] = x
  <2> SUFFICES ASSUME NEW i \in 1 .. Len(g) + 1
               PROVE  (i \in DOMAIN g /\ h[i] = g[i]) \/ h[i] = x
    BY <1>5
  <2>1. i = Len(g) + 1 \/ i \in 1 .. Len(g) BY <1>4
  <2> QED BY <1>4, <2>1
<1>7. \A i \in DOMAIN g : i \in DOMAIN h /\ h[i] = g[i]
  BY <1>4, <1>5
<1>8. Len(g) + 1 \in DOMAIN h
  BY <1>4, <1>5
<1> QED BY <1>4, <1>6, <1>7, <1>8

\* A file is appended to those received: nothing delivered before has moved,
LEMMA OneMoreKeeps ==
  ASSUME TypeOK, NEW s \in Stations, NEW x \in [name : Files, data : UnitSeqs],
         got' = [got EXCEPT ![s] = Append(@, x)]
  PROVE  \A u \in Stations : \A i \in DOMAIN got[u] :
            i \in DOMAIN got'[u] /\ got'[u][i] = got[u][i]
<1> DEFINE T == [name : Files, data : UnitSeqs]
<1>1. got \in [Stations -> Seq(T)] BY DEF TypeOK
<1>2. got'[s] = Append(got[s], x) /\ \A u \in Stations : u # s => got'[u] = got[u]
  BY <1>1
<1> HIDE DEF T
<1>3. got[s] \in Seq(T) /\ x \in T BY <1>1 DEF T
<1>4. \A i \in DOMAIN got[s] : i \in DOMAIN got'[s] /\ got'[s][i] = got[s][i]
  BY <1>2, <1>3, AppendHas
<1> QED BY <1>2, <1>4, Zenon

\* the delivery is there,
LEMMA OneMoreHas ==
  ASSUME TypeOK, NEW s \in Stations, NEW x \in [name : Files, data : UnitSeqs],
         got' = [got EXCEPT ![s] = Append(@, x)]
  PROVE  \E i \in DOMAIN got'[s] : got'[s][i] = x
<1> DEFINE T == [name : Files, data : UnitSeqs]
<1>1. got \in [Stations -> Seq(T)] BY DEF TypeOK
<1>2. got'[s] = Append(got[s], x)
  BY <1>1
<1> HIDE DEF T
<1>3. got[s] \in Seq(T) /\ x \in T BY <1>1 DEF T
<1> QED BY <1>2, <1>3, AppendHas

\* and everything there is an earlier delivery or this one.
LEMMA OneMoreOnly ==
  ASSUME TypeOK, NEW s \in Stations, NEW x \in [name : Files, data : UnitSeqs],
         got' = [got EXCEPT ![s] = Append(@, x)]
  PROVE  \A u \in Stations : \A i \in DOMAIN got'[u] :
            \/ i \in DOMAIN got[u] /\ got'[u][i] = got[u][i]
            \/ u = s /\ got'[u][i] = x
<1> DEFINE T == [name : Files, data : UnitSeqs]
<1>1. got \in [Stations -> Seq(T)] BY DEF TypeOK
<1>2. got'[s] = Append(got[s], x) /\ \A u \in Stations : u # s => got'[u] = got[u]
  BY <1>1
<1> HIDE DEF T
<1>3. got[s] \in Seq(T) /\ x \in T BY <1>1 DEF T
<1>4. \A i \in DOMAIN got'[s] :
         (i \in DOMAIN got[s] /\ got'[s][i] = got[s][i]) \/ got'[s][i] = x
  BY <1>2, <1>3, AppendHas
<1> QED BY <1>2, <1>4, Zenon

\* A block is appended, or completes the file.
LEMMA PartsBlock ==
  ASSUME TypeOK, ReceivedPlaced, Intact, Delivery, NEW s \in Stations, RecvBlock(s)
  PROVE  /\ PartsIntact'
         /\ \A u \in Stations, f \in Files :
              Len(partial'[u][f]) >= Len(partial[u][f]) \/ Arrived(u, f)'
<1> DEFINE b    == Head(chan[s])
           r    == rx[s]
           e    == r.data \o Units(r.file, Len(r.data), b.arg)
           full == Completes(r, b.arg)
           x    == [name |-> r.file, data |-> e]
<1>1. /\ r.file \in Files /\ e \in UnitSeqs /\ Begins(e, r.file)
      /\ Len(partial[s][r.file]) <= Len(e)
      /\ full => e = Content(r.file)
      /\ rx'[s].state = (IF full THEN "RRCVFNAME" ELSE "RRCVBLK")
      /\ rx'[s].file = r.file /\ rx'[s].data = e
      /\ \A u \in Stations : u # s => rx'[u] = rx[u]
      /\ full => /\ got' = [got EXCEPT ![s] = Append(@, x)]
                 /\ partial' = [partial EXCEPT ![s][r.file] = <<>>]
      /\ ~full => UNCHANGED <<got, partial>>
  BY BlockStep
<1> HIDE DEF full, e
<1>2. partial \in [Stations -> [Files -> UnitSeqs]]
  BY DEF TypeOK
<1>3. \A u \in Stations, f \in Files : Len(partial[u][f]) >= Len(partial[u][f])
  <2> SUFFICES ASSUME NEW u \in Stations, NEW f \in Files
               PROVE  Len(partial[u][f]) >= Len(partial[u][f])
    OBVIOUS
  <2>1. partial[u][f] \in UnitSeqs BY <1>2
  <2>2. Len(partial[u][f]) \in Nat BY <2>1, LenProperties DEF UnitSeqs
  <2> QED BY <2>2
<1>4. CASE ~full
  <2>1. Receiving(s, rx'[s]) BY <1>1 DEF Receiving
  <2>2. PartsIntact' BY <1>1, <1>4, <2>1, PartsStay DEF Intact
  <2>3. partial' = partial BY <1>1, <1>4
  <2> QED BY <1>3, <2>2, <2>3
<1>5. CASE full
  <2>1. x \in [name : Files, data : UnitSeqs] /\ x.name = r.file /\ x.data = Content(r.file)
    BY <1>1, <1>5
  <2>2. /\ got' = [got EXCEPT ![s] = Append(@, x)]
        /\ partial' = [partial EXCEPT ![s][r.file] = <<>>]
    BY <1>1, <1>5
  <2>3. rx'[s].state # "RRCVBLK" /\ \A u \in Stations : u # s => rx'[u] = rx[u]
    BY <1>1, <1>5
  <2>4. \A u \in Stations, f \in Files :
          \/ partial'[u][f] = partial[u][f]
          \/ u = s /\ f = r.file /\ partial'[u][f] = <<>>
    BY <1>1, <1>2, <2>2
  <2>5. ReceivedIntact'
    <3> SUFFICES ASSUME NEW u \in Stations, NEW i \in DOMAIN got'[u]
                 PROVE  got'[u][i].data = Content(got'[u][i].name)
      BY DEF ReceivedIntact
    <3>1. (i \in DOMAIN got[u] /\ got'[u][i] = got[u][i]) \/ got'[u][i] = x
      BY <2>1, <2>2, OneMoreOnly
    <3> HIDE DEF x
    <3>2. got'[u][i] = x => got'[u][i].data = Content(got'[u][i].name)
      BY <2>1
    <3> QED BY <3>1, <3>2 DEF Intact, PartsIntact, ReceivedIntact
  <2>6. \A u \in Stations, f \in Files : Begins(partial'[u][f], f)
    <3>1. \A f \in Files : Begins(<<>>, f)
      BY FilesAssumption DEF Begins
    <3> QED BY <2>4, <3>1 DEF Intact, PartsIntact
  <2>7. \A u \in Stations : u # s => partial'[u] = partial[u]
    BY <1>1, <1>2, <2>2
  <2>8. \A u \in Stations : Receiving(u, rx[u])'
    <3> SUFFICES ASSUME NEW u \in Stations PROVE Receiving(u, rx[u])'
      OBVIOUS
    <3>1. CASE u = s BY <2>3, <3>1 DEF Receiving
    <3>2. CASE u # s
      <4>1. rx'[u] = rx[u] /\ partial'[u] = partial[u] BY <2>3, <2>7, <3>2
      <4> QED BY <4>1 DEF Intact, PartsIntact, Receiving, Begins
    <3> QED BY <3>1, <3>2
  <2>9. PartsIntact'
    BY <2>5, <2>6, <2>8 DEF PartsIntact, Begins
  <2>10. \E i \in DOMAIN got'[s] : got'[s][i] = [name |-> r.file, data |-> Content(r.file)]
    <3>1. x = [name |-> r.file, data |-> Content(r.file)]
      BY <1>1, <1>5
    <3>2. PICK z \in [name : Files, data : UnitSeqs] : z = x
      BY <2>1
    <3>3. got' = [got EXCEPT ![s] = Append(@, z)]
      BY <2>2, <3>2
    <3>4. \E i \in DOMAIN got'[s] : got'[s][i] = z
      BY <3>3, OneMoreHas, Zenon
    <3> QED BY <3>1, <3>2, <3>4
  <2>11. \A u \in Stations, f \in Files :
              Len(partial'[u][f]) >= Len(partial[u][f]) \/ Arrived(u, f)'
    BY <1>3, <2>4, <2>10 DEF Arrived
  <2> QED BY <2>9, <2>11
<1> QED BY <1>4, <1>5

\* What is kept of an aborted transfer.
LEMMA PartsGiveUp ==
  ASSUME TypeOK, PartsIntact, NEW s \in Stations, NEW q, GiveUp(s, q)
  PROVE  /\ PartsIntact'
         /\ \A u \in Stations, f \in Files : Len(partial'[u][f]) >= Len(partial[u][f])
<1>1. UNCHANGED <<rx, got>> BY DEF GiveUp
<1>2. partial \in [Stations -> [Files -> UnitSeqs]]
  BY DEF TypeOK
<1> DEFINE r == rx[s]
<1>3. \/ partial' = partial
      \/ r.state = "RRCVBLK" /\ partial' = [partial EXCEPT ![s][r.file] = r.data]
  BY DEF GiveUp
<1>4. r.state = "RRCVBLK" => /\ Begins(r.data, r.file) /\ Len(partial[s][r.file]) <= Len(r.data)
                             /\ r.file \in Files /\ r.data \in UnitSeqs
  BY HalfTypes DEF PartsIntact, Receiving, RxType, RxRecord
<1>5. \A u \in Stations, f \in Files :
        \/ partial'[u][f] = partial[u][f]
        \/ /\ u = s /\ f = r.file /\ r.state = "RRCVBLK" /\ partial'[u][f] = r.data
  <2> HIDE DEF r
  <2> QED BY <1>2, <1>3, <1>4
<1>6. \A u \in Stations, f \in Files : Len(partial[u][f]) \in Nat
  <2> SUFFICES ASSUME NEW u \in Stations, NEW f \in Files PROVE Len(partial[u][f]) \in Nat
    OBVIOUS
  <2>1. partial[u][f] \in UnitSeqs BY <1>2
  <2> QED BY <2>1, LenProperties DEF UnitSeqs
<1>7. r.state = "RRCVBLK" => Len(r.data) \in Nat
  BY <1>4, LenProperties DEF UnitSeqs
<1> HIDE DEF r
<1>8. \A u \in Stations, f \in Files : Len(partial'[u][f]) >= Len(partial[u][f])
  BY <1>4, <1>5, <1>6, <1>7
<1>9. \A u \in Stations, f \in Files : Begins(partial'[u][f], f)
  BY <1>4, <1>5 DEF PartsIntact
<1>10. \A u \in Stations : Receiving(u, rx[u])'
  <2> SUFFICES ASSUME NEW u \in Stations, rx[u].state = "RRCVBLK"
               PROVE  Len(partial'[u][rx[u].file]) <= Len(rx[u].data)
    BY <1>1 DEF PartsIntact, Receiving, Begins
  <2>1. /\ rx[u].file \in Files /\ rx[u].data \in UnitSeqs
        /\ Len(partial[u][rx[u].file]) <= Len(rx[u].data)
    BY HalfTypes DEF PartsIntact, Receiving, RxType, RxRecord
  <2>2. Len(rx[u].data) \in Nat BY <2>1, LenProperties DEF UnitSeqs
  <2>3. partial'[u][rx[u].file] \in {partial[u][rx[u].file], rx[u].data}
    BY <1>5, <2>1 DEF r
  <2>4. Len(rx[u].data) <= Len(rx[u].data) BY <2>2
  <2> QED BY <2>1, <2>3, <2>4
<1> QED BY <1>1, <1>8, <1>9, <1>10 DEF PartsIntact, ReceivedIntact, Receiving, Begins

\* A gap, a refused request and the RPOS timer.
LEMMA ReceiverKept ==
  ASSUME TypeOK, NEW s \in Stations, RecvGap(s) \/ RecvFreqNak(s) \/ RposTimeout(s)
  PROVE  /\ \A u \in Stations : /\ rx'[u].state = rx[u].state /\ rx'[u].file = rx[u].file
                                /\ rx'[u].data = rx[u].data
         /\ \A u \in Stations : SameTx(tx[u], tx'[u])
         /\ ~RecvFreqNak(s) => \A u \in Stations : SameRx(rx[u], rx'[u])
         /\ RecvFreqNak(s) => /\ ~rx'[s].attempting /\ rx'[s].started
                              /\ \A u \in Stations : u # s => rx'[u] = rx[u]
         /\ UNCHANGED <<partial, got, marked, removed, reqdone>>
<1>1. /\ rx \in [Stations -> RxType] /\ tx \in [Stations -> TxType]
      /\ rx[s] \in RxRecord /\ tx[s] \in TxRecord
  BY HalfTypes DEF TypeOK
<1>2. CASE RecvGap(s)
  <2>1. PICK l, c, w, m, i, on :
          /\ on = TRUE => s # Caller
          /\ rx' = [rx EXCEPT ![s] = [rx[s] EXCEPT !.lastblk = l, !.cnt = c, !.sttime = w,
                                                   !.samesec = m, !.waiting = TRUE]]
          /\ tx' = [tx EXCEPT ![s] = [tx[s] EXCEPT !.inhibit = tx[s].inhibit \/ on,
                                                   !.idle = i]]
    BY <1>2, GapChanges
  <2> DEFINE y == [rx[s] EXCEPT !.lastblk = l, !.cnt = c, !.sttime = w,
                                !.samesec = m, !.waiting = TRUE]
             h == tx[s].inhibit \/ on
             x == [tx[s] EXCEPT !.inhibit = h, !.idle = i]
  <2>2. /\ y.state = rx[s].state /\ y.file = rx[s].file /\ y.data = rx[s].data
        /\ y.started = rx[s].started /\ y.attempting = rx[s].attempting
    BY <1>1 DEF RxRecord
  <2>3. rx' = [rx EXCEPT ![s] = y] /\ tx' = [tx EXCEPT ![s] = x]
    BY <2>1
  <2> HIDE DEF h
  <2>4. SameTx(tx[s], x)
    BY <1>1 DEF TxRecord, SameTx, Names, Sends, Denies
  <2> HIDE DEF x, y
  <2>5. SameRx(rx[s], y) BY <2>2 DEF SameRx
  <2>6. ~RecvFreqNak(s)
    BY <1>2 DEF RecvGap, RecvFreqNak, Receives
  <2>7. UNCHANGED <<partial, got, marked, removed, reqdone>>
    BY <1>2 DEF RecvGap, disk
  <2> QED BY <1>1, <2>2, <2>3, <2>4, <2>5, <2>6, <2>7, SameHalves
<1>3. CASE RecvFreqNak(s)
  <2> DEFINE y == [rx[s] EXCEPT !.attempting = FALSE, !.started = TRUE]
  <2>1. /\ y.state = rx[s].state /\ y.file = rx[s].file /\ y.data = rx[s].data
        /\ y.attempting = FALSE /\ y.started = TRUE
    BY <1>1 DEF RxRecord
  <2>2. /\ rx' = [rx EXCEPT ![s] = y] /\ tx' = [tx EXCEPT ![s] = Heard(@)]
        /\ UNCHANGED <<partial, got, marked, removed, reqdone>>
    BY <1>3 DEF RecvFreqNak, disk
  <2> HIDE DEF y
  <2> QED BY <1>1, <1>3, <2>1, <2>2, SameHalves
<1>4. CASE RposTimeout(s)
  <2> DEFINE y == [rx[s] EXCEPT !.waiting = FALSE, !.samesec = FALSE]
  <2>1. /\ y.state = rx[s].state /\ y.file = rx[s].file /\ y.data = rx[s].data
        /\ y.started = rx[s].started /\ y.attempting = rx[s].attempting
    BY <1>1 DEF RxRecord
  <2>2. /\ rx' = [rx EXCEPT ![s] = y] /\ UNCHANGED <<chan, tx>>
        /\ UNCHANGED <<partial, got, marked, removed, reqdone>>
    BY <1>4 DEF RposTimeout, link, disk
  <2> HIDE DEF y
  <2>3. SameRx(rx[s], y) BY <2>1 DEF SameRx
  <2>4. RecvFreqNak(s) => chan[s] # <<>> /\ chan'[s] = Tail(chan[s])
    BY HalfTypes DEF RecvFreqNak, Receives, Reply, TypeOK, Lines
  <2>5. chan[s] # <<>> => Tail(chan[s]) # chan[s]
    <3> DEFINE c == chan[s]
    <3>1. c \in Seq(Packet) BY HalfTypes
    <3> HIDE DEF c
    <3>2. c # <<>> => Len(Tail(c)) = Len(c) - 1 /\ Len(c) \in Nat
      BY <3>1, HeadTailProperties, LenProperties
    <3>3. c # <<>> => Tail(c) # c BY <3>2
    <3> QED BY <3>3 DEF c
  <2>6. ~RecvFreqNak(s) BY <2>2, <2>4, <2>5
  <2> QED BY <1>1, <2>1, <2>2, <2>3, <2>6, SameHalves
<1> QED BY <1>2, <1>3, <1>4

\* No step spoils a file, nor forgets what was kept of one.
LEMMA PartsStep ==
  ASSUME TypeOK, ReceivedPlaced, Intact, Delivery, [Next]_vars
  PROVE  /\ PartsIntact'
         /\ \A u \in Stations, f \in Files :
              Len(partial'[u][f]) >= Len(partial[u][f]) \/ Arrived(u, f)'
<1> DEFINE Keeps == \A u \in Stations, f \in Files :
                      Len(partial'[u][f]) >= Len(partial[u][f]) \/ Arrived(u, f)'
<1>1. PartsIntact BY DEF Intact
<1>2. partial' = partial => Keeps
  <2> SUFFICES ASSUME NEW u \in Stations, NEW f \in Files
               PROVE  Len(partial[u][f]) >= Len(partial[u][f])
    OBVIOUS
  <2>1. partial[u][f] \in UnitSeqs BY DEF TypeOK
  <2>2. Len(partial[u][f]) \in Nat BY <2>1, LenProperties DEF UnitSeqs
  <2> QED BY <2>2
<1> HIDE DEF Keeps
<1>3. ASSUME UNCHANGED <<rx, partial, got>> PROVE PartsIntact' /\ Keeps
  BY <1>1, <1>2, <1>3, PartsStay
<1>4. CASE UNCHANGED vars
  BY <1>3, <1>4 DEF vars
<1>5. CASE LineDrop
  BY <1>3, <1>5 DEF LineDrop, disk
<1>6. CASE NewSession
  <2>1. rx' = [u \in Stations |-> RxStart(u)] /\ UNCHANGED <<partial, got>>
    BY <1>6 DEF NewSession
  <2>2. \A u \in Stations : RxStart(u).state # "RRCVBLK"
    BY DEF RxStart
  <2>3. \A u \in Stations : Receiving(u, rx'[u])
    BY <2>1, <2>2 DEF Receiving
  <2> QED BY <1>1, <1>2, <2>1, <2>3, PartsStay
<1>7. ASSUME NEW s \in Stations,
             \/ Transmit(s) \/ Receive(s) \/ Timers(s) \/ EndBatch(s) \/ NoCarrier(s)
             \/ HangUp(s) \/ Escape(s) \/ EndEscape(s) \/ Noise(s)
      PROVE  PartsIntact' /\ Keeps
  <2>1. CASE Transmit(s) \/ XmitTimeout(s)
    BY <1>3, <2>1 DEF Transmit, SendBlk, SendFname, SendFreqNak, XmitTimeout, disk
  <2>2. CASE RecvGap(s) \/ RecvFreqNak(s) \/ RposTimeout(s)
    BY <1>1, <1>2, <2>2, ReceiverKept, PartsStay
  <2>3. CASE \/ RecvStray(s) \/ RecvFnack(s) \/ RecvFreq(s) \/ RecvFrnakAck(s)
             \/ RecvEofAck(s) \/ RecvRpos(s) \/ RecvHaltAck(s)
    BY <1>3, <2>3 DEF RecvStray, RecvFnack, RecvFreq, RecvFrnakAck, RecvEofAck, RecvRpos,
                      RecvHaltAck, disk
  <2>4. CASE BrainDead(s) \/ NoCarrier(s) \/ Escape(s) \/ RecvHalt(s)
    <3>1. PICK q : GiveUp(s, q) BY <2>4, GivesUp
    <3> QED BY <1>1, <3>1, PartsGiveUp DEF Keeps
  <2>5. CASE EndBatch(s) \/ EndEscape(s)
    BY <1>3, <2>5 DEF EndBatch, EndRecv, EndTimeout, EndNoCarrier, EndEscape, disk
  <2>6. CASE HangUp(s) \/ Noise(s)
    BY <1>3, <2>6 DEF HangUp, Noise, disk
  <2>7. CASE RecvFname(s)
    <3>1. /\ UNCHANGED <<got, partial>> /\ Receiving(s, rx'[s])
          /\ \A u \in Stations : u # s => rx'[u] = rx[u]
      BY <2>7, FnameStep
    <3> QED BY <1>1, <1>2, <3>1, PartsStay
  <2>8. CASE RecvBlock(s)
    BY <2>8, PartsBlock DEF Keeps
  <2> QED BY <1>7, <2>1, <2>2, <2>3, <2>4, <2>5, <2>6, <2>7, <2>8 DEF Timers, Receive
<1> QED BY <1>4, <1>5, <1>6, <1>7 DEF Next, Keeps

-----------------------------------------------------------------------------
(* The receiver's steps *)

\* What s transmits is left alone, and its peer's direction is in order.
LEMMA ReceiverSide ==
  ASSUME TypeOK, Delivery, NEW s \in Stations, Receive(s),
         \A u \in Stations : SameTx(tx[u], tx'[u]),
         SameRx(rx[Peer(s)], rx'[Peer(s)]), reqdone'[Peer(s)] = reqdone[Peer(s)],
         Fewer(chan[s], chan'[s], Back), UNCHANGED <<marked, removed>>,
         Here(Peer(s)) \subseteq Here(Peer(s))', tx'[Peer(s)] = tx[Peer(s)],
         Dir(Peer(s), tx[Peer(s)], rx'[s], chan'[s], chan'[Peer(s)], reqdone'[s],
             Struck, Here(s)')
  PROVE  Delivery'
<1>1. Struck' = Struck /\ Struck \subseteq Struck'
  BY DEF Struck
<1>2. Peer(s) \in Stations /\ Peer(Peer(s)) = s
  BY HalfTypes
<1>3. Fewer(chan[Peer(s)], chan'[Peer(s)], Forth)
  BY <1>2, ReceiveForth
<1>4. Direction(s)'
  BY <1>1, <1>3, Unmoved
<1>5. Direction(Peer(s))'
  BY <1>1, <1>2 DEF Direction
<1> QED BY <1>4, <1>5, BothDirections

\* The packet just sent is on the line.
LEMMA LastOnLine ==
  ASSUME NEW c \in Seq(Packet), NEW x \in Packet, NEW T
  PROVE  /\ x.type \in T => x \in In(Append(c, x), T)
         /\ In(c, T) \subseteq In(Append(c, x), T)
<1> DEFINE h == Append(c, x)
<1>1. /\ Len(c) \in Nat /\ DOMAIN c = 1 .. Len(c) /\ h \in Seq(Packet)
      /\ Len(h) = Len(c) + 1 /\ h[Len(c) + 1] = x
      /\ \A j \in 1 .. Len(c) : h[j] = c[j]
  BY LenProperties, AppendProperties
<1>2. DOMAIN h = 1 .. Len(c) + 1
  BY <1>1, LenProperties
<1> HIDE DEF h
<1>3. x.type \in T => x \in In(h, T)
  BY <1>1, <1>2 DEF In
<1>4. In(c, T) \subseteq In(h, T)
  BY <1>1, <1>2 DEF In
<1> QED BY <1>3, <1>4 DEF h

\* Files received stay received, and the new one is among them.
LEMMA MoreHere ==
  ASSUME NEW s \in Stations, NEW f \in Files,
         \A u \in Stations : \A i \in DOMAIN got[u] :
           i \in DOMAIN got'[u] /\ got'[u][i] = got[u][i],
         \E i \in DOMAIN got'[s] : got'[s][i] = [name |-> f, data |-> Content(f)]
  PROVE  (\A u \in Stations : Here(u) \subseteq Here(u)') /\ f \in Here(s)'
<1>1. ASSUME NEW u \in Stations, NEW g \in Files, Arrived(u, g) PROVE Arrived(u, g)'
  BY <1>1 DEF Arrived
<1>2. Arrived(s, f)' BY DEF Arrived
<1> QED BY <1>1, <1>2 DEF Here

\* A block of the file.
LEMMA DeliveryBlock ==
  ASSUME TypeOK, ReceivedPlaced, Intact, Delivery, NEW s \in Stations, RecvBlock(s)
  PROVE  Delivery'
<1> DEFINE o    == Peer(s)
           b    == Head(chan[s])
           r    == rx[s]
           e    == r.data \o Units(r.file, Len(r.data), b.arg)
           full == Completes(r, b.arg)
           x    == [name |-> r.file, data |-> e]
           z    == Pkt("EOFACK")
<1>1. o \in Stations /\ Peer(o) = s /\ o # s /\ Shapes(tx[o], r)
  BY HalfTypes
<1>2. /\ chan[s] # <<>> /\ b.type = "BLK" /\ r.state = "RRCVBLK" /\ r.file \in Files
      /\ e \in UnitSeqs
      /\ full => e = Content(r.file)
      /\ rx'[s].state = (IF full THEN "RRCVFNAME" ELSE "RRCVBLK")
      /\ rx'[s].file = r.file
      /\ rx'[s].started = r.started /\ rx'[s].attempting = r.attempting
      /\ \A u \in Stations : u # s => rx'[u] = rx[u]
      /\ full => /\ got' = [got EXCEPT ![s] = Append(@, x)]
                 /\ Reply(s, z)
      /\ ~full => Consume(s) /\ UNCHANGED <<got, partial>>
      /\ tx' = [tx EXCEPT ![s] = Heard(@)]
      /\ UNCHANGED <<marked, removed, reqdone>>
  BY BlockStep
<1> HIDE DEF full, e
<1>3. \A u \in Stations : SameTx(tx[u], tx'[u])
  BY <1>2, SameHalves, HalfTypes DEF TypeOK
<1>4. tx'[o] = tx[o] /\ rx'[o] = rx[o] /\ reqdone'[o] = reqdone[o]
  BY <1>1, <1>2 DEF TypeOK
<1>5. Receive(s) BY DEF Receive
<1>6. Dir(o, tx[o], r, chan[s], chan[o], reqdone[s], Struck, Here(s))
  BY <1>1 DEF Delivery, Direction
<1>7. z \in Packet /\ z.type = "EOFACK"
  BY DEF Pkt, Packet, PktTypes
<1>8. b.type \in Forth /\ b.type \notin Back
  BY <1>2 DEF Forth, Back
<1>9. CASE ~full
  <2>1. SameRx(r, rx'[s]) BY <1>2, <1>9 DEF SameRx
  <2>2. UNCHANGED got /\ Consume(s) BY <1>2, <1>9
  <2>3. \A T : Fewer(chan[s], chan'[s], T) /\ Fewer(chan[o], chan'[o], T)
    BY <1>2, <2>2, ConsumeLines, FewerSame
  <2>4. Here(s) \subseteq Here(s)' /\ Here(o) \subseteq Here(o)'
    BY <1>1, <2>2, SameFiles
  <2>5. Dir(o, tx[o], rx'[s], chan'[s], chan'[o], reqdone'[s], Struck, Here(s)')
    <3> DEFINE w == rx'[s]
               d == reqdone[s]
    <3>1. SameTx(tx[o], tx[o]) /\ SameRx(r, w) /\ reqdone'[s] = d
      BY <1>2, <2>1, SameHalves
    <3>2. Fewer(chan[s], chan'[s], Forth) /\ Fewer(chan[o], chan'[o], Back)
      BY <2>3
    <3> HIDE DEF o, r, w
    <3>3. Dir(o, tx[o], w, chan'[s], chan'[o], d, Struck, Here(s)')
      BY <1>6, <2>4, <3>1, <3>2, DirFewer
    <3> QED BY <3>1, <3>3 DEF w
  <2> QED BY <1>2, <1>3, <1>4, <1>5, <2>3, <2>4, <2>5, SameHalves, ReceiverSide
<1>10. CASE full
  <2>1. Reply(s, z) BY <1>2, <1>10
  <2> HIDE DEF z
  <2>2. /\ Fewer(chan[s], chan'[s], Back) /\ First(chan[s], b, chan'[s], Forth)
        /\ Adds(chan[o], chan'[o], z, Back)
    BY <1>2, <1>7, <1>8, <2>1, ReplyLines
  <2>3. /\ Here(s) \subseteq Here(s)' /\ Here(o) \subseteq Here(o)'
        /\ r.file \in Here(s)'
    <3>1. x = [name |-> r.file, data |-> Content(r.file)]
      BY <1>2, <1>10
    <3>2. PICK y \in [name : Files, data : UnitSeqs] : y = x
      BY <1>2
    <3>3. got' = [got EXCEPT ![s] = Append(@, y)]
      BY <1>2, <1>10, <3>2
    <3>4. \E i \in DOMAIN got'[s] : got'[s][i] = y
      BY <3>3, OneMoreHas, Zenon
    <3>7. \A u \in Stations : \A i \in DOMAIN got[u] :
            i \in DOMAIN got'[u] /\ got'[u][i] = got[u][i]
      BY <3>3, OneMoreKeeps, Zenon
    <3> DEFINE f == r.file
    <3>5. f \in Files /\ y = [name |-> f, data |-> Content(f)]
      BY <1>2, <3>1, <3>2
    <3> HIDE DEF x, f
    <3>6. (\A u \in Stations : Here(u) \subseteq Here(u)') /\ f \in Here(s)'
      BY <3>4, <3>5, <3>7, MoreHere
    <3> QED BY <1>1, <3>6 DEF f
  <2>4. Dir(o, tx[o], rx'[s], chan'[s], chan'[o], reqdone'[s], Struck, Here(s)')
    <3>1. rx'[s].state = "RRCVFNAME" /\ reqdone'[s] = reqdone[s] BY <1>2, <1>10
    <3> DEFINE w == rx'[s]
    <3>2. w.state = "RRCVFNAME" /\ w.started = r.started /\ w.attempting = r.attempting
      BY <1>2, <3>1
    <3> HIDE DEF o, r, w, b
    <3>3. Adds(chan[o], chan'[o], Pkt("EOFACK"), Back) BY <2>2 DEF z
    <3>4. Dir(o, tx[o], w, chan'[s], chan'[o], reqdone[s], Struck, Here(s)')
      BY <1>1, <1>2, <1>6, <2>2, <2>3, <3>2, <3>3, BlockDir
    <3> QED BY <3>1, <3>4 DEF w
  <2> QED BY <1>2, <1>3, <1>4, <1>5, <2>2, <2>3, <2>4, SameHalves, ReceiverSide
<1> QED BY <1>9, <1>10

\* A block that is not the next one.
LEMMA GapLoses ==
  ASSUME TypeOK, NEW s \in Stations, RecvGap(s)
  PROVE  /\ LosesOnly
         /\ \A u \in Stations : SameTx(tx[u], tx'[u]) /\ SameRx(rx[u], rx'[u])
         /\ UNCHANGED <<got, marked, removed, reqdone>>
<1>1. /\ \A u \in Stations : SameTx(tx[u], tx'[u]) /\ SameRx(rx[u], rx'[u])
      /\ UNCHANGED <<got, marked, removed, reqdone>>
  <2>1. ~RecvFreqNak(s) BY DEF RecvGap, RecvFreqNak, Receives
  <2> QED BY <2>1, ReceiverKept
<1>2. chan[s] # <<>> BY DEF RecvGap, Receives
<1>3. PICK tick \in {0, 1} : Consume(s) \/ Reply(s, Rpos(rx[s].pos, rx[s].sttime + tick))
  BY DEF RecvGap
<1> DEFINE x == Rpos(rx[s].pos, rx[s].sttime + tick)
<1>4. x \in Packet /\ \A T \in {Forth, Back} : x.type \notin T
  BY HalfTypes DEF RxRecord, Rpos, Packet, PktTypes, Forth, Back
<1>5. Consume(s) \/ Reply(s, x) BY <1>3
<1> HIDE DEF x
<1>6. LosesOnly
  <2>1. CASE Consume(s)
    BY <1>2, <2>1, ConsumeLines, FewerSame, HalfTypes DEF LosesOnly
  <2>2. CASE Reply(s, x)
    BY <1>2, <1>4, <2>2, ReplyLines, HalfTypes DEF LosesOnly
  <2> QED BY <1>5, <2>1, <2>2
<1> QED BY <1>1, <1>6

\* A block that is not the next one: the receiver asks again.
LEMMA DeliveryGap ==
  ASSUME TypeOK, Delivery, NEW s \in Stations, RecvGap(s)
  PROVE  Delivery'
BY GapLoses, Neutral DEF LosesOnly

\* A block out of the blue.
LEMMA DeliveryStray ==
  ASSUME TypeOK, Delivery, NEW s \in Stations, RecvStray(s)
  PROVE  Delivery'
<1> DEFINE o == Peer(s)
           z == Pkt("EOFACK")
<1>1. chan[s] # <<>> /\ UNCHANGED <<rx, reqdone, got, marked, removed>>
  BY DEF RecvStray, Receives, disk
<1>2. o \in Stations /\ Peer(o) = s /\ o # s
  BY HalfTypes
<1>3. tx' = [tx EXCEPT ![s] = Heard(@)] \/ tx' = tx
  BY DEF RecvStray, TypeOK
<1>4. (\A u \in Stations : SameTx(tx[u], tx'[u])) /\ tx'[o] = tx[o]
  <2>1. tx \in [Stations -> TxType] BY DEF TypeOK
  <2>2. CASE tx' = tx BY <2>2, SameHalves
  <2>3. CASE tx' = [tx EXCEPT ![s] = Heard(@)] BY <1>2, <2>1, <2>3, SameHalves
  <2> QED BY <1>3, <2>2, <2>3
<1>5. CASE rx[s].state # "RRCVFNAME"
  <2>1. Consume(s) BY <1>5 DEF RecvStray
  <2>2. \A u \in Stations, T \in {Forth, Back} : Fewer(chan[u], chan'[u], T)
    BY <1>1, <2>1, ConsumeLines, FewerSame, HalfTypes
  <2> QED BY <1>1, <1>4, <2>2, SameHalves, Neutral
<1>6. CASE rx[s].state = "RRCVFNAME"
  <2>1. Reply(s, z) BY <1>6 DEF RecvStray
  <2>2. z \in Packet BY DEF Pkt, Packet, PktTypes
  <2>3. Dir(o, tx[o], rx[s], chan[s], chan[o], reqdone[s], Struck, Here(s))
    BY <1>2 DEF Delivery, Direction
  <2> HIDE DEF z, o
  <2>4. (\A T : Fewer(chan[s], chan'[s], T)) /\ Adds(chan[o], chan'[o], z, Back)
    BY <1>1, <2>1, <2>2, ReplyLines DEF o
  <2>5. Dir(o, tx[o], rx[s], chan'[s], chan'[o], reqdone[s], Struck, Here(s))
    BY <1>6, <2>3, <2>4, StrayDir DEF z
  <2>6. Here(s)' = Here(s) /\ Here(o)' = Here(o)
    BY <1>1 DEF Here, Arrived
  <2>7. Receive(s) BY DEF Receive
  <2>8. Dir(o, tx[o], rx'[s], chan'[s], chan'[o], reqdone'[s], Struck, Here(s)')
    BY <1>1, <2>5, <2>6
  <2> QED BY <1>1, <1>4, <2>4, <2>6, <2>7, <2>8, SameHalves, ReceiverSide DEF o
<1> QED BY <1>5, <1>6

\* The last request matched nothing.
LEMMA DeliveryFreqNak ==
  ASSUME TypeOK, Delivery, NEW s \in Stations, RecvFreqNak(s)
  PROVE  Delivery'
<1> DEFINE o == Peer(s)
           b == Head(chan[s])
           r == rx[s]
           w == rx'[s]
           z == Pkt("FRNAKACK")
<1>1. chan[s] # <<>> /\ b.type = "FREQNAK" /\ Reply(s, z)
  BY DEF RecvFreqNak, Receives
<1>2. o \in Stations /\ Peer(o) = s /\ o # s /\ Shapes(tx[o], r)
  BY HalfTypes
<1>3. /\ w.state = r.state /\ w.file = r.file /\ ~w.attempting
      /\ \A u \in Stations : u # s => rx'[u] = rx[u]
      /\ UNCHANGED <<partial, got, marked, removed, reqdone>>
  BY ReceiverKept
<1>4. tx' = [tx EXCEPT ![s] = Heard(@)] BY DEF RecvFreqNak
<1>5. (\A u \in Stations : SameTx(tx[u], tx'[u])) /\ tx'[o] = tx[o]
  BY <1>2, <1>4, SameHalves, HalfTypes DEF TypeOK
<1>6. Dir(o, tx[o], r, chan[s], chan[o], reqdone[s], Struck, Here(s))
  BY <1>2 DEF Delivery, Direction
<1>7. z \in Packet BY DEF Pkt, Packet, PktTypes
<1>8. b.type \in Forth BY <1>1 DEF Forth
<1> HIDE DEF z, o, b, r, w
<1>9. /\ Fewer(chan[s], chan'[s], Back) /\ First(chan[s], b, chan'[s], Forth)
      /\ Adds(chan[o], chan'[o], z, Back)
  BY <1>1, <1>7, <1>8, ReplyLines DEF o, b
<1>10. Dir(o, tx[o], w, chan'[s], chan'[o], reqdone[s], Struck, Here(s))
  BY <1>1, <1>2, <1>3, <1>6, <1>9, DeniedDir DEF z
<1>11. Here(s)' = Here(s) /\ Here(o)' = Here(o)
  BY <1>3 DEF Here, Arrived
<1>12. Receive(s) BY DEF Receive
<1>13. Dir(o, tx[o], rx'[s], chan'[s], chan'[o], reqdone'[s], Struck, Here(s)')
  BY <1>3, <1>10, <1>11 DEF w
<1> QED BY <1>2, <1>3, <1>5, <1>9, <1>11, <1>12, <1>13, SameHalves, ReceiverSide DEF o

\* A name, and the answer to it.
LEMMA DeliveryFname ==
  ASSUME TypeOK, Intact, Delivery, NoRefusal', NEW s \in Stations, RecvFname(s)
  PROVE  Delivery'
<1> DEFINE o == Peer(s)
           b == Head(chan[s])
           f == b.file
           r == rx[s]
           h == Heeds(r, f)
           e == IF h = None THEN Made(s, r, reqdone[s]) ELSE reqdone[s]
           w == rx'[s]
<1>1. /\ chan[s] # <<>> /\ b.type = "FNAME"
      /\ f \in Files \cup {None} /\ h \in Files \cup {None}
      /\ reqdone'[s] = e /\ w.file = h
      /\ \A u \in Stations : u # s => reqdone'[u] = reqdone[u] /\ rx'[u] = rx[u]
      /\ UNCHANGED <<got, partial, marked, removed>>
      /\ \/ /\ h = None /\ More(s, e) /\ Reply(s, Freq(e + 1))
            /\ w.state = r.state /\ w.attempting /\ ~w.started
            /\ \A u \in Stations : SameTx(tx[u], tx'[u])
         \/ /\ h = None => ~More(s, e)
            /\ ~w.attempting /\ (w.started <=> r.started \/ r.attempting)
            /\ \A u \in Stations : SameTx(tx[u], tx'[u])
            /\ \E pos \in Int, leaving \in BOOLEAN :
                 /\ LeaveOrStay(s, [chan EXCEPT ![s] = Tail(@),
                                      ![Peer(s)] = Append(@, Fnack(f, pos))], leaving)
                 /\ pos # -1 => w.state = (IF h = None THEN "RDONE" ELSE "RRCVBLK")
  BY FnameStep
<1>2. o \in Stations /\ Peer(o) = s /\ o # s /\ Shapes(tx[o], r)
  BY HalfTypes
<1>3. reqdone[s] \in Nat /\ e \in Nat /\ Len(Requests[s]) \in Nat
  BY HalfTypes DEF Made
<1>4. tx'[o] = tx[o]
  BY <1>2 DEF RecvFname, TypeOK
<1>5. \A u \in Stations : SameTx(tx[u], tx'[u])
  BY <1>1
<1>6. Here(s)' = Here(s) /\ Here(o)' = Here(o)
  BY <1>1 DEF Here, Arrived
<1>7. Dir(o, tx[o], r, chan[s], chan[o], reqdone[s], Struck, Here(s))
  BY <1>2 DEF Delivery, Direction
<1>8. Receive(s) BY DEF Receive
<1>9. b.type \in Forth BY <1>1 DEF Forth
<1>10. rx'[o] = rx[o] /\ reqdone'[o] = reqdone[o]
  BY <1>1, <1>2
<1>11. ASSUME Fewer(chan[s], chan'[s], Back),
              Dir(o, tx[o], w, chan'[s], chan'[o], e, Struck, Here(s))
       PROVE  Delivery'
  <2> HIDE DEF e
  <2>1. Dir(o, tx[o], rx'[s], chan'[s], chan'[o], reqdone'[s], Struck, Here(s)')
    BY <1>1, <1>6, <1>11
  <2> QED BY <1>1, <1>2, <1>4, <1>5, <1>6, <1>8, <1>10, <1>11, <2>1, SameHalves, ReceiverSide
<1>12. e = IF h = None THEN Made(Peer(o), r, reqdone[s]) ELSE reqdone[s]
  BY <1>2
<1> HIDE DEF o, b, h, r, w, e
<1>13. CASE h = None /\ More(s, e) /\ Reply(s, Freq(e + 1)) /\ w.state = r.state /\ ~w.started
  <2> DEFINE z == Freq(e + 1)
  <2>1. z \in Packet BY <1>3 DEF Freq, Packet, PktTypes
  <2>2. Reply(s, z) BY <1>13
  <2> HIDE DEF z
  <2>3. /\ Fewer(chan[s], chan'[s], Back) /\ First(chan[s], b, chan'[s], Forth)
        /\ Adds(chan[o], chan'[o], z, Back)
    BY <1>1, <1>9, <2>1, <2>2, ReplyLines DEF o, b
  <2>4. e = Made(Peer(o), r, reqdone[s]) /\ More(Peer(o), e) /\ w.file = None
    BY <1>1, <1>2, <1>12, <1>13
  <2>5. Heeds(r, b.file) = None BY <1>13 DEF h
  <2>6. Adds(chan[o], chan'[o], Freq(e + 1), Back) BY <2>3 DEF z
  <2>7. Len(Requests[Peer(o)]) \in Nat BY <1>2, <1>3
  <2>8. Dir(o, tx[o], w, chan'[s], chan'[o], e, Struck, Here(s))
    BY <1>1, <1>2, <1>3, <1>7, <1>13, <2>3, <2>4, <2>5, <2>6, <2>7, AskDir
  <2> QED BY <1>11, <2>3, <2>8
<1>14. ASSUME NEW pos \in Int, NEW leaving,
              h = None => ~More(s, e),
              ~w.attempting /\ (w.started <=> r.started \/ r.attempting),
              LeaveOrStay(s, [chan EXCEPT ![s] = Tail(@),
                                ![Peer(s)] = Append(@, Fnack(f, pos))], leaving),
              pos # -1 => w.state = (IF h = None THEN "RDONE" ELSE "RRCVBLK")
       PROVE  Delivery'
  <2> DEFINE z == Fnack(f, pos)
             q == [chan EXCEPT ![s] = Tail(@), ![Peer(s)] = Append(@, z)]
  <2>1. z \in Packet /\ z.type = "FNACK" /\ z.file = b.file /\ z.pos = pos
    <3>1. f \in Files \cup {None} BY <1>1
    <3>2. f = b.file OBVIOUS
    <3> HIDE DEF f
    <3> QED BY <3>1, <3>2 DEF Fnack, Packet, PktTypes
  <2>2. LeaveOrStay(s, q, leaving) BY <1>14
  <2> HIDE DEF z
  <2>3. /\ q \in [Stations -> Seq(Packet)]
        /\ q[s] = Tail(chan[s]) /\ q[Peer(s)] = Append(chan[Peer(s)], z)
    BY <1>1, <2>1, ReplyLine
  <2> HIDE DEF q
  <2>4. chan'[s] = Tail(chan[s]) /\ Fewer(Append(chan[o], z), chan'[o], Back)
    BY <2>2, <2>3, LeaveLines DEF o
  <2>5. chan[s] \in Seq(Packet) /\ chan[o] \in Seq(Packet)
    BY HalfTypes DEF o
  <2>6. /\ Fewer(chan[s], chan'[s], Back) /\ First(chan[s], b, chan'[s], Forth)
    BY <1>1, <1>9, <2>4, <2>5, LineRead DEF b
  <2>7. Adds(chan[o], chan'[o], z, Back)
    BY <2>1, <2>4, <2>5, LineSent, AddsFewer
  <2>8. z \in In(chan'[o], Back)
    <3>1. q[o] = Append(chan[o], z) BY <2>3 DEF o
    <3>2. Pkt("HALT") \in Packet BY DEF Pkt, Packet, PktTypes
    <3>3. z.type \in Back BY <2>1 DEF Back
    <3>4. q[o] \in Seq(Packet) /\ z \in In(q[o], Back)
      BY <1>2, <2>1, <2>3, <2>5, <3>1, <3>3, LastOnLine
    <3>5. chan' = q \/ chan' = [q EXCEPT ![o] = Append(@, Pkt("HALT"))]
      BY <2>2 DEF LeaveOrStay, o
    <3>6. chan'[o] = q[o] \/ chan'[o] = Append(q[o], Pkt("HALT"))
      BY <1>2, <2>3, <3>5
    <3> QED BY <3>2, <3>4, <3>6, LastOnLine
  <2>9. pos # -1
    BY <1>2, <2>1, <2>8 DEF NoRefusal
  <2>10. w.state = (IF h = None THEN "RDONE" ELSE "RRCVBLK")
    BY <1>14, <2>9
  <2>11. /\ Len(Requests[Peer(o)]) \in Nat /\ h = Heeds(r, b.file) /\ w.file = h
         /\ h = None => ~More(Peer(o), e)
         /\ w.started => r.started \/ r.attempting
         /\ ~w.attempting
    BY <1>1, <1>2, <1>3, <1>14 DEF h
  <2>12. Dir(o, tx[o], w, chan'[s], chan'[o], e, Struck, Here(s))
    BY <1>1, <1>2, <1>3, <1>7, <1>12, <2>1, <2>6, <2>7, <2>10, <2>11, AnswerDir
  <2> QED BY <1>11, <2>6, <2>12
<1> QED BY <1>1, <1>13, <1>14

-----------------------------------------------------------------------------
(* The transmitter's steps *)

\* What s receives is left alone, and its own direction is in order.
LEMMA TransmitterSide ==
  ASSUME TypeOK, Delivery, NEW s \in Stations, Receive(s),
         UNCHANGED <<rx, got, reqdone>>, tx'[Peer(s)] = tx[Peer(s)],
         Fewer(chan[Peer(s)], chan'[Peer(s)], Back), Struck \subseteq Struck',
         Dir(s, tx'[s], rx[Peer(s)], chan'[Peer(s)], chan'[s], reqdone[Peer(s)],
             Struck', Here(Peer(s)))
  PROVE  Delivery'
<1>1. Peer(s) \in Stations /\ Peer(Peer(s)) = s
  BY HalfTypes
<1>2. Here(s)' = Here(s) /\ Here(Peer(s))' = Here(Peer(s))
  BY DEF Here, Arrived
<1>3. Fewer(chan[s], chan'[s], Forth)
  BY ReceiveForth
<1>4. Direction(s)'
  BY <1>2 DEF Direction
<1> DEFINE o == Peer(s)
<1>5. /\ SameTx(tx[o], tx'[o]) /\ SameRx(rx[Peer(o)], rx'[Peer(o)])
      /\ Fewer(chan[Peer(o)], chan'[Peer(o)], Forth) /\ Fewer(chan[o], chan'[o], Back)
      /\ reqdone'[Peer(o)] = reqdone[Peer(o)] /\ Here(Peer(o)) \subseteq Here(Peer(o))'
      /\ o \in Stations
  BY <1>1, <1>2, <1>3, SameHalves
<1> HIDE DEF o
<1>6. Direction(o)'
  BY <1>5, Unmoved
<1> QED BY <1>4, <1>6, BothDirections DEF o

\* A packet is read, and changes nothing.
LEMMA Heeded ==
  ASSUME TypeOK, Delivery, NEW s \in Stations, LosesOnly,
         NEW u, SameTx(tx[s], u), tx' = [tx EXCEPT ![s] = u],
         UNCHANGED <<rx, got, reqdone, marked, removed>>
  PROVE  Delivery'
<1>1. tx \in [Stations -> TxType] BY DEF TypeOK
<1>2. \A v \in Stations : SameTx(tx[v], tx'[v])
  BY <1>1, SameHalves
<1> QED BY <1>2, SameHalves, Neutral DEF LosesOnly

\* Reading a packet leaves the rest of the line.
LEMMA ConsumeLoses ==
  ASSUME TypeOK, NEW s \in Stations, chan[s] # <<>>, Consume(s)
  PROVE  LosesOnly
BY ConsumeLines, FewerSame, HalfTypes DEF LosesOnly

\* "Go to this position" and the answer to HALT.
LEMMA RposKeeps ==
  ASSUME TypeOK, NEW s \in Stations, RecvRpos(s) \/ RecvHaltAck(s)
  PROVE  /\ LosesOnly /\ UNCHANGED <<rx, got, reqdone, marked, removed>>
         /\ \E u : SameTx(tx[s], u) /\ tx' = [tx EXCEPT ![s] = u]
<1>1. tx[s] \in TxRecord /\ tx[s] \in TxType BY HalfTypes
<1>2. UNCHANGED <<rx, got, reqdone, marked, removed>>
  BY DEF RecvRpos, RecvHaltAck, disk
<1>3. LosesOnly
  BY RposLoses, ConsumeLoses DEF RecvHaltAck, Receives
<1>4. CASE tx' = [tx EXCEPT ![s] = Heard(tx[s])]
  BY <1>1, <1>2, <1>3, <1>4, SameHalves
<1>5. CASE RecvRpos(s) /\ tx[s].state \in {"XSENDBLK", "XRCVEOFACK"}
  <2>1. CASE tx' = [tx EXCEPT ![s] = Heard(tx[s])]
    BY <1>4, <2>1
  <2>2. CASE tx' # [tx EXCEPT ![s] = Heard(tx[s])]
    <3> DEFINE p == Head(chan[s])
               u == [Heard(tx[s]) EXCEPT !.state = "XSENDBLK", !.rpostime = p.arg,
                       !.retry = FALSE, !.pos = p.pos, !.last = p.pos]
    <3>1. tx' = [tx EXCEPT ![s] = u] BY <1>5, <2>2 DEF RecvRpos
    <3>2. SameTx(tx[s], u)
      <4> HIDE DEF p
      <4> QED BY <1>1, <1>5 DEF Heard, TxRecord, SameTx, Names, Sends, Denies
    <3> HIDE DEF u
    <3> QED BY <1>2, <1>3, <3>1, <3>2
  <2> QED BY <2>1, <2>2
<1>6. tx' = [tx EXCEPT ![s] = Heard(tx[s])] \/ (RecvRpos(s) /\ tx[s].state \in {"XSENDBLK", "XRCVEOFACK"})
  <2>1. CASE RecvHaltAck(s) BY <2>1 DEF RecvHaltAck
  <2>2. CASE RecvRpos(s)
    BY <1>1, <2>2, HeardType DEF RecvRpos
  <2> QED BY <2>1, <2>2
<1> QED BY <1>4, <1>5, <1>6

\* "Go to this position" does not change the file.
LEMMA DeliveryRpos ==
  ASSUME TypeOK, Delivery, NEW s \in Stations, RecvRpos(s) \/ RecvHaltAck(s)
  PROVE  Delivery'
BY RposKeeps, Heeded

\* The position to start at, or "no more" understood.
LEMMA FnackLoses ==
  ASSUME TypeOK, NEW s \in Stations, RecvFnack(s)
  PROVE  LosesOnly /\ chan'[s] = Tail(chan[s])
<1> DEFINE o == Peer(s)
           q == [chan EXCEPT ![s] = Tail(@)]
<1>1. chan[s] # <<>>
  BY DEF RecvFnack, Receives
<1>2. chan[s] \in Seq(Packet) /\ \A u \in Stations : u = s \/ u = o
  BY HalfTypes
<1>3. /\ q \in [Stations -> Seq(Packet)]
      /\ q[s] = Tail(chan[s]) /\ q[o] = chan[o]
  BY <1>1, ReadLine
<1>4. PICK leaving : LeaveOrStay(s, q, leaving)
  BY DEF RecvFnack
<1> HIDE DEF q
<1>5. /\ chan'[s] = Tail(chan[s])
      /\ \A T \in {Forth, Back} : Fewer(chan[o], chan'[o], T)
  BY <1>3, <1>4, LeaveLines
<1>6. \A T : Fewer(chan[s], Tail(chan[s]), T) BY <1>1, <1>2, LineRead
<1> QED BY <1>2, <1>5, <1>6 DEF LosesOnly

\* The answer to a name is about that name: the file may be sent, or all is done.
LEMMA DeliveryFnack ==
  ASSUME TypeOK, NoRefusal, Delivery, NEW s \in Stations, RecvFnack(s)
  PROVE  Delivery'
<1> DEFINE o == Peer(s)
           x == Head(chan[s])
           t == tx[s]
           r == rx[o]
<1>1. chan[s] # <<>> /\ x.type = "FNACK" /\ UNCHANGED <<rx, got, reqdone>>
  BY DEF RecvFnack, Receives
<1>2. t \in TxRecord /\ t \in TxType /\ chan[s] \in Seq(Packet) /\ chan[o] \in Seq(Packet) /\ Shapes(t, r)
  BY HalfTypes
<1>3. o \in Stations /\ o # s /\ Peer(o) = s
  BY HalfTypes
<1>4. First(chan[s], x, Tail(chan[s]), Back)
  <2> HIDE DEF x
  <2>1. x.type \in Back BY <1>1 DEF Back
  <2> QED BY <1>1, <1>2, <2>1, LineRead DEF x
<1>5. x.pos # -1
  BY <1>1, <1>4 DEF NoRefusal, First
<1>6. /\ Heard(t).state = t.state /\ Heard(t).file = t.file /\ Heard(t) \in TxRecord
      /\ SameTx(t, Heard(t))
  BY <1>2, HeardType, SameHalves DEF TxType
<1>7. LosesOnly BY FnackLoses
<1>8. /\ chan'[s] = Tail(chan[s])
      /\ \A T \in {Forth, Back} : Fewer(chan[o], chan'[o], T)
  BY <1>3, <1>7, FnackLoses DEF LosesOnly
<1>9. Dir(s, t, r, chan[o], chan[s], reqdone[o], Struck, Here(o))
  BY DEF Delivery, Direction
<1>10. Receive(s) BY DEF Receive
<1>11. ASSUME NEW u, tx' = [tx EXCEPT ![s] = u], UNCHANGED <<marked, removed>>,
              Dir(s, u, r, chan'[o], Tail(chan[s]), reqdone[o], Struck, Here(o))
       PROVE  Delivery'
  <2>1. tx'[s] = u /\ tx'[o] = tx[o] BY <1>3, <1>11 DEF TypeOK
  <2>2. Struck' = Struck BY <1>11 DEF Struck
  <2> QED BY <1>1, <1>8, <1>10, <1>11, <2>1, <2>2, TransmitterSide
<1> DEFINE h == Heard(t)
<1>12. CASE t.state # "XRCVFNACK"
  <2>1. tx' = [tx EXCEPT ![s] = h] /\ UNCHANGED <<marked, removed>>
    BY <1>6, <1>12 DEF RecvFnack
  <2> QED BY <1>1, <1>6, <1>7, <2>1, Heeded
<1>13. CASE t.state = "XRCVFNACK" /\ t.file = None
  <2> DEFINE u == [h EXCEPT !.state = "XDONE", !.retry = FALSE]
  <2>1. tx' = [tx EXCEPT ![s] = u] /\ UNCHANGED <<marked, removed>>
    BY <1>6, <1>13 DEF RecvFnack
  <2>2. u.state = "XDONE" /\ u.file = t.file /\ u.sendreq = t.sendreq
    <3>1. h.sendreq = t.sendreq BY <1>6 DEF SameTx
    <3> HIDE DEF h
    <3> QED BY <1>6, <3>1 DEF TxRecord, h
  <2>3. Names(t) BY <1>13 DEF Names
  <2> HIDE DEF u, h, t, r, x, o
  <2>4. Dir(s, u, r, chan'[o], Tail(chan[s]), reqdone[o], Struck, Here(o))
    BY <1>1, <1>2, <1>4, <1>8, <1>9, <1>13, <2>2, <2>3, DoneDir
  <2> QED BY <1>11, <2>1, <2>4
<1>14. CASE t.state = "XRCVFNACK" /\ t.file # None
  <2> DEFINE u == [h EXCEPT !.state = "XSENDBLK", !.pos = x.pos, !.retry = FALSE]
  <2>1. tx' = [tx EXCEPT ![s] = u] /\ UNCHANGED <<marked, removed>>
    BY <1>5, <1>6, <1>14 DEF RecvFnack
  <2>2. /\ u.state = "XSENDBLK" /\ u.file = t.file /\ u.idx = t.idx /\ u.doafter = t.doafter
        /\ u.sendreq = t.sendreq /\ u.reqtmp = t.reqtmp
    <3>1. /\ h.sendreq = t.sendreq /\ h.idx = t.idx /\ h.doafter = t.doafter
          /\ h.reqtmp = t.reqtmp
      BY <1>6 DEF SameTx
    <3> HIDE DEF h, t, x
    <3> QED BY <1>6, <3>1 DEF TxRecord, h
  <2>3. Names(t) BY <1>14 DEF Names
  <2> HIDE DEF u, h, t, r, x, o
  <2>4. Dir(s, u, r, chan'[o], Tail(chan[s]), reqdone[o], Struck, Here(o))
    BY <1>1, <1>2, <1>4, <1>8, <1>9, <1>14, <2>2, <2>3, GoDir
  <2> QED BY <1>11, <2>1, <2>4
<1> QED BY <1>12, <1>13, <1>14

\* A file request, answered, or answered before.
LEMMA DeliveryFreq ==
  ASSUME MaxRequests = 0, TypeOK, Delivery, NEW s \in Stations, RecvFreq(s)
  PROVE  Delivery'
<1> DEFINE o   == Peer(s)
           x   == Head(chan[s])
           t   == tx[s]
           r   == rx[o]
           h   == Heard(t)
           ans == Answer[Requests[o][x.arg]]
           st  == IF ans = <<>> THEN "XSENDFREQNAK" ELSE "XSENDFNAME"
           u   == [Serve(h, ans) EXCEPT !.state = st, !.reqlim = h.reqlim, !.retry = FALSE]
<1>1. chan[s] # <<>> /\ x.type = "FREQ" /\ Consume(s)
      /\ UNCHANGED <<rx, got, reqdone, marked, removed>>
  BY DEF RecvFreq, Receives, disk
<1>2. t \in TxRecord /\ t \in TxType /\ chan[s] \in Seq(Packet) /\ Shapes(t, r)
  BY HalfTypes
<1>3. o \in Stations /\ o # s /\ Peer(o) = s
  BY HalfTypes
<1>4. ans \in Seq(Files)
  BY AnswerType
<1>5. h.state = t.state /\ h \in TxRecord /\ h \in TxType /\ SameTx(t, h)
  BY <1>2, HeardType, SameHalves DEF TxType
<1>6. tx' = [tx EXCEPT ![s] = IF h.state # "XRCVFNACK" THEN h ELSE u]
  <2> HIDE DEF h, ans
  <2> QED BY DEF RecvFreq, h, ans
<1>7. LosesOnly BY <1>1, ConsumeLoses
<1>8. CASE t.state # "XRCVFNACK"
  <2>1. tx' = [tx EXCEPT ![s] = h] BY <1>5, <1>6, <1>8
  <2> QED BY <1>1, <1>5, <1>7, <2>1, Heeded
<1>9. CASE t.state = "XRCVFNACK"
  <2>1. tx' = [tx EXCEPT ![s] = u] BY <1>5, <1>6, <1>9
  <2>2. Dir(s, t, r, chan[o], chan[s], reqdone[o], Struck, Here(o))
    BY DEF Delivery, Direction
  <2>3. Names(t) BY <1>9 DEF Names
  <2> HIDE DEF x, t, o, r
  <2>4. First(chan[s], x, Tail(chan[s]), Back)
    <3>1. x.type \in Back BY <1>1 DEF Back
    <3> QED BY <1>1, <1>2, <3>1, LineRead DEF x
  <2>5. /\ u.state = st /\ u.sendreq = (ans # <<>>) /\ u.reqtmp = ans
        /\ u.file = (IF ans = <<>> THEN None ELSE Head(ans))
        /\ u.idx = t.idx /\ u.doafter = t.doafter
    <3> DEFINE w == Serve(h, ans)
    <3>1. h.idx = t.idx /\ h.doafter = t.doafter BY <1>5 DEF SameTx
    <3> HIDE DEF h, ans, st
    <3>2. w \in TxRecord BY <1>4, <1>5, ServeType DEF TxParts
    <3>3. /\ w.sendreq = (ans # <<>>) /\ w.reqtmp = ans
          /\ w.file = (IF ans = <<>> THEN None ELSE Head(ans))
          /\ w.idx = h.idx /\ w.doafter = h.doafter
      BY <1>5 DEF TxRecord, Serve
    <3> HIDE DEF w
    <3>4. /\ u.state = st /\ u.sendreq = w.sendreq /\ u.reqtmp = w.reqtmp /\ u.file = w.file
          /\ u.idx = w.idx /\ u.doafter = w.doafter
      BY <3>2 DEF TxRecord, w
    <3> QED BY <3>1, <3>3, <3>4
  <2> HIDE DEF u, h
  <2>6. CASE t.file = None
    <3>1. ans = Answer[Requests[Peer(s)][x.arg]] BY DEF o
    <3> HIDE DEF ans
    <3>2. Dir(s, u, r, chan[o], Tail(chan[s]), reqdone[o], Struck, Here(o))
      BY <1>1, <1>2, <1>4, <2>2, <2>3, <2>4, <2>5, <2>6, <3>1, ServeDir
    <3>3. tx'[s] = u /\ tx'[o] = tx[o] /\ chan'[o] = chan[o] /\ chan'[s] = Tail(chan[s])
      BY <1>1, <1>3, <2>1, HalfTypes DEF TypeOK, Consume, Lines
    <3>4. Struck' = Struck BY <1>1 DEF Struck
    <3>5. Receive(s) BY DEF Receive
    <3> QED BY <1>1, <3>2, <3>3, <3>4, <3>5, FewerSame, TransmitterSide DEF o, r
  <2>7. CASE t.file # None
    <3>1. x \in In(chan[s], Back) BY <2>4 DEF First
    <3>2. t.sendreq /\ t.reqtmp = ans /\ t.file = Head(t.reqtmp)
      <4>1. ans = Answer[Requests[Peer(s)][x.arg]] BY DEF o
      <4> HIDE DEF ans
      <4> QED BY <1>1, <2>2, <2>3, <2>7, <3>1, <4>1, SameRequest
    <3>3. ans # <<>> /\ t.sendreq = TRUE
      <4> HIDE DEF ans
      <4>1. t.reqtmp # <<>> BY <1>2, <3>2 DEF TxType
      <4>2. t.sendreq \in BOOLEAN BY <1>2 DEF TxRecord
      <4> QED BY <3>2, <4>1, <4>2
    <3> HIDE DEF ans
    <3>4. SameTx(t, u)
      BY <1>9, <2>5, <3>2, <3>3 DEF SameTx, Names, Sends, Denies
    <3> QED BY <1>1, <1>7, <2>1, <3>4, Heeded DEF t
  <2> QED BY <2>6, <2>7
<1> QED BY <1>8, <1>9

\* What the scan offers.
Offers(s, v) == [FirstOf(s, v, v.idx) EXCEPT !.state = "XSENDFNAME", !.retry = FALSE]

\* The fields of what is offered.
LEMMA OfferFields ==
  ASSUME NEW s \in Stations, NEW v, TxParts(v)
  PROVE  LET f == FirstOf(s, v, v.idx)
             u == Offers(s, v)
         IN  /\ u.state = "XSENDFNAME" /\ u.file = f.file /\ u.idx = f.idx
             /\ u.doafter = f.doafter /\ u.sendreq = v.sendreq /\ u.reqtmp = v.reqtmp
<1> DEFINE f == FirstOf(s, v, v.idx)
           u == Offers(s, v)
<1>1. f \in TxRecord BY FirstOfType
<1>2. f.sendreq = v.sendreq /\ f.reqtmp = v.reqtmp
  BY DEF FirstOf, TxParts, TxRecord
<1>3. u = [f EXCEPT !.state = "XSENDFNAME", !.retry = FALSE] BY DEF Offers
<1> HIDE DEF f, u
<1>4. /\ u.state = "XSENDFNAME" /\ u.file = f.file /\ u.idx = f.idx
      /\ u.doafter = f.doafter /\ u.sendreq = f.sendreq /\ u.reqtmp = f.reqtmp
  BY <1>1, <1>3 DEF TxRecord
<1> QED BY <1>2, <1>4 DEF f, u

\* The denial is understood.
LEMMA DeliveryFrnakAck ==
  ASSUME TypeOK, Delivery, NEW s \in Stations, RecvFrnakAck(s)
  PROVE  Delivery'
<1> DEFINE o == Peer(s)
           x == Head(chan[s])
           t == tx[s]
           r == rx[o]
           h == Heard(t)
           u == Offers(s, h)
<1>1. chan[s] # <<>> /\ x.type = "FRNAKACK" /\ Consume(s) /\ UNCHANGED <<rx, got, reqdone>>
  BY DEF RecvFrnakAck, Receives
<1>2. t \in TxRecord /\ t \in TxType /\ chan[s] \in Seq(Packet)
  BY HalfTypes
<1>3. o \in Stations /\ o # s /\ Peer(o) = s
  BY HalfTypes
<1>4. h.state = t.state /\ h.file = t.file /\ h.sendreq = t.sendreq /\ h \in TxRecord
      /\ TxParts(h) /\ SameTx(t, h)
  BY <1>2, HeardType, SameHalves DEF TxType, TxParts
<1>5. LosesOnly BY <1>1, ConsumeLoses
<1>6. CASE t.state # "XRCVFRNAKACK"
  <2>1. tx' = [tx EXCEPT ![s] = h] /\ UNCHANGED <<marked, removed>>
    BY <1>4, <1>6 DEF RecvFrnakAck
  <2> QED BY <1>1, <1>4, <1>5, <2>1, Heeded
<1>7. CASE t.state = "XRCVFRNAKACK"
  <2>1. tx' = [tx EXCEPT ![s] = u] /\ CleanUp(h)
    BY <1>4, <1>7 DEF RecvFrnakAck, Offers
  <2>2. Dir(s, t, r, chan[o], chan[s], reqdone[o], Struck, Here(o))
    BY DEF Delivery, Direction
  <2>3. Denies(t) BY <1>7 DEF Denies
  <2> HIDE DEF x, t, o, r, h
  <2>4. t.file = None /\ ~t.sendreq /\ AllHere(Outbound[s], Struck)
    BY <2>2, <2>3 DEF Dir, DenyingInv, ScanInv
  <2>5. u.state = "XSENDFNAME" /\ u.file = None /\ ~u.sendreq
    <3>1. h.idx \in Nat BY <1>4 DEF TxRecord
    <3>2. FirstOf(s, h, h.idx).file = None BY <1>4, <2>4, <3>1, ScanOver
    <3> QED BY <1>4, <2>4, <3>2, OfferFields
  <2>6. Struck' = Struck
    BY <1>4, <2>1, <2>4 DEF CleanUp, Struck
  <2>7. First(chan[s], x, Tail(chan[s]), Back)
    <3>1. x.type \in Back BY <1>1 DEF Back
    <3> QED BY <1>1, <1>2, <3>1, LineRead DEF x
  <2> HIDE DEF u
  <2>8. Dir(s, u, r, chan[o], Tail(chan[s]), reqdone[o], Struck, Here(o))
    BY <1>1, <2>2, <2>3, <2>5, <2>7, DenialOver
  <2>9. tx'[s] = u /\ tx'[o] = tx[o] /\ chan'[o] = chan[o] /\ chan'[s] = Tail(chan[s])
    BY <1>1, <1>3, <2>1, HalfTypes DEF TypeOK, Consume, Lines
  <2>10. Receive(s) BY DEF Receive
  <2> QED BY <1>1, <2>6, <2>8, <2>9, <2>10, FewerSame, TransmitterSide DEF o, r
<1> QED BY <1>6, <1>7

\* The next of the files asked for, or the null name after the last one.
LEMMA NextAsked ==
  ASSUME NEW s, NEW t, NEW r, NEW c, NEW b, NEW d, NEW S, NEW A, Dir(s, t, r, c, b, d, S, A),
         Sends(t), t.sendreq, t.file \in A, r.state = "RRCVFNAME", t.file # None,
         t.reqtmp \in Seq(Files), t.reqtmp # <<>>,
         NEW u, u.state = "XSENDFNAME",
         Tail(t.reqtmp) # <<>> => /\ u.sendreq /\ u.reqtmp = Tail(t.reqtmp)
                                  /\ u.file = Head(Tail(t.reqtmp)),
         Tail(t.reqtmp) = <<>> => ~u.sendreq /\ u.file = None
  PROVE  ScanInv(s, u, r, S) /\ RequestInv(Peer(s), u, r, In(c, Forth), d, A)
<1> DEFINE q == t.reqtmp
           p == Peer(s)
           a == Ans(p, d)
           F == In(c, Forth)
<1>1. AllHere(Outbound[s], S)
  BY DEF Dir, ScanInv
<1>2. /\ t.file = Head(q) /\ More(p, d)
      /\ \A k \in DOMAIN a : a[k] \in A \/ \E m \in DOMAIN q : q[m] = a[k]
  BY DEF Dir, RequestInv
<1>3. /\ Len(q) \in Nat /\ Len(q) > 0 /\ DOMAIN q = 1 .. Len(q) /\ Head(q) = q[1]
      /\ Tail(q) \in Seq(Files) /\ Len(Tail(q)) = Len(q) - 1
      /\ \A i \in 1 .. Len(q) - 1 : Tail(q)[i] = q[i + 1]
  BY LenProperties, HeadTailProperties, EmptySeq
<1>4. DOMAIN Tail(q) = 1 .. Len(q) - 1
  BY <1>3, LenProperties
<1> HIDE DEF q, a, p, F
<1>5. \A k \in DOMAIN a : a[k] \in A \/ \E m \in DOMAIN Tail(q) : Tail(q)[m] = a[k]
  <2> SUFFICES ASSUME NEW k \in DOMAIN a, NEW m \in DOMAIN q, q[m] = a[k], a[k] \notin A
               PROVE  \E n \in DOMAIN Tail(q) : Tail(q)[n] = a[k]
    BY <1>2
  <2>1. m # 1 BY <1>2, <1>3
  <2>2. m - 1 \in 1 .. Len(q) - 1 /\ (m - 1) + 1 = m BY <1>3, <2>1
  <2>3. Tail(q)[m - 1] = q[m] BY <1>3, <2>2
  <2> QED BY <1>4, <2>2, <2>3
<1>6. CASE Tail(q) # <<>>
  <2>1. u.sendreq /\ u.reqtmp = Tail(q) /\ u.file = Head(Tail(q))
    BY <1>6 DEF q
  <2>2. Head(Tail(q)) \in Files
    BY <1>3, <1>6, HeadTailProperties
  <2>3. u.file # None BY <2>1, <2>2, FilesAssumption
  <2>4. ScanInv(s, u, r, S) BY <1>1, <2>1 DEF ScanInv
  <2>5. RequestInv(p, u, r, F, d, A)
    BY <1>2, <1>5, <2>1, <2>3 DEF RequestInv, a
  <2> QED BY <2>4, <2>5 DEF p, F
<1>7. CASE Tail(q) = <<>>
  <2>1. ~u.sendreq /\ u.file = None BY <1>7 DEF q
  <2>2. DOMAIN Tail(q) = {} BY <1>3, <1>4, <1>7, EmptySeq
  <2>3. AllHere(a, A) BY <1>5, <2>2 DEF AllHere
  <2>4. ScanInv(s, u, r, S) BY <1>1, <2>1 DEF ScanInv
  <2>5. RequestInv(p, u, r, F, d, A)
    BY <2>1, <2>3 DEF RequestInv, a
  <2> QED BY <2>4, <2>5 DEF p, F
<1> QED BY <1>6, <1>7

\* The next entry of the outbound, once the last one is struck off.
LEMMA NextScanned ==
  ASSUME NEW s \in Stations, NEW t \in TxRecord, NEW r, NEW c, NEW b, NEW d, NEW A,
         Dir(s, t, r, c, b, d, Struck, A),
         Sends(t), ~t.sendreq, r.state = "RRCVFNAME", t.file # None,
         NEW S1, Struck \subseteq S1, t.file \in S1,
         NEW u, u.state = "XSENDFNAME", u.file = FirstOf(s, t, t.idx).file,
         u.idx = FirstOf(s, t, t.idx).idx, u.doafter = FirstOf(s, t, t.idx).doafter, ~u.sendreq
  PROVE  ScanInv(s, u, r, S1) /\ RequestInv(Peer(s), u, r, In(c, Forth), d, A)
<1>1. /\ t.idx \in DOMAIN Outbound[s] /\ t.file = Outbound[s][t.idx]
      /\ \A j \in DOMAIN Outbound[s] : j < t.idx => Outbound[s][j] \in Struck
      /\ ~r.started /\ ~r.attempting
  BY DEF Dir, ScanInv
<1>2. SendingInv(t, r, In(c, Forth), Pairs(c, Forth), In(b, Back), Pairs(b, Back), A)
  BY DEF Dir
<1> DEFINE i == t.idx
<1>3. i \in Nat BY DEF TxRecord
<1>4. DOMAIN Outbound[s] \subseteq Nat
  <2>1. Outbound[s] \in Seq(Files) BY FilesAssumption
  <2> QED BY <2>1, LenProperties
<1>5. \A j \in DOMAIN Outbound[s] : j <= i => Outbound[s][j] \in S1
  BY <1>1, <1>3, <1>4
<1>6. u.file = FirstOf(s, t, i).file /\ u.idx = FirstOf(s, t, i).idx
      /\ u.doafter = FirstOf(s, t, i).doafter
  OBVIOUS
<1> HIDE DEF i
<1>7. ScanInv(s, u, r, S1)
  BY <1>1, <1>3, <1>5, <1>6, ScanOn
<1>8. RequestInv(Peer(s), u, r, In(c, Forth), d, A)
  BY <1>1, <1>2 DEF RequestInv, SendingInv
<1> QED BY <1>7, <1>8

\* The file has arrived: the only step that strikes anything off.
LEMMA EndStrikes ==
  ASSUME TypeOK, Delivery, NEW s \in Stations, RecvEofAck(s)
  PROVE  /\ Delivery'
         /\ Struck \subseteq Struck'
         /\ \A f \in Struck' \ Struck : /\ f = tx[s].file /\ f \in ToSend(s)
                                        /\ f \in Here(Peer(s))
<1> DEFINE o == Peer(s)
           x == Head(chan[s])
           t == tx[s]
           r == rx[o]
           h == Heard(t)
           Strikes == /\ Struck \subseteq Struck'
                      /\ \A f \in Struck' \ Struck : f = t.file /\ f \in ToSend(s) /\ f \in Here(o)
<1>1. chan[s] # <<>> /\ x.type = "EOFACK" /\ Consume(s) /\ UNCHANGED <<rx, got, reqdone>>
  BY DEF RecvEofAck, Receives
<1>2. t \in TxRecord /\ t \in TxType /\ chan[s] \in Seq(Packet) /\ Shapes(t, r)
  BY HalfTypes
<1>3. o \in Stations /\ o # s /\ Peer(o) = s
  BY HalfTypes
<1>4. /\ h.state = t.state /\ h.file = t.file /\ h.sendreq = t.sendreq /\ h \in TxRecord
      /\ h \in TxType /\ TxParts(h) /\ SameTx(t, h)
  BY <1>2, HeardType, SameHalves DEF TxType, TxParts
<1>5. h.idx = t.idx /\ h.doafter = t.doafter /\ h.reqtmp = t.reqtmp
  BY <1>4 DEF SameTx
<1>6. LosesOnly BY <1>1, ConsumeLoses
<1>7. CASE t.state \notin {"XRCVEOFACK", "XRCVFNACK"}
  <2>1. tx' = [tx EXCEPT ![s] = h] /\ UNCHANGED <<marked, removed>>
    BY <1>4, <1>7 DEF RecvEofAck
  <2>2. Strikes BY <2>1 DEF Struck
  <2> QED BY <1>1, <1>4, <1>6, <2>1, <2>2, Heeded
<1>8. CASE t.state = "XRCVFNACK"
  <2> DEFINE u == [h EXCEPT !.state = "XSENDFNAME", !.retry = FALSE]
  <2>1. tx' = [tx EXCEPT ![s] = u] /\ UNCHANGED <<marked, removed>>
    BY <1>4, <1>8 DEF RecvEofAck
  <2>2. SameTx(t, u)
    <3> HIDE DEF h
    <3>1. /\ u.state = "XSENDFNAME" /\ u.file = h.file /\ u.idx = h.idx /\ u.doafter = h.doafter
          /\ u.sendreq = h.sendreq /\ u.reqtmp = h.reqtmp
      BY <1>4 DEF TxRecord
    <3> HIDE DEF u
    <3> QED BY <1>4, <1>5, <1>8, <3>1 DEF SameTx, Names, Sends, Denies
  <2>3. Strikes BY <2>1 DEF Struck
  <2> HIDE DEF u
  <2> QED BY <1>1, <1>6, <2>1, <2>2, <2>3, Heeded
<1>9. CASE t.state = "XRCVEOFACK"
  <2>1. NextFile(s, h) BY <1>4, <1>9 DEF RecvEofAck
  <2>2. Dir(s, t, r, chan[o], chan[s], reqdone[o], Struck, Here(o))
    BY DEF Delivery, Direction
  <2>3. Sends(t) BY <1>9 DEF Sends
  <2> HIDE DEF x, t, o, r, h
  <2>4. First(chan[s], x, Tail(chan[s]), Back)
    <3>1. x.type \in Back BY <1>1 DEF Back
    <3> QED BY <1>1, <1>2, <3>1, LineRead DEF x
  <2>5. t.file \in Here(o) /\ r.state = "RRCVFNAME" /\ t.file # None /\ t.file \in Files
    <3>1. x \in In(chan[s], Back) BY <2>4 DEF First
    <3>2. t.file \in Files BY <1>2, <1>9 DEF TxType
    <3> QED BY <1>1, <1>2, <2>2, <2>3, <3>1, <3>2, EndedHere DEF Shapes
  <2>6. Receive(s) BY DEF Receive
  <2>7. ASSUME NEW u, tx' = [tx EXCEPT ![s] = u], u.state = "XSENDFNAME",
               ScanInv(s, u, r, Struck'), RequestInv(Peer(s), u, r, In(chan[o], Forth), reqdone[o], Here(o)),
               Struck \subseteq Struck'
        PROVE  Delivery'
    <3>1. tx'[s] = u /\ tx'[o] = tx[o] /\ chan'[o] = chan[o] /\ chan'[s] = Tail(chan[s])
      BY <1>1, <1>3, <2>7, HalfTypes DEF TypeOK, Consume, Lines
    <3>2. Dir(s, u, r, chan[o], Tail(chan[s]), reqdone[o], Struck', Here(o))
      BY <1>1, <1>2, <2>2, <2>3, <2>4, <2>7, NextNameDir
    <3> QED BY <1>1, <2>6, <2>7, <3>1, <3>2, FewerSame, TransmitterSide DEF o, r
  <2>8. CASE t.sendreq
    <3> DEFINE q == Tail(t.reqtmp)
               v == Serve(h, q)
               u == [NextRequested(s, h) EXCEPT !.state = "XSENDFNAME", !.retry = FALSE]
    <3>1. tx' = [tx EXCEPT ![s] = u] /\ UNCHANGED <<marked, removed>>
      BY <1>4, <2>1, <2>8 DEF NextFile
    <3>2. Struck' = Struck BY <3>1 DEF Struck
    <3>3. t.reqtmp \in Seq(Files) /\ t.reqtmp # <<>>
      BY <1>2, <2>8 DEF TxType, TxRecord
    <3>4. q \in Seq(Files) BY <3>3, HeadTailProperties
    <3> HIDE DEF q
    <3>5. /\ TxParts(v) /\ v \in TxRecord /\ v.idx = h.idx
          /\ v.sendreq = (q # <<>>) /\ v.reqtmp = q
          /\ v.file = (IF q = <<>> THEN None ELSE Head(q))
      <4>1. TxParts(v) /\ v.idx = h.idx BY <1>4, <3>4, ServeType
      <4>2. /\ v.sendreq = (q # <<>>) /\ v.reqtmp = q
            /\ v.file = (IF q = <<>> THEN None ELSE Head(q))
        BY <1>4 DEF TxRecord, Serve
      <4> QED BY <4>1, <4>2 DEF TxParts
    <3>6. NextRequested(s, h) = IF v.sendreq THEN v ELSE FirstOf(s, v, v.idx)
      <4>1. q = Tail(h.reqtmp) BY <1>5 DEF q
      <4> QED BY <3>5, <4>1 DEF NextRequested
    <3> HIDE DEF v
    <3>7. q # <<>> => u.state = "XSENDFNAME" /\ u.sendreq /\ u.reqtmp = q /\ u.file = Head(q)
      <4> SUFFICES ASSUME q # <<>>
                   PROVE  u.state = "XSENDFNAME" /\ u.sendreq /\ u.reqtmp = q /\ u.file = Head(q)
        OBVIOUS
      <4>1. u = [v EXCEPT !.state = "XSENDFNAME", !.retry = FALSE] BY <3>5, <3>6
      <4>2. u.state = "XSENDFNAME" /\ u.sendreq = v.sendreq /\ u.reqtmp = v.reqtmp /\ u.file = v.file
        <5> HIDE DEF u
        <5> QED BY <3>5, <4>1 DEF TxRecord
      <4> QED BY <3>5, <4>2
    <3>8. q = <<>> => u.state = "XSENDFNAME" /\ ~u.sendreq /\ u.file = None
      <4> SUFFICES ASSUME q = <<>>
                   PROVE  u.state = "XSENDFNAME" /\ ~u.sendreq /\ u.file = None
        OBVIOUS
      <4>1. u = Offers(s, v) BY <3>5, <3>6 DEF Offers
      <4>2. AllHere(Outbound[s], Struck)
        BY <2>2, <2>8 DEF Dir, ScanInv
      <4>3. v.idx \in Nat BY <3>5 DEF TxRecord
      <4>4. FirstOf(s, v, v.idx).file = None BY <3>5, <4>2, <4>3, ScanOver
      <4>5. ~v.sendreq /\ TxParts(v) BY <3>5
      <4>6. /\ Offers(s, v).state = "XSENDFNAME" /\ Offers(s, v).file = FirstOf(s, v, v.idx).file
            /\ ~Offers(s, v).sendreq
        BY <4>5, OfferFields
      <4> HIDE DEF u
      <4> QED BY <4>1, <4>4, <4>6
    <3> HIDE DEF u
    <3>9. /\ q # <<>> => u.sendreq /\ u.reqtmp = Tail(t.reqtmp) /\ u.file = Head(Tail(t.reqtmp))
          /\ u.state = "XSENDFNAME"
      BY <3>7, <3>8 DEF q
    <3>10. /\ Tail(t.reqtmp) # <<>> => /\ u.sendreq /\ u.reqtmp = Tail(t.reqtmp)
                                       /\ u.file = Head(Tail(t.reqtmp))
           /\ Tail(t.reqtmp) = <<>> => ~u.sendreq /\ u.file = None
      BY <3>8, <3>9 DEF q
    <3>11. ScanInv(s, u, r, Struck) /\ RequestInv(Peer(s), u, r, In(chan[o], Forth), reqdone[o], Here(o))
      BY <2>2, <2>3, <2>5, <2>8, <3>3, <3>9, <3>10, NextAsked
    <3>12. Delivery' BY <2>7, <3>1, <3>2, <3>9, <3>11
    <3> QED BY <3>2, <3>12
  <2>9. CASE ~t.sendreq
    <3> DEFINE u == Offers(s, h)
    <3>1. tx' = [tx EXCEPT ![s] = u] /\ CleanUp(h)
      BY <1>4, <2>1, <2>9 DEF NextFile, Offers
    <3>2. /\ u.state = "XSENDFNAME" /\ u.file = FirstOf(s, h, h.idx).file
          /\ u.idx = FirstOf(s, h, h.idx).idx /\ u.doafter = FirstOf(s, h, h.idx).doafter
          /\ ~u.sendreq
      BY <1>4, <2>9, OfferFields
    <3>3. /\ t.idx \in DOMAIN Outbound[s] /\ t.file = Outbound[s][t.idx]
          /\ t.doafter = DoAfter(t.file)
      BY <2>2, <2>5, <2>9 DEF Dir, ScanInv
    <3>4. t.idx # 0
      <4>1. Outbound[s] \in Seq(Files) BY FilesAssumption
      <4>2. DOMAIN Outbound[s] = 1 .. Len(Outbound[s]) BY <4>1, LenProperties
      <4> QED BY <3>3, <4>2
    <3>5. Struck' = Struck \cup {t.file}
      <4>1. t.file \in Packets => t.doafter = "DELETE_AFTER" BY <3>3 DEF DoAfter
      <4>2. /\ marked' \subseteq marked \cup {t.file} /\ marked \subseteq marked'
            /\ removed' \subseteq removed \cup {t.file} /\ removed \subseteq removed'
        BY <1>4, <3>1 DEF CleanUp
      <4>3. t.file \in marked' \cup removed'
        BY <1>4, <1>5, <2>5, <3>1, <3>4, <4>1 DEF CleanUp
      <4> QED BY <4>2, <4>3 DEF Struck
    <3>6. t.file \in ToSend(s) BY <3>3 DEF ToSend
    <3> HIDE DEF u
    <3>7. Dir(s, h, r, chan[o], chan[s], reqdone[o], Struck, Here(o)) /\ Sends(h) /\ ~h.sendreq
      BY <1>4, <2>2, <2>3, <2>9, FewerSame, SameHalves, DirFewer DEF SameTx
    <3>8. ScanInv(s, u, r, Struck') /\ RequestInv(Peer(s), u, r, In(chan[o], Forth), reqdone[o], Here(o))
      <4>1. h.file = t.file /\ h.file # None /\ h.file \in Struck' /\ Struck \subseteq Struck'
        BY <1>4, <2>5, <3>5
      <4> DEFINE S1 == Struck'
      <4>2. h.file \in S1 /\ Struck \subseteq S1 BY <4>1
      <4> HIDE DEF S1
      <4>3. ScanInv(s, u, r, S1) /\ RequestInv(Peer(s), u, r, In(chan[o], Forth), reqdone[o], Here(o))
        BY <1>4, <2>5, <3>2, <3>7, <4>1, <4>2, NextScanned
      <4> QED BY <4>3 DEF S1
    <3>9. Delivery' BY <2>7, <3>1, <3>2, <3>5, <3>8
    <3>10. Strikes BY <2>5, <3>5, <3>6
    <3> QED BY <3>9, <3>10 DEF t, o
  <2> QED BY <2>8, <2>9
<1> QED BY <1>7, <1>8, <1>9

-----------------------------------------------------------------------------
(* The start of a session, and every step *)

\* Janus() starts with the two ends in agreement: nothing is on the line, and
\* what the scan passes over is struck off.
LEMMA StartDir ==
  ASSUME NEW s \in Stations, NEW d, NEW A, Len(Requests[Peer(s)]) \in Nat
  PROVE  Dir(s, TxStart(s), RxStart(Peer(s)), <<>>, <<>>, d, Struck, A)
<1> DEFINE t0 == [state |-> "XSENDFNAME", file |-> None, idx |-> 0, pos |-> 0,
                  last |-> 0, retry |-> FALSE, doafter |-> "NOTHING_AFTER",
                  sendreq |-> FALSE, reqtmp |-> <<>>, reqlim |-> MaxRequests,
                  inhibit |-> FALSE, rpostime |-> 0, idle |-> 0]
           t == TxStart(s)
           r == RxStart(Peer(s))
<1>1. t0 \in TxRecord
  BY RequestsAssumption DEF TxRecord
<1>2. t = FirstOf(s, t0, 0)
  BY DEF TxStart
<1>3. t.state = "XSENDFNAME" /\ ~t.sendreq
  BY DEF TxStart, FirstOf
<1>4. r.state = "RRCVFNAME" /\ ~r.started /\ ~r.attempting
  BY DEF RxStart
<1> HIDE DEF t0, t, r
<1>5. \A T : In(<<>>, T) = {} /\ Pairs(<<>>, T) = {}
  BY DEF In, Pairs
<1>6. \A j \in DOMAIN Outbound[s] : j <= 0 => Outbound[s][j] \in Struck
  <2>1. Outbound[s] \in Seq(Files) BY FilesAssumption
  <2>2. DOMAIN Outbound[s] = 1 .. Len(Outbound[s]) BY <2>1, LenProperties
  <2> QED BY <2>2
<1>7. ScanInv(s, t, r, Struck)
  <2>1. \A S1 : Struck \subseteq S1 /\ S1 = Struck => ScanInv(s, t, r, S1)
    BY <1>1, <1>2, <1>3, <1>4, <1>6, ScanOn
  <2> QED BY <2>1
<1>8. RequestInv(Peer(s), t, r, In(<<>>, Forth), d, A)
  BY <1>3, <1>4, <1>5 DEF RequestInv
<1>9. NamingInv(Peer(s), t, r, In(<<>>, Forth), Pairs(<<>>, Forth),
                In(<<>>, Back), Pairs(<<>>, Back), d)
  BY <1>4, <1>5 DEF NamingInv
<1> QED BY <1>3, <1>7, <1>8, <1>9 DEF Dir, Sends, Denies, t, r

\* A new session starts in order, whatever the last one left behind.
LEMMA DeliverySession == ASSUME TypeOK, NewSession PROVE Delivery'
<1> SUFFICES ASSUME NEW s \in Stations PROVE Direction(s)'
  BY DEF Delivery
<1>1. Peer(s) \in Stations BY HalfTypes
<1>2. /\ tx'[s] = TxStart(s) /\ rx'[Peer(s)] = RxStart(Peer(s))
      /\ chan'[s] = <<>> /\ chan'[Peer(s)] = <<>>
      /\ UNCHANGED <<marked, removed, reqdone>>
  BY <1>1 DEF NewSession
<1>3. Struck' = Struck BY <1>2 DEF Struck
<1>4. Len(Requests[Peer(s)]) \in Nat BY <1>1, HalfTypes
<1>5. Dir(s, TxStart(s), RxStart(Peer(s)), <<>>, <<>>, reqdone[Peer(s)], Struck, Here(Peer(s))')
  BY <1>4, StartDir
<1> QED BY <1>2, <1>3, <1>5 DEF Direction

\* So does the first one.
LEMMA DeliveryInit == Init => Delivery /\ Intact
<1> SUFFICES ASSUME Init PROVE Delivery /\ Intact
  OBVIOUS
<1>1. \A s \in Stations : Direction(s)
  <2> SUFFICES ASSUME NEW s \in Stations PROVE Direction(s)
    OBVIOUS
  <2>1. Peer(s) \in Stations BY TypeInit, HalfTypes
  <2>2. /\ tx[s] = TxStart(s) /\ rx[Peer(s)] = RxStart(Peer(s))
        /\ chan[s] = <<>> /\ chan[Peer(s)] = <<>>
    BY <2>1 DEF Init
  <2>3. Len(Requests[Peer(s)]) \in Nat BY <2>1, TypeInit, HalfTypes
  <2>4. Dir(s, TxStart(s), RxStart(Peer(s)), <<>>, <<>>, reqdone[Peer(s)], Struck, Here(Peer(s)))
    BY <2>3, StartDir
  <2> QED BY <2>2, <2>4 DEF Direction
<1>2. BlocksFit
  BY DEF Init, BlocksFit, In
<1>3. \A s \in Stations : Receiving(s, rx[s])
  BY DEF Init, RxStart, Receiving
<1>4. \A s \in Stations, f \in Files : Begins(partial[s][f], f)
  <2> SUFFICES ASSUME NEW s \in Stations, NEW f \in Files PROVE Begins(partial[s][f], f)
    OBVIOUS
  <2>1. partial[s][f] = <<>> BY DEF Init
  <2>2. Size[f] \in Nat BY FilesAssumption
  <2>3. Begins(<<>>, f) BY <2>2 DEF Begins
  <2> QED BY <2>1, <2>3
<1>5. ReceivedIntact
  BY DEF Init, ReceivedIntact
<1> QED BY <1>1, <1>2, <1>3, <1>4, <1>5 DEF Delivery, Intact, PartsIntact

\* No step puts the two ends at odds, unless a file is refused.
LEMMA DeliveryStep ==
  ASSUME MaxRequests = 0, TypeOK, ReceivedPlaced, Intact, NoRefusal, NoRefusal', Delivery,
         [Next]_vars
  PROVE  Delivery' /\ Intact'
<1>1. Intact'
  BY BlocksStay, PartsStep DEF Intact
<1> SUFFICES Delivery'
  BY <1>1
<1>2. CASE UNCHANGED vars
  BY <1>2, SameHalves, FewerSame, Neutral DEF vars
<1>3. CASE LineDrop
  BY <1>3, DeliveryDrop
<1>4. CASE NewSession
  BY <1>4, DeliverySession
<1>5. ASSUME NEW s \in Stations,
             \/ Transmit(s) \/ Receive(s) \/ Timers(s) \/ EndBatch(s) \/ NoCarrier(s)
             \/ HangUp(s) \/ Escape(s) \/ EndEscape(s) \/ Noise(s)
      PROVE  Delivery'
  <2>1. CASE Transmit(s)
    BY <2>1, DeliveryTransmit
  <2>2. CASE XmitTimeout(s) \/ RposTimeout(s)
    BY <2>2, DeliveryTimers
  <2>3. CASE BrainDead(s) \/ Escape(s) \/ NoCarrier(s) \/ RecvHalt(s)
    BY <2>3, DeliveryGiveUp
  <2>4. CASE EndBatch(s) \/ EndEscape(s) \/ HangUp(s) \/ Noise(s)
    BY <2>4, DeliveryEnd
  <2>5. CASE RecvBlock(s) \/ RecvGap(s) \/ RecvStray(s)
    BY <2>5, DeliveryBlock, DeliveryGap, DeliveryStray
  <2>6. CASE RecvFname(s) \/ RecvFreqNak(s)
    BY <2>6, DeliveryFname, DeliveryFreqNak
  <2>7. CASE RecvFnack(s) \/ RecvFreq(s)
    BY <2>7, DeliveryFnack, DeliveryFreq
  <2>8. CASE RecvFrnakAck(s) \/ RecvEofAck(s)
    BY <2>8, DeliveryFrnakAck, EndStrikes
  <2>9. CASE RecvRpos(s) \/ RecvHaltAck(s)
    BY <2>9, DeliveryRpos
  <2> QED BY <1>5, <2>1, <2>2, <2>3, <2>4, <2>5, <2>6, <2>7, <2>8, <2>9 DEF Timers, Receive
<1> QED BY <1>1, <1>2, <1>3, <1>4, <1>5 DEF Next

\* Only the acknowledgement of a whole file strikes anything off.
LEMMA StruckStep ==
  ASSUME TypeOK, NoRefusal, Delivery, [Next]_vars
  PROVE  UNCHANGED <<marked, removed>> \/ \E s \in Stations : RecvEofAck(s)
<1>1. CASE UNCHANGED vars BY <1>1 DEF vars
<1>2. CASE LineDrop \/ NewSession BY <1>2 DEF LineDrop, NewSession, disk
<1>3. ASSUME NEW s \in Stations, RecvFrnakAck(s) PROVE UNCHANGED <<marked, removed>>
  <2> DEFINE t == tx[s]
             h == Heard(t)
  <2>1. h.state = t.state /\ h.file = t.file
    BY HalfTypes, HeardType
  <2>2. CASE t.state = "XRCVFRNAKACK"
    <3>1. Dir(s, t, rx[Peer(s)], chan[Peer(s)], chan[s], reqdone[Peer(s)], Struck, Here(Peer(s)))
      BY DEF Delivery, Direction
    <3> HIDE DEF t
    <3>2. t.file = None BY <2>2, <3>1 DEF Dir, Denies, DenyingInv
    <3> HIDE DEF h
    <3>3. CleanUp(h) BY <1>3, <2>1, <2>2 DEF RecvFrnakAck, t, h
    <3> QED BY <2>1, <3>2, <3>3 DEF CleanUp
  <2>3. CASE t.state # "XRCVFRNAKACK"
    BY <1>3, <2>1, <2>3 DEF RecvFrnakAck
  <2> QED BY <2>2, <2>3
<1>4. ASSUME NEW s \in Stations, RecvFnack(s) PROVE UNCHANGED <<marked, removed>>
  <2> DEFINE x == Head(chan[s])
  <2>1. x.type = "FNACK" /\ chan[s] # <<>> BY <1>4 DEF RecvFnack, Receives
  <2>2. x \in In(chan[s], Back)
    <3>1. x.type \in Back BY <2>1 DEF Back
    <3> QED BY <2>1, <3>1, HalfTypes, LineRead DEF First
  <2>3. x.pos # -1 BY <2>1, <2>2 DEF NoRefusal
  <2> QED BY <1>4, <2>3 DEF RecvFnack
<1>5. ASSUME NEW s \in Stations,
             \/ Transmit(s) \/ Receive(s) \/ Timers(s) \/ EndBatch(s) \/ NoCarrier(s)
             \/ HangUp(s) \/ Escape(s) \/ EndEscape(s) \/ Noise(s)
      PROVE  UNCHANGED <<marked, removed>> \/ RecvEofAck(s)
  <2>1. CASE Transmit(s) \/ XmitTimeout(s) \/ RposTimeout(s)
    BY <2>1 DEF Transmit, SendBlk, SendFname, SendFreqNak, XmitTimeout, RposTimeout, disk
  <2>2. CASE BrainDead(s) \/ NoCarrier(s) \/ Escape(s) \/ RecvHalt(s)
    BY <2>2, GivesUp DEF LosesOnly, GiveUp
  <2>3. CASE EndBatch(s) \/ EndEscape(s) \/ HangUp(s) \/ Noise(s)
    BY <2>3 DEF EndBatch, EndRecv, EndTimeout, EndNoCarrier, EndEscape, HangUp, Noise, disk
  <2>4. CASE RecvBlock(s) \/ RecvGap(s) \/ RecvStray(s) \/ RecvFname(s) \/ RecvFreq(s)
    BY <2>4 DEF RecvBlock, RecvGap, RecvStray, RecvFname, RecvFreq, disk
  <2>5. CASE RecvFreqNak(s) \/ RecvRpos(s) \/ RecvHaltAck(s)
    BY <2>5 DEF RecvFreqNak, RecvRpos, RecvHaltAck, disk
  <2> QED BY <1>3, <1>4, <1>5, <2>1, <2>2, <2>3, <2>4, <2>5 DEF Timers, Receive
<1> QED BY <1>1, <1>2, <1>5 DEF Next

\* Files received come one at a time, with the last block of each.
LEMMA GotStep ==
  ASSUME TypeOK, ReceivedPlaced, Intact, Delivery, [Next]_vars
  PROVE  \/ UNCHANGED got
         \/ \E s \in Stations : /\ RecvBlock(s)
                                /\ \E f \in Files : got' = [got EXCEPT ![s] =
                                     Append(@, [name |-> f, data |-> Content(f)])]
<1>1. CASE UNCHANGED vars BY <1>1 DEF vars
<1>2. CASE LineDrop \/ NewSession BY <1>2 DEF LineDrop, NewSession, disk
<1>3. ASSUME NEW s \in Stations, RecvBlock(s)
      PROVE  UNCHANGED got \/ \E f \in Files : got' = [got EXCEPT ![s] =
                                Append(@, [name |-> f, data |-> Content(f)])]
  <2> DEFINE r == rx[s]
             b == Head(chan[s])
             e == r.data \o Units(r.file, Len(r.data), b.arg)
             full == Completes(r, b.arg)
             f == r.file
  <2>1. /\ f \in Files
        /\ full => e = Content(f)
        /\ full => got' = [got EXCEPT ![s] = Append(@, [name |-> f, data |-> e])]
        /\ ~full => UNCHANGED got
    BY <1>3, BlockStep
  <2> HIDE DEF full, e, f, r
  <2> QED BY <2>1
<1>4. ASSUME NEW s \in Stations,
             \/ Transmit(s) \/ Receive(s) \/ Timers(s) \/ EndBatch(s) \/ NoCarrier(s)
             \/ HangUp(s) \/ Escape(s) \/ EndEscape(s) \/ Noise(s)
      PROVE  UNCHANGED got \/ RecvBlock(s)
  <2>1. CASE Transmit(s) \/ XmitTimeout(s) \/ RposTimeout(s)
    BY <2>1 DEF Transmit, SendBlk, SendFname, SendFreqNak, XmitTimeout, RposTimeout, disk
  <2>2. CASE BrainDead(s) \/ NoCarrier(s) \/ Escape(s) \/ RecvHalt(s)
    BY <2>2, GivesUp
  <2>3. CASE EndBatch(s) \/ EndEscape(s) \/ HangUp(s) \/ Noise(s)
    BY <2>3 DEF EndBatch, EndRecv, EndTimeout, EndNoCarrier, EndEscape, HangUp, Noise, disk
  <2>4. CASE RecvGap(s) \/ RecvStray(s) \/ RecvFname(s) \/ RecvFreq(s) \/ RecvFnack(s)
    BY <2>4 DEF RecvGap, RecvStray, RecvFname, RecvFreq, RecvFnack, disk
  <2>5. CASE \/ RecvFreqNak(s) \/ RecvRpos(s) \/ RecvHaltAck(s) \/ RecvFrnakAck(s)
             \/ RecvEofAck(s)
    BY <2>5 DEF RecvFreqNak, RecvRpos, RecvHaltAck, RecvFrnakAck, RecvEofAck, disk
  <2> QED BY <1>4, <2>1, <2>2, <2>3, <2>4, <2>5 DEF Timers, Receive
<1> QED BY <1>1, <1>2, <1>3, <1>4 DEF Next

\* What one file received adds to what has arrived.
LEMMA OneArrives ==
  ASSUME TypeOK, NEW s \in Stations, NEW f \in Files,
         got' = [got EXCEPT ![s] = Append(@, [name |-> f, data |-> Content(f)])]
  PROVE  \A u \in Stations : \A g : Arrived(u, g)' <=> Arrived(u, g) \/ (u = s /\ g = f)
<1> DEFINE x == [name |-> f, data |-> Content(f)]
<1>1. x \in [name : Files, data : UnitSeqs]
  <2>1. Size[f] \in Nat BY FilesAssumption
  <2>2. Content(f) \in [1 .. Size[f] -> Files \X Nat] BY <2>1 DEF Content
  <2>3. Content(f) \in Seq(Files \X Nat) BY <2>1, <2>2 DEF Seq
  <2> QED BY <2>3 DEF UnitSeqs
<1>2. got' = [got EXCEPT ![s] = Append(@, x)] OBVIOUS
<1>6. x.name = f OBVIOUS
<1> HIDE DEF x
<1>3. /\ \A u \in Stations : \A i \in DOMAIN got'[u] :
           (i \in DOMAIN got[u] /\ got'[u][i] = got[u][i]) \/ (u = s /\ got'[u][i] = x)
      /\ \A u \in Stations : \A i \in DOMAIN got[u] :
           i \in DOMAIN got'[u] /\ got'[u][i] = got[u][i]
      /\ \E i \in DOMAIN got'[s] : got'[s][i] = x
  <2>1. \A u \in Stations : \A i \in DOMAIN got'[u] :
           (i \in DOMAIN got[u] /\ got'[u][i] = got[u][i]) \/ (u = s /\ got'[u][i] = x)
    BY <1>1, <1>2, OneMoreOnly, Zenon
  <2>2. \A u \in Stations : \A i \in DOMAIN got[u] :
           i \in DOMAIN got'[u] /\ got'[u][i] = got[u][i]
    BY <1>1, <1>2, OneMoreKeeps, Zenon
  <2>3. \E i \in DOMAIN got'[s] : got'[s][i] = x
    BY <1>1, <1>2, OneMoreHas, Zenon
  <2> QED BY <2>1, <2>2, <2>3, Zenon
<1> SUFFICES ASSUME NEW u \in Stations, NEW g
             PROVE  Arrived(u, g)' <=> Arrived(u, g) \/ (u = s /\ g = f)
  OBVIOUS
<1> DEFINE y == [name |-> g, data |-> Content(g)]
<1>4. /\ y = x => g = f
      /\ g = f => y = x
  BY <1>6 DEF x
<1>5. /\ Arrived(u, g) <=> (g \in Held[u] \/ \E i \in DOMAIN got[u] : got[u][i] = y)
      /\ Arrived(u, g)' <=> (g \in Held[u] \/ \E i \in DOMAIN got'[u] : got'[u][i] = y)
  BY DEF Arrived
<1> HIDE DEF y
<1>7. ASSUME Arrived(u, g)' PROVE Arrived(u, g) \/ (u = s /\ g = f)
  BY <1>3, <1>4, <1>5, <1>7
<1>8. ASSUME Arrived(u, g) PROVE Arrived(u, g)'
  BY <1>3, <1>5, <1>8
<1>9. ASSUME u = s, g = f PROVE Arrived(u, g)'
  BY <1>3, <1>4, <1>5, <1>9
<1> QED BY <1>7, <1>8, <1>9

\* What has arrived stays.
LEMMA HereStays ==
  ASSUME TypeOK, ReceivedPlaced, Intact, Delivery, [Next]_vars
  PROVE  \A u \in Stations : \A g : Arrived(u, g) => Arrived(u, g)'
<1>1. CASE UNCHANGED got BY <1>1 DEF Arrived
<1> QED BY <1>1, GotStep, OneArrives

-----------------------------------------------------------------------------
(* What follows for the files *)

\* The two mailers' outbound areas are on different machines: a file of the
\* model stands for one file of one of them.
OutboundsApart == ToSend(Caller) \cap ToSend(Answerer) = {}

\* A file is in the outbound of one side only.
LEMMA Apart ==
  ASSUME OutboundsApart, NEW s \in Stations, NEW u \in Stations, NEW f \in ToSend(s), f \in ToSend(u)
  PROVE  s = u
BY DEF OutboundsApart, Stations

\* Outbounds list files.
LEMMA SendsFiles == \A s \in Stations : ToSend(s) \subseteq Files
<1> SUFFICES ASSUME NEW s \in Stations, NEW i \in DOMAIN Outbound[s] PROVE Outbound[s][i] \in Files
  BY DEF ToSend
<1>1. Outbound[s] \in Seq(Files) BY FilesAssumption
<1> QED BY <1>1, LenProperties, ElementOfSeq

\* No step strikes off a file before it has arrived.
LEMMA MailStep ==
  ASSUME TypeOK, ReceivedPlaced, Intact, NoRefusal, Delivery, OutboundsApart, NoMailLost, [Next]_vars
  PROVE  NoMailLost'
<1> SUFFICES ASSUME NEW s \in Stations, NEW f \in ToSend(s), f \in Struck'
             PROVE  Arrived(Peer(s), f)'
  BY DEF NoMailLost, Struck, ToSend
<1>1. Peer(s) \in Stations /\ f \in Files BY HalfTypes, SendsFiles
<1>2. CASE f \in Struck
  <2>1. Arrived(Peer(s), f) BY <1>2 DEF NoMailLost, Struck
  <2> QED BY <1>1, <2>1, HereStays
<1>3. CASE f \notin Struck
  <2>1. ~(UNCHANGED <<marked, removed>>) BY <1>3 DEF Struck
  <2>2. PICK u \in Stations : RecvEofAck(u) BY <2>1, StruckStep
  <2>3. f \in ToSend(u) /\ f \in Here(Peer(u)) BY <1>3, <2>2, EndStrikes
  <2>4. u = s BY <2>3, Apart
  <2>5. Arrived(Peer(s), f) BY <2>3, <2>4 DEF Here
  <2> QED BY <1>1, <2>5, HereStays
<1> QED BY <1>2, <1>3

\* A request is commented out when all it asked for is here.
LEMMA RequestsStep ==
  ASSUME TypeOK, ReceivedPlaced, Intact, Delivery, RequestsServed, [Next]_vars
  PROVE  RequestsServed'
<1> DEFINE All(s, i) == \A k \in DOMAIN Answer[Requests[s][i]] : Arrived(s, Answer[Requests[s][i]][k])
<1>1. \A s \in Stations : \A i : All(s, i) => All(s, i)'
  BY HereStays
<1>2. RequestsServed = \A s \in Stations : \A i \in 1 .. reqdone[s] : All(s, i)
  BY DEF RequestsServed
<1>3. ASSUME reqdone' = reqdone PROVE RequestsServed'
  BY <1>1, <1>2, <1>3 DEF RequestsServed
<1>4. ASSUME NEW s \in Stations, RecvFname(s) PROVE RequestsServed'
  <2> DEFINE b == Head(chan[s])
             r == rx[s]
             h == Heeds(r, b.file)
             o == Peer(s)
             d == reqdone[s]
             e == IF h = None THEN Made(s, r, d) ELSE d
  <2>1. /\ chan[s] # <<>> /\ b.type = "FNAME" /\ reqdone'[s] = e
        /\ \A u \in Stations : u # s => reqdone'[u] = reqdone[u]
    BY <1>4, FnameStep
  <2>2. o \in Stations /\ Peer(o) = s /\ Shapes(tx[o], r) /\ d \in Nat
    BY HalfTypes
  <2>3. Dir(o, tx[o], r, chan[s], chan[o], d, Struck, Here(s))
    BY <2>2 DEF Delivery, Direction
  <2>4. b \in In(chan[s], Forth)
    <3>1. b.type \in Forth BY <2>1 DEF Forth
    <3> QED BY <2>1, <3>1, HalfTypes, LineRead DEF First
  <2>5. ASSUME e # d PROVE e = d + 1 /\ All(s, d + 1)
    <3>1. h = None /\ r.started /\ More(s, d) /\ e = d + 1
      BY <2>5 DEF Made
    <3> HIDE DEF b, r, o, d, e
    <3>2. AllHere(Ans(s, d), Here(s))
      BY <2>1, <2>2, <2>3, <2>4, <3>1, ServedHere DEF h
    <3>3. Ans(s, d) = Answer[Requests[s][d + 1]] BY DEF Ans
    <3> QED BY <3>1, <3>2, <3>3 DEF AllHere, Here
  <2> HIDE DEF e, d, All
  <2>6. \A i \in 1 .. e : i \in 1 .. d \/ (e # d /\ i = d + 1)
    <3>1. e = d \/ e = d + 1 BY <2>5
    <3> QED BY <2>2, <3>1
  <2>7. \A i \in 1 .. reqdone'[s] : All(s, i)'
    BY <1>1, <1>2, <2>1, <2>5, <2>6 DEF d
  <2>8. \A u \in Stations : u # s => \A i \in 1 .. reqdone'[u] : All(u, i)'
    BY <1>1, <1>2, <2>1
  <2>9. \A u \in Stations : \A i \in 1 .. reqdone'[u] : All(u, i)'
    BY <2>7, <2>8
  <2> QED BY <2>9 DEF RequestsServed, All
<1>5. CASE UNCHANGED vars BY <1>3, <1>5 DEF vars
<1>6. CASE LineDrop \/ NewSession BY <1>3, <1>6 DEF LineDrop, NewSession, disk
<1>7. ASSUME NEW s \in Stations,
             \/ Transmit(s) \/ Receive(s) \/ Timers(s) \/ EndBatch(s) \/ NoCarrier(s)
             \/ HangUp(s) \/ Escape(s) \/ EndEscape(s) \/ Noise(s)
      PROVE  RequestsServed'
  <2>1. CASE Transmit(s) \/ XmitTimeout(s) \/ RposTimeout(s)
    BY <1>3, <2>1 DEF Transmit, SendBlk, SendFname, SendFreqNak, XmitTimeout, RposTimeout, disk
  <2>2. CASE BrainDead(s) \/ NoCarrier(s) \/ Escape(s) \/ RecvHalt(s)
    BY <1>3, <2>2, GivesUp
  <2>3. CASE EndBatch(s) \/ EndEscape(s) \/ HangUp(s) \/ Noise(s)
    BY <1>3, <2>3
    DEF EndBatch, EndRecv, EndTimeout, EndNoCarrier, EndEscape, HangUp, Noise, disk
  <2>4. CASE RecvBlock(s) \/ RecvGap(s) \/ RecvStray(s) \/ RecvFreq(s) \/ RecvFnack(s)
    BY <1>3, <2>4 DEF RecvBlock, RecvGap, RecvStray, RecvFreq, RecvFnack, disk
  <2>5. CASE \/ RecvFreqNak(s) \/ RecvRpos(s) \/ RecvHaltAck(s) \/ RecvFrnakAck(s)
             \/ RecvEofAck(s)
    BY <1>3, <2>5 DEF RecvFreqNak, RecvRpos, RecvHaltAck, RecvFrnakAck, RecvEofAck, disk
  <2> QED BY <1>4, <1>7, <2>1, <2>2, <2>3, <2>4, <2>5 DEF Timers, Receive
<1> QED BY <1>5, <1>6, <1>7 DEF Next

\* A side that has left the main loop without something_wrong was done with
\* sending and with receiving.
LeftDone(s) == phase[s] # "run" /\ ~aborted[s] => tx[s].state = "XDONE" /\ rx[s].state = "RDONE"
AllLeftDone == \A s \in Stations : LeftDone(s)

\* A side leaves in GiveUp, or after its last FNAME or FNACK.
LEMMA LeavesDone ==
  ASSUME TypeOK, NEW s \in Stations, RecvFname(s) \/ RecvFnack(s)
  PROVE  /\ UNCHANGED aborted /\ \A u \in Stations : u # s => tx'[u] = tx[u] /\ rx'[u] = rx[u]
         /\ \/ UNCHANGED phase /\ phase[s] = "run"
            \/ /\ \A u \in Stations : u # s => phase'[u] = phase[u]
               /\ tx'[s].state = "XDONE" /\ rx'[s].state = "RDONE"
<1>1. /\ rx \in [Stations -> RxType] /\ tx \in [Stations -> TxType]
      /\ phase \in [Stations -> {"run", "end", "done"}]
      /\ tx[s] \in TxRecord /\ rx[s] \in RxRecord
  BY HalfTypes DEF TypeOK
<1>2. CASE RecvFname(s)
  <2> DEFINE f     == Head(chan[s]).file
             r0    == rx[s]
             r     == IF r0.state = "RRCVFNAME" THEN ProcFname(s, f) ELSE r0
             null  == r.file = None
             state == IF r.pos = -1 THEN r.state ELSE IF null THEN "RDONE" ELSE "RRCVBLK"
             done  == IF null /\ Served(s, r) THEN reqdone[s] + 1 ELSE reqdone[s]
             asks  == null /\ done < Len(Requests[s])
  <2>1. /\ UNCHANGED aborted /\ phase[s] = "run"
        /\ IF asks
           THEN /\ rx' = [rx EXCEPT ![s] = [r EXCEPT !.attempting = TRUE, !.started = FALSE]]
                /\ tx' = [tx EXCEPT ![s] = Heard(@)]
                /\ UNCHANGED phase
           ELSE /\ rx' = [rx EXCEPT ![s] =
                      [r EXCEPT !.state = state, !.attempting = FALSE,
                                !.started = r.started \/ r.attempting]]
                /\ tx' = [tx EXCEPT ![s] =
                      [Heard(tx[s]) EXCEPT !.inhibit = tx[s].inhibit /\ state # "RDONE"]]
                /\ LeaveOrStay(s,
                      [chan EXCEPT ![s] = Tail(@), ![Peer(s)] = Append(@, Fnack(f, r.pos))],
                      BatchOver(tx[s].state, state))
    BY <1>2 DEF RecvFname, Receives
  <2>2. r \in RxRecord
    <3>1. chan[s] # <<>> /\ Head(chan[s]).type = "FNAME" BY <1>2 DEF RecvFname, Receives
    <3>2. f \in Files \cup {None} BY <3>1, HeadType DEF PacketTo, Packet
    <3>3. rx[s] \in RxType BY <1>1
    <3> HIDE DEF f
    <3> QED BY <1>1, <3>2, <3>3, ProcFnameType DEF RxType
  <2> DEFINE q == [chan EXCEPT ![s] = Tail(@), ![Peer(s)] = Append(@, Fnack(f, r.pos))]
             y == [r EXCEPT !.state = state, !.attempting = FALSE,
                            !.started = r.started \/ r.attempting]
             x == [Heard(tx[s]) EXCEPT !.inhibit = tx[s].inhibit /\ state # "RDONE"]
             over == BatchOver(tx[s].state, state)
  <2>3. x.state = tx[s].state
    <3> DEFINE i == tx[s].inhibit /\ state # "RDONE"
    <3>1. x = [tx[s] EXCEPT !.idle = 0, !.inhibit = i] BY DEF Heard
    <3> HIDE DEF i, x
    <3> QED BY <1>1, <3>1 DEF TxRecord
  <2>4. y.state = state
    <3> DEFINE g == r.started \/ r.attempting
    <3>1. y = [r EXCEPT !.state = state, !.attempting = FALSE, !.started = g] OBVIOUS
    <3> HIDE DEF g, y, r, state
    <3> QED BY <2>2, <3>1 DEF RxRecord
  <2>5. over => tx[s].state = "XDONE" /\ state = "RDONE"
    BY DEF BatchOver
  <2>6. CASE asks
    <3> HIDE DEF r, asks
    <3> QED BY <1>1, <2>1, <2>6
  <2>7. CASE ~asks
    <3>1. /\ rx' = [rx EXCEPT ![s] = y] /\ tx' = [tx EXCEPT ![s] = x] /\ LeaveOrStay(s, q, over)
      <4> HIDE DEF r, asks, state, f
      <4> QED BY <2>1, <2>7
    <3> HIDE DEF x, y, q, over, state
    <3>2. \/ UNCHANGED phase
          \/ over /\ phase' = [phase EXCEPT ![s] = "end"]
      BY <3>1 DEF LeaveOrStay
    <3>3. tx'[s] = x /\ rx'[s] = y /\ \A u \in Stations : u # s => tx'[u] = tx[u] /\ rx'[u] = rx[u]
      BY <1>1, <3>1
    <3>4. CASE UNCHANGED phase BY <2>1, <3>3, <3>4
    <3>5. CASE over /\ phase' = [phase EXCEPT ![s] = "end"]
      BY <1>1, <2>1, <2>3, <2>4, <2>5, <3>3, <3>5
    <3> QED BY <3>2, <3>4, <3>5
  <2> QED BY <2>6, <2>7
<1>3. CASE RecvFnack(s)
  <2> DEFINE t == Heard(tx[s])
             q == [chan EXCEPT ![s] = Tail(@)]
  <2>1. UNCHANGED <<aborted, rx>> /\ phase[s] = "run"
    BY <1>3 DEF RecvFnack, Receives
  <2>2. t \in TxRecord /\ \E x : tx' = [tx EXCEPT ![s] = x]
    <3>1. t \in TxRecord BY <1>1, HeardType DEF TxType
    <3>2. \E x : tx' = [tx EXCEPT ![s] = x] BY <1>3 DEF RecvFnack, NextFile
    <3> QED BY <3>1, <3>2
  <2>3. \/ UNCHANGED phase
        \/ /\ phase' = [phase EXCEPT ![s] = "end"] /\ rx[s].state = "RDONE"
           /\ tx' = [tx EXCEPT ![s] = [t EXCEPT !.state = "XDONE", !.retry = FALSE]]
    BY <1>3 DEF RecvFnack, LeaveOrStay, BatchOver
  <2> DEFINE y == [t EXCEPT !.state = "XDONE", !.retry = FALSE]
  <2>4. y.state = "XDONE"
    <3> HIDE DEF t
    <3> QED BY <2>2 DEF TxRecord
  <2> HIDE DEF t, y
  <2>5. CASE UNCHANGED phase BY <1>1, <2>1, <2>2, <2>5
  <2>6. CASE /\ phase' = [phase EXCEPT ![s] = "end"] /\ rx[s].state = "RDONE"
             /\ tx' = [tx EXCEPT ![s] = y]
    BY <1>1, <2>1, <2>4, <2>6
  <2> QED BY <2>3, <2>5, <2>6 DEF y
<1> QED BY <1>2, <1>3

\* A side leaves without something_wrong only when both of its halves are done.
LEMMA LeftStep ==
  ASSUME TypeOK, AllLeftDone, [Next]_vars
  PROVE  AllLeftDone'
<1>1. /\ rx \in [Stations -> RxType] /\ tx \in [Stations -> TxType]
      /\ phase \in [Stations -> {"run", "end", "done"}] /\ aborted \in [Stations -> BOOLEAN]
  BY DEF TypeOK
<1>2. ASSUME UNCHANGED <<tx, rx, aborted>>,
             \A u \in Stations : phase[u] = "run" => phase'[u] = "run"
      PROVE  AllLeftDone'
  BY <1>2 DEF AllLeftDone, LeftDone
<1>3. ASSUME NEW s \in Stations, phase[s] = "run", UNCHANGED <<phase, aborted>>,
             \A u \in Stations : u # s => tx'[u] = tx[u] /\ rx'[u] = rx[u]
      PROVE  AllLeftDone'
  BY <1>3 DEF AllLeftDone, LeftDone
<1>4. CASE UNCHANGED vars BY <1>2, <1>4 DEF vars
<1>5. CASE LineDrop BY <1>2, <1>5 DEF LineDrop
<1>6. CASE NewSession
  <2>1. \A u \in Stations : phase'[u] = "run" BY <1>6 DEF NewSession
  <2> QED BY <2>1 DEF AllLeftDone, LeftDone
<1>7. ASSUME NEW s \in Stations,
             \/ Transmit(s) \/ Receive(s) \/ Timers(s) \/ EndBatch(s) \/ NoCarrier(s)
             \/ HangUp(s) \/ Escape(s) \/ EndEscape(s) \/ Noise(s)
      PROVE  AllLeftDone'
  <2>1. CASE Transmit(s) \/ XmitTimeout(s) \/ RposTimeout(s)
    <3>1. phase[s] = "run" /\ UNCHANGED <<phase, aborted>>
      BY <2>1 DEF Transmit, SendBlk, SendFname, SendFreqNak, XmitTimeout, RposTimeout, link
    <3>2. \/ UNCHANGED rx /\ \E x : tx' = [tx EXCEPT ![s] = x]
          \/ UNCHANGED tx /\ \E x : rx' = [rx EXCEPT ![s] = x]
      BY <2>1 DEF Transmit, SendBlk, SendFname, SendFreqNak, XmitTimeout, RposTimeout
    <3> QED BY <1>1, <1>3, <3>1, <3>2
  <2>2. CASE BrainDead(s) \/ NoCarrier(s) \/ Escape(s) \/ RecvHalt(s)
    <3>1. PICK q : GiveUp(s, q) BY <2>2, GivesUp
    <3>2. /\ aborted' = [aborted EXCEPT ![s] = TRUE] /\ phase' = [phase EXCEPT ![s] = "end"]
          /\ UNCHANGED <<tx, rx>>
      BY <3>1 DEF GiveUp, LeaveOrStay
    <3> QED BY <1>1, <3>2 DEF AllLeftDone, LeftDone
  <2>3. CASE EndBatch(s) \/ EndEscape(s)
    <3>1. UNCHANGED <<tx, rx, aborted>> /\ phase[s] # "run"
      BY <2>3 DEF EndBatch, EndRecv, EndTimeout, EndNoCarrier, EndEscape, InEnd
    <3>2. UNCHANGED phase \/ phase' = [phase EXCEPT ![s] = "done"]
      BY <2>3 DEF EndBatch, EndRecv, EndTimeout, EndNoCarrier, EndEscape, Finish
    <3> QED BY <1>1, <1>2, <3>1, <3>2
  <2>4. CASE HangUp(s) \/ Noise(s)
    BY <1>2, <2>4 DEF HangUp, Noise
  <2>5. CASE RecvFname(s) \/ RecvFnack(s)
    <3>1. /\ UNCHANGED aborted
          /\ \A u \in Stations : u # s => tx'[u] = tx[u] /\ rx'[u] = rx[u]
          /\ \/ UNCHANGED phase /\ phase[s] = "run"
             \/ /\ \A u \in Stations : u # s => phase'[u] = phase[u]
                /\ tx'[s].state = "XDONE" /\ rx'[s].state = "RDONE"
      BY <2>5, LeavesDone
    <3> QED BY <3>1 DEF AllLeftDone, LeftDone
  <2>6. CASE RecvBlock(s) \/ RecvGap(s) \/ RecvStray(s) \/ RecvFreqNak(s) \/ RecvRpos(s)
    <3>1. /\ phase[s] = "run" /\ UNCHANGED <<phase, aborted>>
      BY <2>6 DEF RecvBlock, RecvGap, RecvStray, RecvFreqNak, RecvRpos, Receives
    <3>2. /\ \E x : tx' = [tx EXCEPT ![s] = x]
          /\ UNCHANGED rx \/ \E x : rx' = [rx EXCEPT ![s] = x]
      BY <2>6 DEF RecvBlock, RecvGap, RecvStray, RecvFreqNak, RecvRpos
    <3> QED BY <1>1, <1>3, <3>1, <3>2
  <2>7. CASE RecvFreq(s) \/ RecvFrnakAck(s) \/ RecvEofAck(s) \/ RecvHaltAck(s)
    <3>1. /\ phase[s] = "run" /\ UNCHANGED <<phase, aborted, rx>>
      BY <2>7 DEF RecvFreq, RecvFrnakAck, RecvEofAck, RecvHaltAck, Receives
    <3>2. \E x : tx' = [tx EXCEPT ![s] = x]
      BY <2>7 DEF RecvFreq, RecvFrnakAck, RecvEofAck, RecvHaltAck, NextFile
    <3> QED BY <1>1, <1>3, <3>1, <3>2
  <2> QED BY <1>7, <2>1, <2>2, <2>3, <2>4, <2>5, <2>6, <2>7 DEF Timers, Receive
<1> QED BY <1>4, <1>5, <1>6, <1>7 DEF Next

\* Being done with sending means that the whole outbound is struck off; being
\* done with receiving, that the peer's is.
LEMMA DoneStruck ==
  ASSUME TypeOK, Delivery, NEW s \in Stations
  PROVE  /\ tx[s].state = "XDONE" => \A f \in ToSend(s) : f \in Struck
         /\ rx[s].state = "RDONE" => \A f \in ToSend(Peer(s)) : f \in Struck
<1>1. ASSUME NEW u \in Stations, tx[u].file = None PROVE \A f \in ToSend(u) : f \in Struck
  <2>1. Dir(u, tx[u], rx[Peer(u)], chan[Peer(u)], chan[u], reqdone[Peer(u)], Struck, Here(Peer(u)))
    BY DEF Delivery, Direction
  <2>2. AllHere(Outbound[u], Struck) BY <1>1, <2>1 DEF Dir, ScanInv
  <2> QED BY <2>2 DEF AllHere, ToSend
<1>2. tx[s].state = "XDONE" => tx[s].file = None
  <2>1. Dir(s, tx[s], rx[Peer(s)], chan[Peer(s)], chan[s], reqdone[Peer(s)], Struck, Here(Peer(s)))
    BY DEF Delivery, Direction
  <2> QED BY <2>1 DEF Dir, DoneInv
<1>3. rx[s].state = "RDONE" => tx[Peer(s)].file = None
  <2> DEFINE o == Peer(s)
  <2>1. o \in Stations /\ Peer(o) = s /\ Shapes(tx[o], rx[s]) BY HalfTypes
  <2>2. Dir(o, tx[o], rx[s], chan[s], chan[o], reqdone[s], Struck, Here(s))
    BY <2>1 DEF Delivery, Direction
  <2> HIDE DEF o
  <2> QED BY <2>1, <2>2 DEF Dir, Shapes, NamingInv, SendingInv, DenyingInv, DoneInv, o
<1>4. Peer(s) \in Stations BY HalfTypes
<1> QED BY <1>1, <1>2, <1>3, <1>4

\* ... and then all of its mail has arrived, and all of the peer's.
LEMMA CleanEnd ==
  ASSUME TypeOK, Delivery, NoMailLost, AllLeftDone
  PROVE  CleanEndMeansAll
<1> SUFFICES ASSUME NEW s \in Stations, phase[s] # "run" /\ ~aborted[s]
             PROVE  /\ \A f \in ToSend(s) : Arrived(Peer(s), f)
                    /\ \A f \in ToSend(Peer(s)) : Arrived(s, f)
  BY DEF CleanEndMeansAll
<1>1. Peer(s) \in Stations /\ Peer(Peer(s)) = s BY HalfTypes
<1>2. tx[s].state = "XDONE" /\ rx[s].state = "RDONE" BY DEF AllLeftDone, LeftDone
<1>3. (\A f \in ToSend(s) : f \in Struck) /\ (\A f \in ToSend(Peer(s)) : f \in Struck)
  BY <1>2, DoneStruck
<1> QED BY <1>1, <1>3 DEF NoMailLost, Struck

\* The answer a transmitter waits for is about the name it sent.
LEMMA FnackOurs ==
  ASSUME TypeOK, Delivery
  PROVE  FnackIsForOurFile
<1> SUFFICES ASSUME NEW s \in Stations, Receives(s, "FNACK"), tx[s].state = "XRCVFNACK"
             PROVE  Head(chan[s]).file = tx[s].file
  BY DEF FnackIsForOurFile
<1> DEFINE x == Head(chan[s])
<1>1. x.type = "FNACK" /\ chan[s] # <<>> BY DEF Receives
<1>2. x \in In(chan[s], Back)
  <2>1. x.type \in Back BY <1>1 DEF Back
  <2> QED BY <1>1, <2>1, HalfTypes, LineRead DEF First
<1>3. Dir(s, tx[s], rx[Peer(s)], chan[Peer(s)], chan[s], reqdone[Peer(s)], Struck, Here(Peer(s)))
  BY DEF Delivery, Direction
<1>4. Names(tx[s]) BY DEF Names
<1> HIDE DEF x
<1>5. x.file = tx[s].file BY <1>1, <1>2, <1>3, <1>4 DEF Dir, NamingInv
<1> QED BY <1>5 DEF x

-----------------------------------------------------------------------------
(* The theorems *)

\* What is known of every reachable state, whatever becomes of requests.
SessionInv == TypeOK /\ ReceivedPlaced /\ Intact /\ Delivery

\* The invariant holds as long as nobody refuses a file.
LEMMA SessionHolds ==
  ASSUME MaxRequests = 0
  PROVE  Spec /\ []NoRefusal => []SessionInv
<1>1. Init => SessionInv
  BY TypeInit, DeliveryInit, PlacedInit DEF SessionInv
<1>2. SessionInv /\ NoRefusal /\ NoRefusal' /\ [Next]_vars /\ TypeOK' => SessionInv'
  BY DeliveryStep, NextPlaced DEF SessionInv
<1> QED BY <1>1, <1>2, TypeCorrect, PTL DEF Spec

\* While nobody refuses a file, and requests are not limited, what is filed under
\* a name is that file from first unit to last, whatever was lost, repeated,
\* resumed or interrupted.
THEOREM ReceivedIntactHolds ==
  ASSUME MaxRequests = 0
  PROVE  Spec /\ []NoRefusal => []ReceivedIntact
<1>1. SessionInv => ReceivedIntact
  BY DEF SessionInv, Intact, PartsIntact
<1> QED BY <1>1, SessionHolds, PTL

\* Under the same conditions a line of the .REQ file is commented out only once
\* all it asked for is here.
THEOREM RequestsServedHolds ==
  ASSUME MaxRequests = 0
  PROVE  Spec /\ []NoRefusal => []RequestsServed
<1>1. Init => RequestsServed
  BY DEF Init, RequestsServed
<1>2. SessionInv /\ RequestsServed /\ [Next]_vars => RequestsServed'
  BY RequestsStep DEF SessionInv
<1> QED BY <1>1, <1>2, SessionHolds, PTL DEF Spec

\* Under the same conditions, and as the two outbound areas have no file in common,
\* nothing is struck off before the peer has all of it.
THEOREM NoMailLostHolds ==
  ASSUME MaxRequests = 0, OutboundsApart
  PROVE  Spec /\ []NoRefusal => []NoMailLost
<1>1. Init => NoMailLost
  BY DEF Init, NoMailLost
<1>2. SessionInv /\ NoRefusal /\ NoMailLost /\ [Next]_vars => NoMailLost'
  BY MailStep DEF SessionInv
<1> QED BY <1>1, <1>2, SessionHolds, PTL DEF Spec

\* Under the same conditions a side that leaves Janus() without something_wrong has
\* delivered all of its mail and received all of the peer's.
THEOREM CleanEndHolds ==
  ASSUME MaxRequests = 0, OutboundsApart
  PROVE  Spec /\ []NoRefusal => []CleanEndMeansAll
<1>1. Init => AllLeftDone
  BY DEF Init, AllLeftDone, LeftDone
<1>2. SessionInv /\ AllLeftDone /\ [Next]_vars => AllLeftDone'
  BY LeftStep DEF SessionInv
<1>3. SessionInv /\ NoMailLost /\ AllLeftDone => CleanEndMeansAll
  BY CleanEnd DEF SessionInv
<1> QED BY <1>1, <1>2, <1>3, SessionHolds, NoMailLostHolds, PTL DEF Spec

\* While nobody refuses a file, an answer is to the name just sent: it takes a
\* refusal, and a packet sent twice, for the comment at janus.c:440 to be wrong.
THEOREM FnackHolds ==
  ASSUME MaxRequests = 0
  PROVE  Spec /\ []NoRefusal => []FnackIsForOurFile
<1>1. SessionInv => FnackIsForOurFile
  BY FnackOurs DEF SessionInv
<1> QED BY <1>1, SessionHolds, PTL

\* Under the same conditions what is kept of an aborted transfer only grows.
THEOREM PartialKeptHolds ==
  ASSUME MaxRequests = 0
  PROVE  Spec /\ []NoRefusal => PartialKept
<1> DEFINE Keeps == \A s \in Stations, f \in Files :
                      Len(partial'[s][f]) >= Len(partial[s][f]) \/ Arrived(s, f)'
<1>1. SessionInv /\ [Next]_vars => Keeps
  BY PartsStep DEF SessionInv
<1>2. SessionInv /\ [Next]_vars =>
        [\A s \in Stations, f \in Files :
           \/ Len(partial'[s][f]) >= Len(partial[s][f])
           \/ Arrived(s, f)']_vars
  BY <1>1
<1> HIDE DEF Keeps
<1> QED BY <1>2, SessionHolds, PTL DEF Spec, PartialKept

\* Each step of the session delivers one item of mail, strikes one off that has
\* arrived, or does nothing of the kind.
LEMMA TransferStep ==
  ASSUME SessionInv, NoRefusal, OutboundsApart, [Next]_vars
  PROVE  [Transfer!Next]_<<{m \in Mail : Arrived(Peer(m[1]), m[2])},
                           {m \in Mail : m[2] \in marked \cup removed}>>
<1> DEFINE there  == {m \in Mail : Arrived(Peer(m[1]), m[2])}
           struck == {m \in Mail : m[2] \in marked \cup removed}
<1>1. TypeOK /\ ReceivedPlaced /\ Intact /\ Delivery BY DEF SessionInv
<1>2. \A m \in Mail : m[1] \in Stations /\ m[2] \in ToSend(m[1]) /\ Peer(m[1]) \in Stations
  BY HalfTypes, <1>1 DEF Mail
<1>3. CASE UNCHANGED <<got, marked, removed>>
  <2>1. there' = there /\ struck' = struck BY <1>3 DEF Arrived
  <2> QED BY <2>1
<1>4. CASE ~(UNCHANGED <<marked, removed>>)
  <2>1. PICK s \in Stations : RecvEofAck(s) BY <1>1, <1>4, StruckStep
  <2>2. UNCHANGED got BY <2>1 DEF RecvEofAck
  <2>3. /\ Struck \subseteq Struck'
        /\ \A f \in Struck' \ Struck : f = tx[s].file /\ f \in ToSend(s) /\ f \in Here(Peer(s))
    BY <1>1, <2>1, EndStrikes
  <2>4. there' = there BY <2>2 DEF Arrived
  <2>5. struck = {m \in Mail : m[2] \in Struck} /\ struck' = {m \in Mail : m[2] \in Struck'}
    BY DEF Struck
  <2> HIDE DEF there, struck
  <2>6. CASE Struck' = Struck
    <3>1. struck' = struck BY <2>5, <2>6
    <3> QED BY <2>4, <3>1 DEF there, struck
  <2>7. CASE Struck' # Struck
    <3>1. PICK f \in ToSend(s) : /\ f \in Struck' \ Struck /\ f \in Here(Peer(s))
                                 /\ Struck' = Struck \cup {f}
      BY <2>3, <2>7
    <3> DEFINE m == <<s, f>>
    <3>2. m \in Mail BY <3>1 DEF Mail
    <3>3. m \in there BY <3>1, <3>2 DEF there, Here
    <3>4. m \notin struck BY <2>5, <3>1
    <3>5. \A n \in Mail : n[2] = f => n = m
      <4> SUFFICES ASSUME NEW u \in Stations, NEW g \in ToSend(u), g = f PROVE <<u, g>> = m
        BY DEF Mail
      <4>1. u = s BY <3>1, Apart
      <4> QED BY <4>1
    <3>6. struck' = struck \cup {m} BY <2>5, <3>1, <3>2, <3>5
    <3>7. Transfer!Strike(m) BY <2>4, <3>3, <3>4, <3>6 DEF Transfer!Strike, there, struck
    <3> HIDE DEF m
    <3>8. Transfer!Next BY <3>2, <3>7 DEF Transfer!Next
    <3> QED BY <3>8
  <2> QED BY <2>6, <2>7
<1>5. CASE UNCHANGED <<marked, removed>> /\ ~(UNCHANGED got)
  <2>1. PICK s \in Stations, f \in Files :
          got' = [got EXCEPT ![s] = Append(@, [name |-> f, data |-> Content(f)])]
    BY <1>1, <1>5, GotStep
  <2>2. \A u \in Stations : \A g : Arrived(u, g)' <=> Arrived(u, g) \/ (u = s /\ g = f)
    BY <1>1, <2>1, OneArrives
  <2> DEFINE m == <<Peer(s), f>>
  <2>3. struck' = struck BY <1>5
  <2>4. Peer(s) \in Stations /\ Peer(Peer(s)) = s /\ \A u \in Stations : Peer(u) = s => u = Peer(s)
    BY <1>1, HalfTypes
  <2>5. \A n \in Mail : Arrived(Peer(n[1]), n[2])' <=> Arrived(Peer(n[1]), n[2]) \/ n = m
    <3> SUFFICES ASSUME NEW u \in Stations, NEW g \in ToSend(u)
                 PROVE  Arrived(Peer(u), g)' <=> Arrived(Peer(u), g) \/ <<u, g>> = m
      BY DEF Mail
    <3>1. Peer(u) \in Stations BY <1>1, HalfTypes
    <3>2. (Peer(u) = s /\ g = f) <=> <<u, g>> = m BY <2>4
    <3> QED BY <2>2, <3>1, <3>2
  <2>6. there' = {n \in Mail : Arrived(Peer(n[1]), n[2])'} OBVIOUS
  <2> HIDE DEF m
  <2>7. there' = there \/ (m \in Mail /\ m \notin there /\ there' = there \cup {m})
    BY <2>5, <2>6
  <2> HIDE DEF there, struck
  <2>8. CASE there' = there BY <2>3, <2>8 DEF there, struck
  <2>9. CASE m \in Mail /\ m \notin there /\ there' = there \cup {m}
    <3>1. Transfer!Deliver(m) BY <2>3, <2>9 DEF Transfer!Deliver, there, struck
    <3> QED BY <2>9, <3>1 DEF Transfer!Next
  <2> QED BY <2>7, <2>8, <2>9
<1> QED BY <1>3, <1>4, <1>5

\* Under the same conditions the session implements MailTransfer: each item of mail
\* arrives once, in full, and is struck off once, after that.
THEOREM TransfersMailHolds ==
  ASSUME MaxRequests = 0, OutboundsApart
  PROVE  Spec /\ []NoRefusal => TransfersMail
<1>1. Init => Transfer!Init
  <2> SUFFICES ASSUME Init PROVE Transfer!Init OBVIOUS
  <2>1. \A s \in Stations : got[s] = <<>> BY DEF Init
  <2>2. \A m \in Mail : Peer(m[1]) \in Stations BY TypeInit, HalfTypes DEF Mail
  <2>3. {m \in Mail : Arrived(Peer(m[1]), m[2])} = {m \in Mail : m[2] \in Held[Peer(m[1])]}
    BY <2>1, <2>2 DEF Arrived
  <2>4. {m \in Mail : m[2] \in marked \cup removed} = {} BY DEF Init
  <2> QED BY <2>3, <2>4 DEF Transfer!Init
<1>2. SessionInv /\ NoRefusal /\ [Next]_vars =>
        [Transfer!Next]_<<{m \in Mail : Arrived(Peer(m[1]), m[2])},
                          {m \in Mail : m[2] \in marked \cup removed}>>
  BY TransferStep
<1> QED BY <1>1, <1>2, SessionHolds, PTL DEF Spec, TransfersMail, Transfer!Spec

-----------------------------------------------------------------------------
(* Nothing is filed twice: what one direction may still transfer is new to   *)
(* the receiver, G being the names it has filed                              *)

Asked(b)     == \E x \in In(b, Back) : x.type = "FREQ"
NoneOf(a, G) == \A k \in DOMAIN a : a[k] \notin G

\* The file under way, what the scan has ahead of it, what is left of the list
\* of files asked for, and what later requests ask for.  The list is repeated
\* as long as nothing of it has come: req_started goes up with its first file.
FreshFile(s, t, r, G) ==
  /\ t.file # None /\ (Names(t) \/ r.state = "RRCVBLK") => t.file \notin G
  /\ t.file # None /\ ~t.sendreq =>
       \A j \in DOMAIN Outbound[s] : j > t.idx => Outbound[s][j] \notin G
FreshList(p, t, r, d, G) ==
  t.sendreq =>
    /\ r.state = "RRCVBLK" => r.started
    /\ \A m \in DOMAIN t.reqtmp :
         /\ m > 1 => t.reqtmp[m] \notin G
         /\ \E k \in DOMAIN Ans(p, d) : t.reqtmp[m] = Ans(p, d)[k]
         /\ \A n \in DOMAIN t.reqtmp : t.reqtmp[n] = t.reqtmp[m] => n = m
FreshRequests(p, t, r, b, d, G) ==
  /\ \A k \in 1 .. Len(Requests[p]) : k > d + 1 => NoneOf(Answer[Requests[p][k]], G)
  /\ More(p, d) /\ ~r.started => NoneOf(Ans(p, d), G)
  /\ t.sendreq \/ Asked(b) => r.started \/ r.attempting

Fresh(s, t, r, b, d, G) == /\ FreshFile(s, t, r, G)
                           /\ FreshList(Peer(s), t, r, d, G)
                           /\ FreshRequests(Peer(s), t, r, b, d, G)

\* No file is listed twice: neither in the outbound area, nor among the answers
\* to the requests that its owner is sent, nor in both.
NamedOnce ==
  \A s \in Stations :
    /\ \A i, j \in DOMAIN Outbound[s] : Outbound[s][i] = Outbound[s][j] => i = j
    /\ \A k \in 1 .. Len(Requests[Peer(s)]) :
         LET a == Answer[Requests[Peer(s)][k]]
         IN  /\ \A m, n \in DOMAIN a : a[m] = a[n] => m = n
             /\ \A m \in DOMAIN a : a[m] \notin ToSend(s)
             /\ \A l \in 1 .. Len(Requests[Peer(s)]) : l # k =>
                  NoneOf(Answer[Requests[Peer(s)][l]], {a[m] : m \in DOMAIN a})

Filed(s)  == {got[s][i].name : i \in DOMAIN got[s]}
NewHere(s) == Fresh(s, tx[s], rx[Peer(s)], chan[s], reqdone[Peer(s)], Filed(Peer(s)))
AllNew    == \A s \in Stations : NewHere(s)

\* A line that gets no request has none it had not.
LEMMA AskedFewer ==
  ASSUME NEW b, NEW b1,
         \/ Fewer(b, b1, Back)
         \/ \E x : Adds(b, b1, x, Back) /\ x.type # "FREQ"
  PROVE  Asked(b1) => Asked(b)
BY DEF Fewer, Adds, Asked

\* Nothing happens that matters.
LEMMA SameFresh ==
  ASSUME NEW s, NEW t, NEW r, NEW b, NEW d, NEW G, Fresh(s, t, r, b, d, G),
         NEW u, Names(u) => Names(t), u.file = t.file, u.idx = t.idx,
         u.sendreq = t.sendreq, u.reqtmp = t.reqtmp,
         NEW w, w.state = r.state, w.started = r.started, w.attempting = r.attempting,
         NEW b1, Asked(b1) => Asked(b)
  PROVE  Fresh(s, u, w, b1, d, G)
<1>1. FreshFile(s, u, w, G) BY DEF Fresh, FreshFile
<1>2. FreshList(Peer(s), u, w, d, G) BY DEF Fresh, FreshList
<1>3. FreshRequests(Peer(s), u, w, b1, d, G)  BY DEF Fresh, FreshRequests
<1> QED BY <1>1, <1>2, <1>3 DEF Fresh

\* There is no file under way.
LEMMA NullFresh ==
  ASSUME NEW s, NEW t, NEW r, NEW b, NEW d, NEW G, Fresh(s, t, r, b, d, G),
         NEW u, u.file = None, ~u.sendreq, NEW b1, Asked(b1) => Asked(b)
  PROVE  Fresh(s, u, r, b1, d, G)
BY DEF Fresh, FreshFile, FreshList, FreshRequests

\* The denial of a request is acknowledged.
LEMMA DeniedFresh ==
  ASSUME NEW s, NEW t, NEW r, NEW b, NEW d, NEW G, Fresh(s, t, r, b, d, G),
         NEW w, w.state = r.state, w.started, NEW b1, Asked(b1) => Asked(b)
  PROVE  Fresh(s, t, w, b1, d, G)
BY DEF Fresh, FreshFile, FreshList, FreshRequests

\* The last block files the file under way, and that was new.
LEMMA BlockFresh ==
  ASSUME NamedOnce, NEW s \in Stations, NEW t, NEW r, NEW c, NEW b, NEW d \in Nat, NEW S, NEW A,
         Dir(s, t, r, c, b, d, S, A), Shapes(t, r), NEW G, Fresh(s, t, r, b, d, G),
         t \in TxRecord, t \in TxType, Len(Requests[Peer(s)]) \in Nat,
         r.state = "RRCVBLK", NEW x \in In(c, Forth), x.type = "BLK",
         NEW w, w.state = "RRCVFNAME", w.started = r.started, w.attempting = r.attempting,
         NEW b1, Asked(b1) => Asked(b)
  PROVE  r.file \notin G /\ Fresh(s, t, w, b1, d, G \cup {r.file})
<1> DEFINE p == Peer(s)
           a == Ans(p, d)
           f == t.file
           H == G \cup {f}
<1>1. Sends(t) /\ ~Names(t) /\ r.file = t.file /\ t.file # None
  BY DEF Dir, NamingInv, SendingInv, DenyingInv, DoneInv, Shapes, Names, Sends, Denies
<1>2. r.file \notin G
  BY <1>1 DEF Fresh, FreshFile
<1>3. /\ t.sendreq => t.file = Head(t.reqtmp) /\ More(p, d)
      /\ ~t.sendreq => /\ t.idx \in DOMAIN Outbound[s] /\ f = Outbound[s][t.idx]
                       /\ ~r.started /\ ~r.attempting
  BY <1>1 DEF Dir, RequestInv, ScanInv
<1>4. /\ \A i, j \in DOMAIN Outbound[s] : Outbound[s][i] = Outbound[s][j] => i = j
      /\ \A k \in 1 .. Len(Requests[p]) : \A m \in DOMAIN Answer[Requests[p][k]] :
           /\ Answer[Requests[p][k]][m] \notin ToSend(s)
           /\ \A l \in 1 .. Len(Requests[p]) : l # k =>
                \A n \in DOMAIN Answer[Requests[p][l]] :
                  Answer[Requests[p][l]][n] # Answer[Requests[p][k]][m]
  <2>1. SUFFICES ASSUME NEW k \in 1 .. Len(Requests[p]), NEW m \in DOMAIN Answer[Requests[p][k]]
        PROVE /\ Answer[Requests[p][k]][m] \notin ToSend(s)
           /\ \A l \in 1 .. Len(Requests[p]) : l # k =>
                \A n \in DOMAIN Answer[Requests[p][l]] :
                  Answer[Requests[p][l]][n] # Answer[Requests[p][k]][m]
    BY DEF NamedOnce
  <2> DEFINE e == Answer[Requests[p][k]]
  <2>2. /\ \A n \in DOMAIN e : e[n] \notin ToSend(s)
        /\ \A l \in 1 .. Len(Requests[p]) : l # k =>
             NoneOf(Answer[Requests[p][l]], {e[n] : n \in DOMAIN e})
    BY DEF NamedOnce
  <2> HIDE DEF p, e
  <2>3. m \in DOMAIN e /\ e = Answer[Requests[p][k]] BY DEF e
  <2>4. e[m] \in {e[n] : n \in DOMAIN e} BY <2>3
  <2> QED BY <2>2, <2>3, <2>4 DEF NoneOf
<1>5. t.sendreq => /\ f = t.reqtmp[1] /\ 1 \in DOMAIN t.reqtmp /\ DOMAIN t.reqtmp \subseteq Int
                 /\ d + 1 \in 1 .. Len(Requests[p])
                 /\ \E k \in DOMAIN a : f = a[k]
  <2>1. t.sendreq => t.reqtmp \in Seq(Files) /\ t.reqtmp # <<>>
    BY DEF TxType, TxRecord
  <2>2. t.sendreq => 1 \in DOMAIN t.reqtmp /\ Head(t.reqtmp) = t.reqtmp[1]
                     /\ DOMAIN t.reqtmp \subseteq Int
    BY <2>1, HeadTailProperties, LenProperties, EmptySeq
  <2>3. t.sendreq => \A m \in DOMAIN t.reqtmp : \E k \in DOMAIN a : t.reqtmp[m] = a[k]
    BY DEF Fresh, FreshList
  <2>4. More(p, d) => d + 1 \in 1 .. Len(Requests[p])
    BY DEF More
  <2> QED BY <1>3, <2>2, <2>3, <2>4
<1>6. FreshFile(s, t, r, G) /\ FreshList(p, t, r, d, G) /\ FreshRequests(p, t, r, b, d, G)
  BY DEF Fresh
<1>7. DOMAIN Outbound[s] \subseteq Int
  <2>1. Outbound[s] \in Seq(Files) BY FilesAssumption
  <2> QED BY <2>1, LenProperties
<1> HIDE DEF p, f
<1>8. FreshFile(s, t, w, H)
  <2> SUFFICES ASSUME ~t.sendreq, NEW j \in DOMAIN Outbound[s], j > t.idx PROVE Outbound[s][j] \notin H
    BY <1>1 DEF FreshFile
  <2>1. Outbound[s][j] \notin G BY <1>1, <1>6 DEF FreshFile, f
  <2>2. Outbound[s][j] # f BY <1>3, <1>4, <1>7
  <2> QED BY <2>1, <2>2
<1>9. FreshList(p, t, w, d, H)
  <2> SUFFICES ASSUME t.sendreq PROVE FreshList(p, t, w, d, H)
    BY DEF FreshList
  <2>1. \A m \in DOMAIN t.reqtmp : m > 1 => t.reqtmp[m] # f
    BY <1>5, <1>6 DEF FreshList
  <2> QED BY <1>6, <2>1 DEF FreshList
<1>10. FreshRequests(p, t, w, b1, d, H)
  <2>1. CASE t.sendreq
    <3>1. r.started BY <1>6, <2>1 DEF FreshList
    <3>2. \A k \in 1 .. Len(Requests[p]) : k > d + 1 => NoneOf(Answer[Requests[p][k]], {f})
      <4> SUFFICES ASSUME NEW k \in 1 .. Len(Requests[p]), k > d + 1,
                          NEW n \in DOMAIN Answer[Requests[p][k]]
                   PROVE  Answer[Requests[p][k]][n] # f
        BY DEF NoneOf
      <4>1. PICK m \in DOMAIN a : f = a[m] BY <1>5, <2>1
      <4>2. k # d + 1 OBVIOUS
      <4> DEFINE g == d + 1
      <4>3. g \in 1 .. Len(Requests[p]) /\ k # g /\ m \in DOMAIN Answer[Requests[p][g]]
            /\ f = Answer[Requests[p][g]][m]
        BY <1>5, <2>1, <4>1, <4>2 DEF Ans
      <4> HIDE DEF g
      <4> QED BY <1>4, <4>3
    <3> QED BY <1>6, <3>1, <3>2 DEF FreshRequests, NoneOf
  <2>2. CASE ~t.sendreq
    <3>1. f \in ToSend(s) BY <1>3, <2>2 DEF ToSend
    <3>2. \A k \in 1 .. Len(Requests[p]) : NoneOf(Answer[Requests[p][k]], {f})
      BY <1>4, <3>1 DEF NoneOf
    <3>3. More(p, d) => d + 1 \in 1 .. Len(Requests[p])
      BY DEF More, p
    <3>4. More(p, d) => NoneOf(Ans(p, d), {f})
      BY <3>2, <3>3 DEF Ans
    <3> QED BY <1>6, <2>2, <3>2, <3>4 DEF FreshRequests, NoneOf
  <2> QED BY <2>1, <2>2
<1> QED BY <1>1, <1>2, <1>8, <1>9, <1>10 DEF Fresh, p, f

\* A null name is answered with a request: what that asks for is new.
LEMMA AskFresh ==
  ASSUME NEW s, NEW t, NEW r, NEW c, NEW b, NEW d \in Nat, NEW S, NEW A,
         Dir(s, t, r, c, b, d, S, A), Shapes(t, r), NEW G, Fresh(s, t, r, b, d, G),
         Len(Requests[Peer(s)]) \in Nat,
         NEW x \in In(c, Forth), x.type = "FNAME", Heeds(r, x.file) = None,
         NEW e, e = Made(Peer(s), r, d), More(Peer(s), e),
         NEW w, w.state = r.state, ~w.started, w.attempting, NEW b1
  PROVE  Fresh(s, t, w, b1, e, G)
<1> DEFINE p == Peer(s)
<1>1. More(p, d) /\ (e = d \/ (e = d + 1 /\ r.started)) /\ (r.started => e = d + 1)
  BY DEF Made, More
<1>2. RequestInv(p, t, r, In(c, Forth), d, A)
  BY DEF Dir
<1>3. r.state # "RRCVBLK"
  BY <1>1, <1>2 DEF RequestInv, Shapes, Heeds
<1>4. r.started => t.file = None /\ ~t.sendreq
  BY <1>1, <1>2, ServedHere DEF RequestInv
<1>5. FreshFile(s, t, r, G) /\ FreshList(p, t, r, d, G) /\ FreshRequests(p, t, r, b, d, G)
  BY DEF Fresh
<1>6. FreshFile(s, t, w, G)
  BY <1>5 DEF FreshFile
<1>7. FreshList(p, t, w, e, G)
  BY <1>1, <1>3, <1>4, <1>5 DEF FreshList
<1>8. FreshRequests(p, t, w, b1, e, G)
  <2>1. \A k \in 1 .. Len(Requests[p]) : k > e + 1 => NoneOf(Answer[Requests[p][k]], G)
    BY <1>1, <1>5 DEF FreshRequests
  <2>2. NoneOf(Ans(p, e), G)
    <3>1. CASE e = d /\ ~r.started BY <1>1, <1>5, <3>1 DEF FreshRequests
    <3>2. CASE e = d + 1
      <4>1. e + 1 \in 1 .. Len(Requests[p]) /\ e + 1 > d + 1
        BY <3>2 DEF More
      <4> DEFINE k == e + 1
      <4>2. k \in 1 .. Len(Requests[p]) /\ k > d + 1 /\ Ans(p, e) = Answer[Requests[p][k]]
        BY <4>1 DEF Ans
      <4> HIDE DEF k
      <4> QED BY <1>5, <4>2 DEF FreshRequests
    <3> QED BY <1>1, <3>1, <3>2
  <2> QED BY <2>1, <2>2 DEF FreshRequests
<1> QED BY <1>6, <1>7, <1>8 DEF Fresh

\* Any other name is answered with where to start.
Answered(p, r, d, f, e, w) ==
  /\ e = IF f = None THEN Made(p, r, d) ELSE d
  /\ f = None => ~More(p, e)
  /\ w.state = IF f = None THEN "RDONE" ELSE "RRCVBLK"
  /\ r.started \/ r.attempting => w.started

\* The file that is agreed to is new.
LEMMA AnswerFresh ==
  ASSUME NEW s, NEW t, NEW r, NEW c, NEW b, NEW d \in Nat, NEW S, NEW A,
         Dir(s, t, r, c, b, d, S, A), Shapes(t, r), NEW G, Fresh(s, t, r, b, d, G),
         Len(Requests[Peer(s)]) \in Nat,
         NEW x \in In(c, Forth), x.type = "FNAME", NEW f, f = Heeds(r, x.file),
         NEW e, NEW w, Answered(Peer(s), r, d, f, e, w),
         NEW b1, Asked(b1) => Asked(b)
  PROVE  Fresh(s, t, w, b1, e, G)
<1> DEFINE p == Peer(s)
<1>1. ~Denies(t) /\ f = t.file
  <2>1. f = None => ~More(Peer(s), e) BY DEF Answered
  <2>2. e = IF f = None THEN Made(Peer(s), r, d) ELSE d BY DEF Answered
  <2> QED BY <2>1, <2>2, AnswersOurs
<1>2. e = d \/ (e = d + 1 /\ f = None)
  BY DEF Made, Answered
<1>3. /\ RequestInv(p, t, r, In(c, Forth), d, A)
      /\ Sends(t) => SendingInv(t, r, In(c, Forth), Pairs(c, Forth), In(b, Back), Pairs(b, Back), A)
      /\ t.state = "XDONE" => DoneInv(t, r)
  BY DEF Dir
<1>4. FreshFile(s, t, r, G) /\ FreshList(p, t, r, d, G) /\ FreshRequests(p, t, r, b, d, G)
  BY DEF Fresh
<1>5. t.file # None => Names(t) \/ r.state = "RRCVBLK"
  BY <1>1, <1>3 DEF Shapes, DoneInv, SendingInv
<1>6. FreshFile(s, t, w, G)
  BY <1>1, <1>4, <1>5 DEF FreshFile, Answered
<1>7. t.sendreq => t.file # None /\ e = d
  BY <1>1, <1>2, <1>3 DEF RequestInv
<1>8. FreshList(p, t, w, e, G)
  BY <1>4, <1>7 DEF FreshList, FreshRequests, Answered
<1>9. FreshRequests(p, t, w, b1, e, G)
  BY <1>2, <1>4 DEF FreshRequests, Answered
<1> QED BY <1>6, <1>8, <1>9 DEF Fresh

\* A request, in answer to the null name: q is the list of files it is for.
LEMMA ServeFresh ==
  ASSUME NamedOnce, NEW s \in Stations, NEW t, NEW r, NEW c, NEW b, NEW d \in Nat, NEW S, NEW A,
         Dir(s, t, r, c, b, d, S, A), Shapes(t, r), NEW G, Fresh(s, t, r, b, d, G),
         Len(Requests[Peer(s)]) \in Nat, Names(t), t.file = None,
         NEW x \in In(b, Back), x.type = "FREQ",
         NEW q \in Seq(Files), q = Answer[Requests[Peer(s)][x.arg]],
         NEW u, u.sendreq = (q # <<>>), u.reqtmp = q,
         u.file = (IF q = <<>> THEN None ELSE Head(q)),
         NEW b1, Asked(b1) => Asked(b)
  PROVE  Fresh(s, u, r, b1, d, G)
<1> DEFINE p == Peer(s)
<1>1. NamingInv(p, t, r, In(c, Forth), Pairs(c, Forth), In(b, Back), Pairs(b, Back), d)
  BY DEF Dir
<1>2. r.state # "RDONE" /\ ~r.started /\ More(p, d) /\ x.arg = d + 1
  BY <1>1 DEF NamingInv
<1>3. r.state # "RRCVBLK"
  BY <1>1 DEF NamingInv, Shapes
<1>4. q = Ans(p, d)
  BY <1>2 DEF Ans
<1>5. d + 1 \in 1 .. Len(Requests[p])
  BY <1>2 DEF More
<1>6. \A m, n \in DOMAIN q : q[m] = q[n] => m = n
  <2> DEFINE k == d + 1
  <2>1. k \in 1 .. Len(Requests[p]) /\ q = Answer[Requests[p][k]] BY <1>4, <1>5 DEF Ans
  <2> HIDE DEF k, p
  <2>2. \A l \in 1 .. Len(Requests[p]) : \A m, n \in DOMAIN Answer[Requests[p][l]] :
          Answer[Requests[p][l]][m] = Answer[Requests[p][l]][n] => m = n
    BY DEF NamedOnce, p
  <2> QED BY <2>1, <2>2
<1>7. FreshFile(s, t, r, G) /\ FreshList(p, t, r, d, G) /\ FreshRequests(p, t, r, b, d, G)
  BY DEF Fresh
<1>8. NoneOf(q, G)
  BY <1>2, <1>4, <1>7 DEF FreshRequests
<1>9. q # <<>> => 1 \in DOMAIN q /\ Head(q) = q[1]
  BY LenProperties, EmptySeq
<1>10. FreshFile(s, u, r, G)
  BY <1>3, <1>8, <1>9 DEF FreshFile, NoneOf
<1>11. FreshList(p, u, r, d, G)
  BY <1>3, <1>4, <1>6, <1>8 DEF FreshList, NoneOf
<1>12. FreshRequests(p, u, r, b1, d, G)
  <2>1. Asked(b) BY DEF Asked
  <2> QED BY <1>7, <2>1 DEF FreshRequests
<1> QED BY <1>10, <1>11, <1>12 DEF Fresh

\* The next of the files asked for, or the null name after the last one.
LEMMA NextAskedFresh ==
  ASSUME NEW s, NEW t, NEW r, NEW b, NEW d, NEW G, Fresh(s, t, r, b, d, G),
         r.state = "RRCVFNAME", t.sendreq, t.reqtmp \in Seq(Files), t.reqtmp # <<>>,
         NEW u, Tail(t.reqtmp) # <<>> => /\ u.sendreq /\ u.reqtmp = Tail(t.reqtmp)
                                         /\ u.file = Head(Tail(t.reqtmp)),
         Tail(t.reqtmp) = <<>> => ~u.sendreq /\ u.file = None,
         NEW b1, Asked(b1) => Asked(b)
  PROVE  Fresh(s, u, r, b1, d, G)
<1> DEFINE q == t.reqtmp
           p == Peer(s)
           a == Ans(p, d)
<1>1. CASE Tail(q) = <<>>
  BY <1>1, NullFresh
<1>2. CASE Tail(q) # <<>>
  <2>1. /\ Len(q) \in Nat /\ Len(q) > 0 /\ DOMAIN q = 1 .. Len(q)
        /\ Tail(q) \in Seq(Files) /\ Len(Tail(q)) = Len(q) - 1
        /\ \A i \in 1 .. Len(q) - 1 : Tail(q)[i] = q[i + 1]
    BY LenProperties, HeadTailProperties, EmptySeq
  <2>2. DOMAIN Tail(q) = 1 .. Len(q) - 1 /\ Head(Tail(q)) = Tail(q)[1] /\ 1 \in DOMAIN Tail(q)
    BY <1>2, <2>1, LenProperties, EmptySeq
  <2>3. FreshFile(s, t, r, G) /\ FreshList(p, t, r, d, G) /\ FreshRequests(p, t, r, b, d, G)
    BY DEF Fresh
  <2>4. u.sendreq /\ u.reqtmp = Tail(q) /\ u.file = Head(Tail(q))
    BY <1>2
  <2>5. \A m \in DOMAIN q : /\ m > 1 => q[m] \notin G
                            /\ \E k \in DOMAIN a : q[m] = a[k]
                            /\ \A n \in DOMAIN q : q[n] = q[m] => n = m
    BY <2>3 DEF FreshList
  <2> HIDE DEF q, p, a
  <2>6. \A m \in DOMAIN Tail(q) : m + 1 \in DOMAIN q /\ m + 1 > 1 /\ Tail(q)[m] = q[m + 1]
    BY <2>1, <2>2
  <2>7. \A m \in DOMAIN Tail(q) : Tail(q)[m] \notin G /\ \E k \in DOMAIN a : Tail(q)[m] = a[k]
    BY <2>5, <2>6
  <2>8. \A m, n \in DOMAIN Tail(q) : Tail(q)[n] = Tail(q)[m] => n = m
    <3> SUFFICES ASSUME NEW m \in DOMAIN Tail(q), NEW n \in DOMAIN Tail(q), Tail(q)[n] = Tail(q)[m]
                 PROVE  n = m
      OBVIOUS
    <3>1. n + 1 = m + 1 BY <2>5, <2>6
    <3> QED BY <2>1, <2>2, <3>1
  <2>9. FreshFile(s, u, r, G)
    BY <2>2, <2>4, <2>7 DEF FreshFile
  <2>10. FreshList(p, u, r, d, G)
    BY <2>4, <2>7, <2>8 DEF FreshList, a
  <2>11. FreshRequests(p, u, r, b1, d, G)
    BY <2>3 DEF FreshRequests
  <2> QED BY <2>9, <2>10, <2>11 DEF Fresh, p
<1> QED BY <1>1, <1>2

\* The next entry of the outbound.
LEMMA NextScannedFresh ==
  ASSUME NEW s \in Stations, NEW t \in TxRecord, NEW r, NEW b, NEW d, NEW G, Fresh(s, t, r, b, d, G),
         r.state = "RRCVFNAME", ~t.sendreq, t.file # None,
         NEW u, u.file = FirstOf(s, t, t.idx).file, u.idx = FirstOf(s, t, t.idx).idx, ~u.sendreq,
         NEW b1, Asked(b1) => Asked(b)
  PROVE  Fresh(s, u, r, b1, d, G)
<1> DEFINE i == t.idx
           n == NextEntry(s, i)
           v == FirstOf(s, t, i)
<1>1. i \in Nat BY DEF TxRecord
<1>2. CASE n = 0
  <2>1. v = [t EXCEPT !.idx = 0, !.file = None] BY <1>2 DEF FirstOf
  <2>2. u.file = None BY <2>1 DEF TxRecord
  <2> QED BY <2>2, NullFresh
<1>3. CASE n # 0
  <2>1. v = [t EXCEPT !.idx = n, !.file = Outbound[s][n], !.doafter = DoAfter(Outbound[s][n])]
    BY <1>3 DEF FirstOf
  <2>2. n \in DOMAIN Outbound[s] /\ n > i
    BY <1>1, <1>3, NextEntryFirst
  <2>3. DOMAIN Outbound[s] \subseteq Int
    <3>1. Outbound[s] \in Seq(Files) BY FilesAssumption
    <3> QED BY <3>1, LenProperties
  <2> HIDE DEF n
  <2>4. u.file = Outbound[s][n] /\ u.idx = n
    BY <2>1 DEF TxRecord
  <2>5. \A j \in DOMAIN Outbound[s] : j > i => Outbound[s][j] \notin G
    BY DEF Fresh, FreshFile
  <2> HIDE DEF i
  <2>6. FreshFile(s, u, r, G)
    BY <1>1, <2>2, <2>3, <2>4, <2>5 DEF FreshFile
  <2>7. FreshList(Peer(s), u, r, d, G) /\ FreshRequests(Peer(s), u, r, b1, d, G)
    BY DEF Fresh, FreshList, FreshRequests
  <2> QED BY <2>6, <2>7 DEF Fresh
<1> QED BY <1>2, <1>3

-----------------------------------------------------------------------------
(* Every step keeps it so *)

\* A direction neither half of which does anything that matters, nor files anything.
LEMMA StillNew ==
  ASSUME NEW s \in Stations, NewHere(s),
         SameTx(tx[s], tx'[s]), SameRx(rx[Peer(s)], rx'[Peer(s)]),
         Asked(chan'[s]) => Asked(chan[s]), reqdone'[Peer(s)] = reqdone[Peer(s)],
         got'[Peer(s)] = got[Peer(s)]
  PROVE  NewHere(s)'
<1> DEFINE p == Peer(s)
           d == reqdone[p]
           G == Filed(p)
<1>1. Fresh(s, tx[s], rx[p], chan[s], d, G)
  BY DEF NewHere
<1>2. /\ Names(tx'[s]) => Names(tx[s])
      /\ tx'[s].file = tx[s].file /\ tx'[s].idx = tx[s].idx
      /\ tx'[s].sendreq = tx[s].sendreq /\ tx'[s].reqtmp = tx[s].reqtmp
  BY DEF SameTx
<1>3. /\ rx'[p].state = rx[p].state /\ rx'[p].started = rx[p].started
      /\ rx'[p].attempting = rx[p].attempting
  BY DEF SameRx
<1>4. reqdone'[p] = d /\ Filed(p)' = G
  BY DEF Filed
<1> HIDE DEF d, G, p
<1>5. Fresh(s, tx'[s], rx'[p], chan'[s], d, G)
  BY <1>1, <1>2, <1>3, SameFresh
<1> QED BY <1>4, <1>5 DEF NewHere, p

\* Steps after which nothing that matters has changed.
LEMMA AllStillNew ==
  ASSUME TypeOK, AllNew,
         \A s \in Stations : /\ SameTx(tx[s], tx'[s]) /\ SameRx(rx[s], rx'[s])
                             /\ Asked(chan'[s]) => Asked(chan[s]),
         UNCHANGED <<reqdone, got>>
  PROVE  AllNew'
<1> SUFFICES ASSUME NEW s \in Stations PROVE NewHere(s)'
  BY DEF AllNew
<1>1. Peer(s) \in Stations BY HalfTypes
<1> QED BY <1>1, StillNew DEF AllNew

\* A line that loses packets asks for no more than before.
LEMMA LosesAsks ==
  ASSUME LosesOnly
  PROVE  \A u \in Stations : Asked(chan'[u]) => Asked(chan[u])
<1>1. \A u \in Stations : Fewer(chan[u], chan'[u], Back) BY DEF LosesOnly
<1> QED BY <1>1, AskedFewer

\* Sending, the timers, giving up, the end of the batch and the line: nothing is
\* asked for, and no name comes up.
LEMMA NewElsewhere ==
  ASSUME TypeOK, AllNew, NEW s \in Stations,
         \/ Transmit(s) \/ Timers(s) \/ EndBatch(s) \/ NoCarrier(s)
         \/ HangUp(s) \/ Escape(s) \/ EndEscape(s) \/ Noise(s) \/ RecvHalt(s)
  PROVE  AllNew'
<1>1. CASE Transmit(s)
  <2> DEFINE p == Peer(s)
  <2>1. p \in Stations /\ \A u \in Stations : u = s \/ u = p
    BY HalfTypes
  <2>2. /\ SameTx(tx[s], tx'[s]) /\ tx'[p] = tx[p] /\ UNCHANGED <<rx, reqdone, got>>
    BY <1>1, TransmitKeeps
  <2>3. PICK x \in Packet : Send(s, x) /\ x.type \in Forth
    BY <1>1, TransmitKeeps
  <2>4. x.type \notin Back BY <2>3 DEF Forth, Back
  <2>5. chan'[s] = chan[s] /\ Fewer(chan[p], chan'[p], Back)
    BY <2>3, <2>4, SendLines
  <2>6. Asked(chan'[p]) => Asked(chan[p]) BY <2>5, AskedFewer
  <2> HIDE DEF p
  <2> QED BY <2>1, <2>2, <2>5, <2>6, SameHalves, AllStillNew
<1>2. CASE XmitTimeout(s) \/ RposTimeout(s)
  BY <1>2, TimersKeep, AllStillNew
<1>3. CASE BrainDead(s) \/ Escape(s) \/ NoCarrier(s) \/ RecvHalt(s)
  BY <1>3, GivesUp, LosesAsks, SameHalves, AllStillNew
<1>4. CASE EndBatch(s) \/ EndEscape(s) \/ HangUp(s) \/ Noise(s)
  <2>1. UNCHANGED <<tx, rx, reqdone, got>>
    BY <1>4 DEF EndBatch, EndRecv, EndTimeout, EndNoCarrier, EndEscape, HangUp, Noise, disk
  <2> QED BY <1>4, <2>1, EndLoses, LosesAsks, SameHalves, AllStillNew
<1> QED BY <1>1, <1>2, <1>3, <1>4 DEF Timers

\* A gap, a block out of the blue, "go to this position" and the answer to HALT.
LEMMA NewAfterRead ==
  ASSUME TypeOK, AllNew, NEW s \in Stations,
         RecvGap(s) \/ RecvStray(s) \/ RecvRpos(s) \/ RecvHaltAck(s)
  PROVE  AllNew'
<1>1. CASE RecvGap(s)
  BY <1>1, GapLoses, LosesAsks, AllStillNew
<1>2. CASE RecvStray(s)
  <2>1. UNCHANGED <<rx, reqdone, got>> /\ chan[s] # <<>>
    BY <1>2 DEF RecvStray, Receives, disk
  <2>2. \A u \in Stations : SameTx(tx[u], tx'[u])
    <3>1. tx \in [Stations -> TxType] BY DEF TypeOK
    <3>2. tx' = [tx EXCEPT ![s] = Heard(@)] \/ tx' = tx
      BY <1>2 DEF RecvStray, TypeOK
    <3> QED BY <3>1, <3>2, SameHalves
  <2>3. CASE Consume(s)
    BY <2>1, <2>2, <2>3, ConsumeLoses, LosesAsks, SameHalves, AllStillNew
  <2>4. CASE Reply(s, Pkt("EOFACK"))
    <3> DEFINE p == Peer(s)
               z == Pkt("EOFACK")
    <3>1. z \in Packet /\ z.type # "FREQ" BY DEF Pkt, Packet, PktTypes
    <3> HIDE DEF z
    <3>2. Fewer(chan[s], chan'[s], Back) /\ Adds(chan[p], chan'[p], z, Back)
      BY <2>1, <2>4, <3>1, ReplyLines DEF z
    <3>3. (Asked(chan'[s]) => Asked(chan[s])) /\ (Asked(chan'[p]) => Asked(chan[p]))
      BY <3>1, <3>2, AskedFewer
    <3>4. \A u \in Stations : u = s \/ u = p BY HalfTypes
    <3> HIDE DEF p
    <3> QED BY <2>1, <2>2, <3>3, <3>4, SameHalves, AllStillNew
  <2> QED BY <1>2, <2>3, <2>4 DEF RecvStray
<1>3. CASE RecvRpos(s) \/ RecvHaltAck(s)
  <2>1. PICK u : SameTx(tx[s], u) /\ tx' = [tx EXCEPT ![s] = u]
    BY <1>3, RposKeeps
  <2>2. LosesOnly /\ UNCHANGED <<rx, got, reqdone>>
    BY <1>3, RposKeeps
  <2>3. \A v \in Stations : SameTx(tx[v], tx'[v])
    BY <2>1, SameHalves DEF TypeOK
  <2> QED BY <2>2, <2>3, LosesAsks, SameHalves, AllStillNew
<1> QED BY <1>1, <1>2, <1>3

\* The last request matched nothing.
LEMMA NewAfterFreqNak ==
  ASSUME TypeOK, AllNew, NEW s \in Stations, RecvFreqNak(s)
  PROVE  AllNew'
<1> DEFINE o == Peer(s)
           w == rx'[s]
           d == reqdone[s]
           G == Filed(s)
           z == Pkt("FRNAKACK")
<1>1. o \in Stations /\ Peer(o) = s /\ o # s /\ \A u \in Stations : u = s \/ u = o
  BY HalfTypes
<1>2. /\ w.state = rx[s].state /\ w.started
      /\ \A u \in Stations : u # s => rx'[u] = rx[u]
      /\ \A u \in Stations : SameTx(tx[u], tx'[u])
      /\ UNCHANGED <<got, reqdone>>
  BY ReceiverKept
<1>3. chan[s] # <<>> /\ Reply(s, z) BY DEF RecvFreqNak, Receives
<1>4. z \in Packet /\ z.type # "FREQ" BY DEF Pkt, Packet, PktTypes
<1> HIDE DEF z, o
<1>5. Fewer(chan[s], chan'[s], Back) /\ Adds(chan[o], chan'[o], z, Back)
  BY <1>3, <1>4, ReplyLines DEF o
<1>6. (Asked(chan'[s]) => Asked(chan[s])) /\ (Asked(chan'[o]) => Asked(chan[o]))
  BY <1>4, <1>5, AskedFewer
<1>7. NewHere(s)'
  <2>1. rx'[o] = rx[o] /\ reqdone'[o] = reqdone[o] /\ got'[o] = got[o] BY <1>1, <1>2
  <2> QED BY <1>2, <1>6, <2>1, SameHalves, StillNew DEF AllNew, o
<1>8. NewHere(o)'
  <2>1. Fresh(o, tx[o], rx[s], chan[o], d, G)
    BY <1>1 DEF AllNew, NewHere
  <2>2. Filed(s)' = G /\ reqdone'[s] = d /\ SameTx(tx[o], tx'[o])
    BY <1>1, <1>2 DEF Filed
  <2>3. /\ Names(tx'[o]) => Names(tx[o])
        /\ tx'[o].file = tx[o].file /\ tx'[o].idx = tx[o].idx
        /\ tx'[o].sendreq = tx[o].sendreq /\ tx'[o].reqtmp = tx[o].reqtmp
    BY <2>2 DEF SameTx
  <2> HIDE DEF G, d, w
  <2>4. Fresh(o, tx'[o], rx[s], chan[o], d, G)
    BY <2>1, <2>3, SameFresh
  <2>5. Fresh(o, tx'[o], w, chan'[o], d, G)
    BY <1>2, <1>6, <2>4, DeniedFresh
  <2> QED BY <1>1, <2>2, <2>5 DEF NewHere, w
<1> QED BY <1>1, <1>7, <1>8 DEF AllNew

\* A block of the file: with the last one the file is filed, for the first time.
LEMMA NewAfterBlock ==
  ASSUME NamedOnce, TypeOK, ReceivedPlaced, Intact, Delivery, AllNew,
         NEW s \in Stations, RecvBlock(s)
  PROVE  AllNew' /\ (ReceivedOnce => ReceivedOnce')
<1> DEFINE o    == Peer(s)
           b    == Head(chan[s])
           r    == rx[s]
           w    == rx'[s]
           e    == r.data \o Units(r.file, Len(r.data), b.arg)
           full == Completes(r, b.arg)
           x    == [name |-> r.file, data |-> e]
           z    == Pkt("EOFACK")
           d    == reqdone[s]
           G    == Filed(s)
           Once == ReceivedOnce => ReceivedOnce'
<1>1. o \in Stations /\ Peer(o) = s /\ o # s /\ \A u \in Stations : u = s \/ u = o
  BY HalfTypes
<1>2. /\ chan[s] # <<>> /\ b.type = "BLK" /\ r.state = "RRCVBLK" /\ r.file \in Files
      /\ e \in UnitSeqs
      /\ w.state = (IF full THEN "RRCVFNAME" ELSE "RRCVBLK")
      /\ w.file = r.file
      /\ w.started = r.started /\ w.attempting = r.attempting
      /\ \A u \in Stations : u # s => rx'[u] = rx[u]
      /\ full => /\ got' = [got EXCEPT ![s] = Append(@, x)]
                 /\ Reply(s, z)
      /\ ~full => Consume(s) /\ UNCHANGED <<got, partial>>
      /\ tx' = [tx EXCEPT ![s] = Heard(@)]
      /\ UNCHANGED reqdone
  BY BlockStep
<1>3. \A u \in Stations : SameTx(tx[u], tx'[u])
  BY <1>2, SameHalves, HalfTypes DEF TypeOK
<1>4. tx'[o] = tx[o] /\ rx'[o] = rx[o]
  BY <1>1, <1>2 DEF TypeOK
<1>5. z \in Packet /\ z.type # "FREQ" BY DEF Pkt, Packet, PktTypes
<1> HIDE DEF z, full, e
<1>6. CASE ~full
  <2>1. \A u \in Stations : SameRx(rx[u], rx'[u])
    <3>1. SameRx(rx[s], rx'[s]) BY <1>2, <1>6 DEF SameRx
    <3> QED BY <1>2, <3>1, SameHalves
  <2>2. UNCHANGED got /\ Consume(s) BY <1>2, <1>6
  <2>3. AllNew' BY <1>2, <1>3, <2>1, <2>2, ConsumeLoses, LosesAsks, AllStillNew
  <2>4. Once BY <2>2 DEF ReceivedOnce
  <2> QED BY <2>3, <2>4
<1>7. CASE full
  <2>1. Reply(s, z) /\ got' = [got EXCEPT ![s] = Append(@, x)] /\ w.state = "RRCVFNAME"
    BY <1>2, <1>7
  <2>2. Fewer(chan[s], chan'[s], Back) /\ Adds(chan[o], chan'[o], z, Back)
    BY <1>2, <1>5, <2>1, ReplyLines
  <2>3. (Asked(chan'[s]) => Asked(chan[s])) /\ (Asked(chan'[o]) => Asked(chan[o]))
    BY <1>5, <2>2, AskedFewer
  <2>4. b \in In(chan[s], Forth)
    <3> HIDE DEF b
    <3>1. b.type \in Forth BY <1>2 DEF Forth
    <3>2. First(chan[s], b, Tail(chan[s]), Forth) BY <1>2, <3>1, HalfTypes, LineRead DEF b
    <3> QED BY <3>2 DEF First
  <2>5. PICK y \in [name : Files, data : UnitSeqs] : y = x BY <1>2
  <2>6. got' = [got EXCEPT ![s] = Append(@, y)] /\ y.name = r.file BY <2>1, <2>5
  <2>7. got'[o] = got[o] BY <1>1, <2>6 DEF TypeOK
  <2>8. NewHere(s)'
    BY <1>1, <1>2, <1>3, <1>4, <2>3, <2>7, SameHalves, StillNew DEF AllNew
  <2>9. r.file \notin G /\ Fresh(o, tx[o], w, chan'[o], d, G \cup {r.file})
    <3>1. Fresh(o, tx[o], r, chan[o], d, G) BY <1>1 DEF AllNew, NewHere
    <3>2. Dir(o, tx[o], r, chan[s], chan[o], d, Struck, Here(s))
      BY <1>1 DEF Delivery, Direction
    <3>3. /\ Shapes(tx[o], r) /\ tx[o] \in TxRecord /\ tx[o] \in TxType
          /\ d \in Nat /\ Len(Requests[Peer(o)]) \in Nat
      BY <1>1, HalfTypes
    <3> DEFINE c  == chan[s]
               a  == chan[o]
               a1 == chan'[o]
               S  == Struck
               A  == Here(s)
               t  == tx[o]
    <3>4. /\ r.state = "RRCVBLK" /\ b \in In(c, Forth) /\ b.type = "BLK"
          /\ w.state = "RRCVFNAME" /\ w.started = r.started /\ w.attempting = r.attempting
      BY <1>2, <2>1, <2>4
    <3>5. Asked(a1) => Asked(a) BY <2>3
    <3> HIDE DEF o, r, w, b, d, G, c, a, a1, S, A, t
    <3>6. o \in Stations BY <1>1
    <3>7. Fresh(o, t, r, a, d, G) /\ Dir(o, t, r, c, a, d, S, A)
      BY <3>1, <3>2 DEF t, a, c, S, A
    <3>8. Shapes(t, r) /\ t \in TxRecord /\ t \in TxType BY <3>3 DEF t
    <3>9. r.file \notin G /\ Fresh(o, t, w, a1, d, G \cup {r.file})
      BY <3>3, <3>4, <3>5, <3>6, <3>7, <3>8, BlockFresh
    <3> QED BY <3>9 DEF t, a1
  <2>10. Filed(s)' \subseteq G \cup {r.file}
    <3>1. \A i \in DOMAIN got'[s] : \/ i \in DOMAIN got[s] /\ got'[s][i] = got[s][i]
                                    \/ got'[s][i] = y
      BY <2>6, OneMoreOnly
    <3> HIDE DEF r
    <3> QED BY <2>6, <3>1 DEF Filed
  <2>11. G \cup {r.file} \subseteq Filed(s)'
    <3>1. \A i \in DOMAIN got[s] : i \in DOMAIN got'[s] /\ got'[s][i] = got[s][i]
      BY <2>6, OneMoreKeeps
    <3>2. \E i \in DOMAIN got'[s] : got'[s][i] = y
      BY <2>6, OneMoreHas
    <3> HIDE DEF r
    <3> QED BY <2>6, <3>1, <3>2 DEF Filed
  <2>12. NewHere(o)'
    <3>1. Filed(s)' = G \cup {r.file} BY <2>10, <2>11
    <3>2. reqdone'[s] = d BY <1>2
    <3> HIDE DEF G, d, r
    <3> QED BY <1>1, <1>4, <2>9, <3>1, <3>2 DEF NewHere
  <2>13. Once
    <3> SUFFICES ASSUME ReceivedOnce, NEW u \in Stations, NEW i \in DOMAIN got'[u],
                        NEW j \in DOMAIN got'[u], got'[u][i].name = got'[u][j].name
                 PROVE  i = j
      BY DEF ReceivedOnce
    <3>1. CASE u # s
      <4>1. got'[u] = got[u] BY <2>6, <3>1 DEF TypeOK
      <4> QED BY <4>1 DEF ReceivedOnce
    <3>2. CASE u = s
      <4> DEFINE T == [name : Files, data : UnitSeqs]
                 g == got[s]
                 h == got'[s]
      <4>1. g \in Seq(T) /\ h = Append(g, y) /\ y \in T BY <2>6 DEF TypeOK
      <4> HIDE DEF T, g, h
      <4>2. /\ Len(g) \in Nat /\ DOMAIN g = 1 .. Len(g) /\ h \in Seq(T)
            /\ Len(h) = Len(g) + 1 /\ h[Len(g) + 1] = y
            /\ \A k \in 1 .. Len(g) : h[k] = g[k]
        BY <4>1, LenProperties, AppendProperties
      <4>3. DOMAIN h = 1 .. Len(g) + 1 BY <4>2, LenProperties
      <4>4. \A k \in DOMAIN g : g[k].name # y.name
        BY <2>6, <2>9 DEF Filed, g
      <4>5. \A k, l \in DOMAIN g : g[k].name = g[l].name => k = l
        BY DEF ReceivedOnce, g
      <4>6. i \in DOMAIN h /\ j \in DOMAIN h /\ h[i].name = h[j].name BY <3>2 DEF h
      <4> QED BY <4>2, <4>3, <4>4, <4>5, <4>6
    <3> QED BY <3>1, <3>2
  <2> QED BY <1>1, <2>8, <2>12, <2>13 DEF AllNew
<1> QED BY <1>6, <1>7

\* A name, and the answer to it.
LEMMA NewAfterFname ==
  ASSUME TypeOK, Intact, Delivery, AllNew, NoRefusal', NEW s \in Stations, RecvFname(s)
  PROVE  AllNew'
<1> DEFINE o == Peer(s)
           x == Head(chan[s])
           f == x.file
           r == rx[s]
           h == Heeds(r, f)
           d == reqdone[s]
           e == IF h = None THEN Made(s, r, d) ELSE d
           w == rx'[s]
           t == tx[o]
           c == chan[s]
           a == chan[o]
           a1 == chan'[o]
           S == Struck
           A == Here(s)
           G == Filed(s)
<1>1. /\ chan[s] # <<>> /\ x.type = "FNAME"
      /\ f \in Files \cup {None} /\ h \in Files \cup {None}
      /\ reqdone'[s] = e
      /\ \A u \in Stations : u # s => reqdone'[u] = reqdone[u] /\ rx'[u] = rx[u]
      /\ UNCHANGED got
      /\ \/ /\ h = None /\ More(s, e) /\ Reply(s, Freq(e + 1))
            /\ w.state = r.state /\ w.attempting /\ ~w.started
            /\ \A u \in Stations : SameTx(tx[u], tx'[u])
         \/ /\ h = None => ~More(s, e)
            /\ ~w.attempting /\ (w.started <=> r.started \/ r.attempting)
            /\ \A u \in Stations : SameTx(tx[u], tx'[u])
            /\ \E pos \in Int, leaving \in BOOLEAN :
                 /\ LeaveOrStay(s, [chan EXCEPT ![s] = Tail(@),
                                      ![Peer(s)] = Append(@, Fnack(f, pos))], leaving)
                 /\ pos # -1 => w.state = (IF h = None THEN "RDONE" ELSE "RRCVBLK")
  BY FnameStep
<1>2. /\ o \in Stations /\ Peer(o) = s /\ o # s /\ Shapes(t, r)
      /\ \A u \in Stations : u = s \/ u = o
  BY HalfTypes
<1>3. d \in Nat /\ Len(Requests[Peer(o)]) \in Nat
  BY HalfTypes
<1>4. tx'[o] = t
  BY <1>2 DEF RecvFname, TypeOK
<1>5. SameTx(tx[s], tx'[s])
  BY <1>1
<1>6. Dir(o, t, r, c, a, d, S, A) /\ Fresh(o, t, r, a, d, G)
  BY <1>2 DEF Delivery, Direction, AllNew, NewHere
<1>7. chan[s] \in Seq(Packet) /\ chan[o] \in Seq(Packet)
  BY HalfTypes
<1>8. x \in In(c, Forth)
  <2> HIDE DEF x
  <2>1. x.type \in Forth BY <1>1 DEF Forth
  <2>2. First(chan[s], x, Tail(chan[s]), Forth) BY <1>1, <1>7, <2>1, LineRead DEF x
  <2> QED BY <2>2 DEF First
<1>9. ASSUME Asked(chan'[s]) => Asked(chan[s]), Fresh(o, t, w, a1, e, G)
      PROVE  AllNew'
  <2>1. rx'[o] = rx[o] /\ reqdone'[o] = reqdone[o] /\ got'[o] = got[o]
    BY <1>1, <1>2
  <2>2. NewHere(s)'
    BY <1>5, <1>9, <2>1, SameHalves, StillNew DEF AllNew, o
  <2>3. Filed(s)' = G BY <1>1 DEF Filed
  <2>4. reqdone'[s] = e BY <1>1
  <2> HIDE DEF e, G
  <2>5. NewHere(o)' BY <1>2, <1>4, <1>9, <2>3, <2>4 DEF NewHere
  <2> HIDE DEF o
  <2> QED BY <1>2, <2>2, <2>5 DEF AllNew
<1>10. e = IF h = None THEN Made(Peer(o), r, d) ELSE d
  BY <1>2
<1> HIDE DEF o, x, r, h, d, e, w, t, c, a, a1, S, A, G
<1>11. CASE h = None /\ More(s, e) /\ Reply(s, Freq(e + 1)) /\ w.state = r.state
            /\ w.attempting /\ ~w.started
  <2> DEFINE z == Freq(e + 1)
  <2>1. z \in Packet BY <1>3, <1>10 DEF Freq, Packet, PktTypes, Made
  <2>2. Reply(s, z) BY <1>11
  <2> HIDE DEF z
  <2>3. Fewer(chan[s], chan'[s], Back)
    BY <1>1, <2>1, <2>2, ReplyLines
  <2>4. Asked(chan'[s]) => Asked(chan[s]) BY <2>3, AskedFewer
  <2>5. Heeds(r, x.file) = None BY <1>11 DEF h
  <2>6. e = Made(Peer(o), r, d) /\ More(Peer(o), e) BY <1>2, <1>10, <1>11
  <2>7. w.state = r.state /\ ~w.started /\ w.attempting BY <1>11
  <2>8. x.type = "FNAME" BY <1>1
  <2>9. Fresh(o, t, w, a1, e, G)
    BY <1>2, <1>3, <1>6, <1>8, <2>5, <2>6, <2>7, <2>8, AskFresh
  <2> QED BY <1>9, <2>4, <2>9
<1>12. ASSUME NEW pos \in Int, NEW leaving,
              h = None => ~More(s, e), w.started <=> r.started \/ r.attempting,
              LeaveOrStay(s, [chan EXCEPT ![s] = Tail(@),
                                ![Peer(s)] = Append(@, Fnack(f, pos))], leaving),
              pos # -1 => w.state = (IF h = None THEN "RDONE" ELSE "RRCVBLK")
       PROVE  AllNew'
  <2> DEFINE z == Fnack(f, pos)
             q == [chan EXCEPT ![s] = Tail(@), ![Peer(s)] = Append(@, z)]
  <2>1. z \in Packet /\ z.type = "FNACK" /\ z.pos = pos
    <3>1. f \in Files \cup {None} BY <1>1
    <3> HIDE DEF f
    <3> QED BY <3>1 DEF Fnack, Packet, PktTypes
  <2>2. LeaveOrStay(s, q, leaving) BY <1>12
  <2> HIDE DEF z
  <2>3. /\ q \in [Stations -> Seq(Packet)]
        /\ q[s] = Tail(chan[s]) /\ q[Peer(s)] = Append(chan[Peer(s)], z)
    <3>1. chan[s] # <<>> /\ z \in Packet BY <1>1, <2>1
    <3> QED BY <3>1, ReplyLine
  <2> HIDE DEF q
  <2>4. chan'[s] = Tail(chan[s]) /\ Fewer(Append(chan[o], z), chan'[o], Back)
    BY <2>2, <2>3, LeaveLines DEF o
  <2>5. Fewer(chan[s], chan'[s], Back)
    BY <1>1, <1>7, <2>4, LineRead
  <2>6. Adds(chan[o], chan'[o], z, Back)
    BY <1>7, <2>1, <2>4, LineSent, AddsFewer
  <2>7. /\ Asked(chan'[s]) => Asked(chan[s])
        /\ Asked(a1) => Asked(a)
    BY <2>1, <2>5, <2>6, AskedFewer DEF a, a1
  <2>8. z \in In(chan'[o], Back)
    <3>1. q[o] = Append(chan[o], z) BY <2>3 DEF o
    <3>2. Pkt("HALT") \in Packet BY DEF Pkt, Packet, PktTypes
    <3>3. z.type \in Back BY <2>1 DEF Back
    <3>4. q[o] \in Seq(Packet) /\ z \in In(q[o], Back)
      BY <1>2, <1>7, <2>1, <2>3, <3>1, <3>3, LastOnLine
    <3>5. chan' = q \/ chan' = [q EXCEPT ![o] = Append(@, Pkt("HALT"))]
      BY <2>2 DEF LeaveOrStay, o
    <3>6. chan'[o] = q[o] \/ chan'[o] = Append(q[o], Pkt("HALT"))
      BY <1>2, <2>3, <3>5
    <3> QED BY <3>2, <3>4, <3>6, LastOnLine
  <2>9. pos # -1
    BY <1>2, <2>1, <2>8 DEF NoRefusal
  <2>10. w.state = (IF h = None THEN "RDONE" ELSE "RRCVBLK")
    BY <1>12, <2>9
  <2>11. h = Heeds(r, x.file) /\ (h = None => ~More(Peer(o), e))
    BY <1>2, <1>12 DEF h
  <2>12. (w.started <=> r.started \/ r.attempting) /\ x.type = "FNAME"
    BY <1>1, <1>12
  <2>13. h = None => ~More(Peer(o), e)
    BY <2>11
  <2>14. Fresh(o, t, w, a1, e, G)
    <3>1. h = Heeds(r, x.file) /\ x.type = "FNAME" BY <2>11, <2>12
    <3>2. Answered(Peer(o), r, d, h, e, w)
      BY <1>10, <2>10, <2>12, <2>13 DEF Answered
    <3>3. Asked(a1) => Asked(a) BY <2>7
    <3>4. x \in In(c, Forth) BY <1>8 DEF c
    <3> QED BY <1>2, <1>3, <1>6, <3>1, <3>2, <3>3, <3>4, AnswerFresh
  <2> QED BY <1>9, <2>7, <2>14
<1> QED BY <1>1, <1>11, <1>12

\* What s is to send next is new to its peer, and nothing else happens that matters.
LEMMA NextNew ==
  ASSUME TypeOK, AllNew, NEW s \in Stations, UNCHANGED <<rx, got, reqdone>>, LosesOnly,
         NEW u, tx' = [tx EXCEPT ![s] = u],
         Fresh(s, u, rx[Peer(s)], chan'[s], reqdone[Peer(s)], Filed(Peer(s)))
  PROVE  AllNew'
<1> DEFINE o == Peer(s)
<1>1. o \in Stations /\ Peer(o) = s /\ o # s /\ \A v \in Stations : v = s \/ v = o
  BY HalfTypes
<1>2. tx'[s] = u /\ tx'[o] = tx[o] BY <1>1 DEF TypeOK
<1>3. Filed(o)' = Filed(o) BY DEF Filed
<1>4. NewHere(s)' BY <1>2, <1>3 DEF NewHere
<1>5. Asked(chan'[o]) => Asked(chan[o]) BY <1>1, LosesAsks
<1>6. got'[Peer(o)] = got[Peer(o)] /\ reqdone'[Peer(o)] = reqdone[Peer(o)]
      /\ rx'[Peer(o)] = rx[Peer(o)]
  OBVIOUS
<1> HIDE DEF o
<1>7. NewHere(o)' BY <1>1, <1>2, <1>5, <1>6, SameHalves, StillNew DEF AllNew
<1> QED BY <1>1, <1>4, <1>7 DEF AllNew

\* Nor does anything happen that matters to what s is to send.
LEMMA HeededNew ==
  ASSUME TypeOK, AllNew, NEW s \in Stations, UNCHANGED <<rx, got, reqdone>>, LosesOnly,
         NEW u, tx' = [tx EXCEPT ![s] = u], SameTx(tx[s], u)
  PROVE  AllNew'
<1>1. tx \in [Stations -> TxType] BY DEF TypeOK
<1>2. \A v \in Stations : SameTx(tx[v], tx'[v])
  BY <1>1, SameHalves
<1> QED BY <1>2, SameHalves, LosesAsks, AllStillNew

\* The position to start at, or "no more" understood.
LEMMA NewAfterFnack ==
  ASSUME TypeOK, AllNew, NoRefusal, NEW s \in Stations, RecvFnack(s)
  PROVE  AllNew'
<1> DEFINE o == Peer(s)
           x == Head(chan[s])
           t == tx[s]
           h == Heard(t)
           a == chan[s]
           a1 == chan'[s]
           d == reqdone[o]
           G == Filed(o)
           r == rx[o]
<1>1. chan[s] # <<>> /\ x.type = "FNACK" /\ UNCHANGED <<rx, got, reqdone>>
  BY DEF RecvFnack, Receives
<1>2. /\ h.state = t.state /\ h.file = t.file /\ h \in TxRecord /\ SameTx(t, h)
      /\ chan[s] \in Seq(Packet)
  BY HalfTypes, HeardType, SameHalves DEF TxType
<1>3. LosesOnly BY FnackLoses
<1>4. x.pos # -1
  <2> HIDE DEF x
  <2>1. x.type \in Back BY <1>1 DEF Back
  <2>2. First(chan[s], x, Tail(chan[s]), Back) BY <1>1, <1>2, <2>1, LineRead DEF x
  <2> QED BY <1>1, <2>2 DEF NoRefusal, First
<1>5. ASSUME NEW u, tx' = [tx EXCEPT ![s] = u], Names(u) => Names(t),
             u.file = t.file, u.idx = t.idx, u.sendreq = t.sendreq, u.reqtmp = t.reqtmp
      PROVE  AllNew'
  <2>1. Fresh(s, t, r, a, d, G) BY DEF AllNew, NewHere
  <2>2. Asked(a1) => Asked(a) BY <1>3, LosesAsks
  <2> HIDE DEF o, t, r, a, a1, d, G
  <2>3. Fresh(s, u, r, a1, d, G) BY <1>5, <2>1, <2>2, SameFresh
  <2> QED BY <1>1, <1>3, <1>5, <2>3, NextNew DEF o, t, r, a, a1, d, G
<1>6. h.sendreq = t.sendreq /\ h.idx = t.idx /\ h.reqtmp = t.reqtmp
  BY <1>2 DEF SameTx
<1>7. CASE t.state # "XRCVFNACK"
  <2>1. tx' = [tx EXCEPT ![s] = h] BY <1>2, <1>7 DEF RecvFnack
  <2> QED BY <1>1, <1>2, <1>3, <2>1, HeededNew
<1>8. CASE t.state = "XRCVFNACK" /\ t.file = None
  <2> DEFINE u == [h EXCEPT !.state = "XDONE", !.retry = FALSE]
  <2>1. tx' = [tx EXCEPT ![s] = u]
    BY <1>2, <1>8 DEF RecvFnack
  <2>2. /\ u.file = h.file /\ u.idx = h.idx /\ u.sendreq = h.sendreq /\ u.reqtmp = h.reqtmp
    <3> HIDE DEF h
    <3> QED BY <1>2 DEF TxRecord
  <2>3. Names(t) BY <1>8 DEF Names
  <2> HIDE DEF u, h, t
  <2> QED BY <1>2, <1>5, <1>6, <2>1, <2>2, <2>3
<1>9. CASE t.state = "XRCVFNACK" /\ t.file # None
  <2> DEFINE u == [h EXCEPT !.state = "XSENDBLK", !.pos = x.pos, !.retry = FALSE]
  <2>1. tx' = [tx EXCEPT ![s] = u]
    BY <1>2, <1>4, <1>9 DEF RecvFnack
  <2>2. /\ u.file = h.file /\ u.idx = h.idx /\ u.sendreq = h.sendreq /\ u.reqtmp = h.reqtmp
    <3> HIDE DEF h, x
    <3> QED BY <1>2 DEF TxRecord
  <2>3. Names(t) BY <1>9 DEF Names
  <2> HIDE DEF u, h, t
  <2> QED BY <1>2, <1>5, <1>6, <2>1, <2>2, <2>3
<1> QED BY <1>7, <1>8, <1>9

\* A request: the list is new, unless it is under way.
LEMMA NewAfterFreq ==
  ASSUME MaxRequests = 0, NamedOnce, TypeOK, Delivery, AllNew, NEW s \in Stations, RecvFreq(s)
  PROVE  AllNew'
<1> DEFINE o   == Peer(s)
           x   == Head(chan[s])
           t   == tx[s]
           r   == rx[o]
           h   == Heard(t)
           ans == Answer[Requests[o][x.arg]]
           st  == IF ans = <<>> THEN "XSENDFREQNAK" ELSE "XSENDFNAME"
           u   == [Serve(h, ans) EXCEPT !.state = st, !.reqlim = h.reqlim, !.retry = FALSE]
<1>1. chan[s] # <<>> /\ x.type = "FREQ" /\ Consume(s) /\ UNCHANGED <<rx, got, reqdone>>
  BY DEF RecvFreq, Receives, disk
<1>2. t \in TxRecord /\ t \in TxType /\ chan[s] \in Seq(Packet) /\ Shapes(t, r)
  BY HalfTypes
<1>3. ans \in Seq(Files)
  BY AnswerType
<1>4. h.state = t.state /\ h \in TxRecord /\ h \in TxType /\ SameTx(t, h)
  BY <1>2, HeardType, SameHalves DEF TxType
<1>5. tx' = [tx EXCEPT ![s] = IF h.state # "XRCVFNACK" THEN h ELSE u]
  <2> HIDE DEF h, ans
  <2> QED BY DEF RecvFreq, h, ans
<1>6. LosesOnly BY <1>1, ConsumeLoses
<1>7. CASE t.state # "XRCVFNACK"
  <2>1. tx' = [tx EXCEPT ![s] = h] BY <1>4, <1>5, <1>7
  <2> QED BY <1>1, <1>4, <1>6, <2>1, HeededNew
<1>8. CASE t.state = "XRCVFNACK"
  <2> DEFINE a  == chan[s]
             a1 == chan'[s]
             c  == chan[o]
             d  == reqdone[o]
             G  == Filed(o)
             S  == Struck
             A  == Here(o)
  <2>1. tx' = [tx EXCEPT ![s] = u] BY <1>4, <1>5, <1>8
  <2>2. Dir(s, t, r, c, a, d, S, A) /\ Fresh(s, t, r, a, d, G)
    BY DEF Delivery, Direction, AllNew, NewHere
  <2>3. Names(t) BY <1>8 DEF Names
  <2>4. Asked(a1) => Asked(a) BY <1>6, LosesAsks
  <2>5. o \in Stations /\ d \in Nat /\ Len(Requests[Peer(s)]) \in Nat BY HalfTypes
  <2>6. ans = Answer[Requests[Peer(s)][x.arg]] OBVIOUS
  <2> HIDE DEF x, t, o, r
  <2>7. x \in In(a, Back)
    <3>1. x.type \in Back BY <1>1 DEF Back
    <3>2. First(chan[s], x, Tail(chan[s]), Back) BY <1>1, <1>2, <3>1, LineRead DEF x
    <3> QED BY <3>2 DEF First
  <2>8. /\ u.state = st /\ u.sendreq = (ans # <<>>) /\ u.reqtmp = ans
        /\ u.file = (IF ans = <<>> THEN None ELSE Head(ans))
        /\ u.idx = t.idx /\ u.doafter = t.doafter
    <3> DEFINE w == Serve(h, ans)
    <3>1. h.idx = t.idx /\ h.doafter = t.doafter BY <1>4 DEF SameTx
    <3> HIDE DEF h, ans, st
    <3>2. w \in TxRecord BY <1>3, <1>4, ServeType DEF TxParts
    <3>3. /\ w.sendreq = (ans # <<>>) /\ w.reqtmp = ans
          /\ w.file = (IF ans = <<>> THEN None ELSE Head(ans))
          /\ w.idx = h.idx /\ w.doafter = h.doafter
      BY <1>4 DEF TxRecord, Serve
    <3> HIDE DEF w
    <3>4. /\ u.state = st /\ u.sendreq = w.sendreq /\ u.reqtmp = w.reqtmp /\ u.file = w.file
          /\ u.idx = w.idx /\ u.doafter = w.doafter
      BY <3>2 DEF TxRecord, w
    <3> QED BY <3>1, <3>3, <3>4
  <2> HIDE DEF u, h, ans, a, a1, c, d, G, S, A
  <2>9. x.type = "FREQ" BY <1>1
  <2>10. CASE t.file = None
    <3>1. u.sendreq = (ans # <<>>) /\ u.reqtmp = ans
      BY <2>8
    <3>2. u.file = (IF ans = <<>> THEN None ELSE Head(ans)) BY <2>8
    <3>3. Fresh(s, u, r, a1, d, G)
      BY <1>2, <1>3, <2>2, <2>3, <2>4, <2>5, <2>6, <2>7, <2>9, <2>10, <3>1, <3>2, ServeFresh
    <3> QED BY <1>1, <1>6, <2>1, <3>3, NextNew DEF o, r, a1, d, G
  <2>11. CASE t.file # None
    <3>1. t.sendreq /\ t.reqtmp = ans /\ t.file = Head(t.reqtmp)
      BY <2>2, <2>3, <2>6, <2>7, <2>9, <2>11, SameRequest
    <3>2. ans # <<>> /\ t.sendreq = TRUE
      <4>1. t.reqtmp # <<>> BY <1>2, <3>1 DEF TxType
      <4>2. t.sendreq \in BOOLEAN BY <1>2 DEF TxRecord
      <4> QED BY <3>1, <4>1, <4>2
    <3>3. SameTx(t, u)
      BY <1>8, <2>8, <3>1, <3>2 DEF SameTx, Names, Sends, Denies
    <3> QED BY <1>1, <1>6, <2>1, <3>3, HeededNew DEF t
  <2> QED BY <2>10, <2>11
<1> QED BY <1>7, <1>8

\* The denial is understood: the scan is over.
LEMMA NewAfterFrnakAck ==
  ASSUME TypeOK, Delivery, AllNew, NEW s \in Stations, RecvFrnakAck(s)
  PROVE  AllNew'
<1> DEFINE o == Peer(s)
           t == tx[s]
           r == rx[o]
           h == Heard(t)
           u == Offers(s, h)
<1>1. chan[s] # <<>> /\ Consume(s) /\ UNCHANGED <<rx, got, reqdone>>
  BY DEF RecvFrnakAck, Receives
<1>2. t \in TxRecord /\ t \in TxType
  BY HalfTypes
<1>3. /\ h.state = t.state /\ h.file = t.file /\ h.sendreq = t.sendreq /\ h \in TxRecord
      /\ TxParts(h) /\ SameTx(t, h)
  BY <1>2, HeardType, SameHalves DEF TxType, TxParts
<1>4. LosesOnly BY <1>1, ConsumeLoses
<1>5. CASE t.state # "XRCVFRNAKACK"
  <2>1. tx' = [tx EXCEPT ![s] = h]
    BY <1>3, <1>5 DEF RecvFrnakAck
  <2> QED BY <1>1, <1>3, <1>4, <2>1, HeededNew
<1>6. CASE t.state = "XRCVFRNAKACK"
  <2> DEFINE a  == chan[s]
             a1 == chan'[s]
             d  == reqdone[o]
             G  == Filed(o)
  <2>1. tx' = [tx EXCEPT ![s] = u]
    BY <1>3, <1>6 DEF RecvFrnakAck, Offers
  <2>2. /\ Dir(s, t, r, chan[o], chan[s], reqdone[o], Struck, Here(o))
        /\ Fresh(s, t, r, a, d, G)
    BY DEF Delivery, Direction, AllNew, NewHere
  <2>3. Denies(t) BY <1>6 DEF Denies
  <2>4. Asked(a1) => Asked(a) BY <1>4, LosesAsks
  <2> HIDE DEF t, o, r, h
  <2>5. t.file = None /\ ~t.sendreq /\ AllHere(Outbound[s], Struck)
    BY <2>2, <2>3 DEF Dir, DenyingInv, ScanInv
  <2>6. u.file = None /\ ~u.sendreq
    <3>1. h.idx \in Nat BY <1>3 DEF TxRecord
    <3>2. FirstOf(s, h, h.idx).file = None BY <1>3, <2>5, <3>1, ScanOver
    <3> QED BY <1>3, <2>5, <3>2, OfferFields
  <2> HIDE DEF u, a, a1, d, G
  <2>7. Fresh(s, u, r, a1, d, G)
    BY <2>2, <2>4, <2>6, NullFresh
  <2> QED BY <1>1, <1>4, <2>1, <2>7, NextNew DEF o, r, a1, d, G
<1> QED BY <1>5, <1>6

\* The file has arrived: the next one is offered.
LEMMA NewAfterEofAck ==
  ASSUME TypeOK, Delivery, AllNew, NEW s \in Stations, RecvEofAck(s)
  PROVE  AllNew'
<1> DEFINE o == Peer(s)
           x == Head(chan[s])
           t == tx[s]
           r == rx[o]
           h == Heard(t)
<1>1. chan[s] # <<>> /\ x.type = "EOFACK" /\ Consume(s) /\ UNCHANGED <<rx, got, reqdone>>
  BY DEF RecvEofAck, Receives
<1>2. t \in TxRecord /\ t \in TxType /\ chan[s] \in Seq(Packet) /\ Shapes(t, r)
  BY HalfTypes
<1>3. /\ h.state = t.state /\ h.file = t.file /\ h.sendreq = t.sendreq /\ h \in TxRecord
      /\ h \in TxType /\ TxParts(h) /\ SameTx(t, h)
  BY <1>2, HeardType, SameHalves DEF TxType, TxParts
<1>4. h.idx = t.idx /\ h.doafter = t.doafter /\ h.reqtmp = t.reqtmp
  BY <1>3 DEF SameTx
<1>5. LosesOnly BY <1>1, ConsumeLoses
<1>6. CASE t.state \notin {"XRCVEOFACK", "XRCVFNACK"}
  <2>1. tx' = [tx EXCEPT ![s] = h]
    BY <1>3, <1>6 DEF RecvEofAck
  <2> QED BY <1>1, <1>3, <1>5, <2>1, HeededNew
<1>7. CASE t.state = "XRCVFNACK"
  <2> DEFINE u == [h EXCEPT !.state = "XSENDFNAME", !.retry = FALSE]
  <2>1. tx' = [tx EXCEPT ![s] = u]
    BY <1>3, <1>7 DEF RecvEofAck
  <2>2. SameTx(t, u)
    <3> HIDE DEF h
    <3>1. /\ u.state = "XSENDFNAME" /\ u.file = h.file /\ u.idx = h.idx /\ u.doafter = h.doafter
          /\ u.sendreq = h.sendreq /\ u.reqtmp = h.reqtmp
      BY <1>3 DEF TxRecord
    <3> HIDE DEF u
    <3> QED BY <1>3, <1>4, <1>7, <3>1 DEF SameTx, Names, Sends, Denies
  <2> HIDE DEF u
  <2> QED BY <1>1, <1>5, <2>1, <2>2, HeededNew
<1>8. CASE t.state = "XRCVEOFACK"
  <2> DEFINE a  == chan[s]
             a1 == chan'[s]
             d  == reqdone[o]
             G  == Filed(o)
  <2>1. NextFile(s, h) BY <1>3, <1>8 DEF RecvEofAck
  <2>2. /\ Dir(s, t, r, chan[o], chan[s], reqdone[o], Struck, Here(o))
        /\ Fresh(s, t, r, a, d, G)
    BY DEF Delivery, Direction, AllNew, NewHere
  <2>3. Sends(t) BY <1>8 DEF Sends
  <2>4. Asked(a1) => Asked(a) BY <1>5, LosesAsks
  <2> HIDE DEF x, t, o, r, h
  <2>5. r.state = "RRCVFNAME" /\ t.file # None
    <3>1. x.type \in Back BY <1>1 DEF Back
    <3>2. First(chan[s], x, Tail(chan[s]), Back) BY <1>1, <1>2, <3>1, LineRead DEF x
    <3>3. x \in In(chan[s], Back) BY <3>2 DEF First
    <3> QED BY <1>1, <1>2, <2>2, <2>3, <3>3, EndedHere DEF Shapes
  <2>6. ASSUME NEW u, tx' = [tx EXCEPT ![s] = u], Fresh(s, u, r, a1, d, G)
        PROVE  AllNew'
    BY <1>1, <1>5, <2>6, NextNew DEF o, r, a1, d, G
  <2>7. CASE t.sendreq
    <3> DEFINE q == Tail(t.reqtmp)
               v == Serve(h, q)
               u == [NextRequested(s, h) EXCEPT !.state = "XSENDFNAME", !.retry = FALSE]
    <3>1. tx' = [tx EXCEPT ![s] = u]
      BY <1>3, <2>1, <2>7 DEF NextFile
    <3>2. t.reqtmp \in Seq(Files) /\ t.reqtmp # <<>>
      BY <1>2, <2>7 DEF TxType, TxRecord
    <3>3. q \in Seq(Files) BY <3>2, HeadTailProperties
    <3> HIDE DEF q
    <3>4. /\ TxParts(v) /\ v \in TxRecord /\ v.idx = h.idx
          /\ v.sendreq = (q # <<>>) /\ v.reqtmp = q
          /\ v.file = (IF q = <<>> THEN None ELSE Head(q))
      <4>1. TxParts(v) /\ v.idx = h.idx BY <1>3, <3>3, ServeType
      <4>2. /\ v.sendreq = (q # <<>>) /\ v.reqtmp = q
            /\ v.file = (IF q = <<>> THEN None ELSE Head(q))
        BY <1>3 DEF TxRecord, Serve
      <4> QED BY <4>1, <4>2 DEF TxParts
    <3>5. NextRequested(s, h) = IF v.sendreq THEN v ELSE FirstOf(s, v, v.idx)
      <4>1. q = Tail(h.reqtmp) BY <1>4 DEF q
      <4> QED BY <3>4, <4>1 DEF NextRequested
    <3> HIDE DEF v
    <3>6. q # <<>> => u.sendreq /\ u.reqtmp = q /\ u.file = Head(q)
      <4> SUFFICES ASSUME q # <<>>
                   PROVE  u.sendreq /\ u.reqtmp = q /\ u.file = Head(q)
        OBVIOUS
      <4>1. u = [v EXCEPT !.state = "XSENDFNAME", !.retry = FALSE] BY <3>4, <3>5
      <4>2. u.sendreq = v.sendreq /\ u.reqtmp = v.reqtmp /\ u.file = v.file
        <5> HIDE DEF u
        <5> QED BY <3>4, <4>1 DEF TxRecord
      <4> QED BY <3>4, <4>2
    <3>7. q = <<>> => ~u.sendreq /\ u.file = None
      <4> SUFFICES ASSUME q = <<>>
                   PROVE  ~u.sendreq /\ u.file = None
        OBVIOUS
      <4>1. u = Offers(s, v) BY <3>4, <3>5 DEF Offers
      <4>2. AllHere(Outbound[s], Struck)
        BY <2>2, <2>7 DEF Dir, ScanInv
      <4>3. v.idx \in Nat BY <3>4 DEF TxRecord
      <4>4. FirstOf(s, v, v.idx).file = None BY <3>4, <4>2, <4>3, ScanOver
      <4>5. ~v.sendreq /\ TxParts(v) BY <3>4
      <4>6. /\ Offers(s, v).file = FirstOf(s, v, v.idx).file
            /\ ~Offers(s, v).sendreq
        BY <4>5, OfferFields
      <4> HIDE DEF u
      <4> QED BY <4>1, <4>4, <4>6
    <3> HIDE DEF u
    <3>8. /\ Tail(t.reqtmp) # <<>> => /\ u.sendreq /\ u.reqtmp = Tail(t.reqtmp)
                                      /\ u.file = Head(Tail(t.reqtmp))
          /\ Tail(t.reqtmp) = <<>> => ~u.sendreq /\ u.file = None
      BY <3>6, <3>7 DEF q
    <3> HIDE DEF a, a1, d, G
    <3>9. Fresh(s, u, r, a1, d, G)
      BY <2>2, <2>4, <2>5, <2>7, <3>2, <3>8, NextAskedFresh
    <3> QED BY <2>6, <3>1, <3>9
  <2>8. CASE ~t.sendreq
    <3> DEFINE u == Offers(s, h)
    <3>1. tx' = [tx EXCEPT ![s] = u]
      BY <1>3, <2>1, <2>8 DEF NextFile, Offers
    <3>2. /\ u.file = FirstOf(s, h, h.idx).file
          /\ u.idx = FirstOf(s, h, h.idx).idx
          /\ ~u.sendreq
      BY <1>3, <2>8, OfferFields
    <3> HIDE DEF u, a, a1, d, G
    <3>3. Fresh(s, h, r, a, d, G)
      <4>1. /\ Names(h) => Names(t)
            /\ h.file = t.file /\ h.idx = t.idx /\ h.sendreq = t.sendreq /\ h.reqtmp = t.reqtmp
        BY <1>3 DEF SameTx
      <4> QED BY <2>2, <4>1, SameFresh
    <3>4. h \in TxRecord /\ ~h.sendreq /\ h.file # None
      BY <1>3, <2>5, <2>8
    <3>5. Fresh(s, u, r, a1, d, G)
      BY <2>4, <2>5, <3>2, <3>3, <3>4, NextScannedFresh
    <3> QED BY <2>6, <3>1, <3>5
  <2> QED BY <2>7, <2>8
<1> QED BY <1>6, <1>7, <1>8

\* Only a new session counts down the sessions that are left.
LEMMA SessionsKept ==
  ASSUME TypeOK, [Next]_vars, env.sessions <= 1
  PROVE  env'.sessions = env.sessions
<1>1. env \in [noise : Nat, early : Nat, quits : Nat, sessions : Nat]
  BY DEF TypeOK
<1>2. CASE UNCHANGED env
  BY <1>2
<1>3. CASE env' = [env EXCEPT !.early = @ - 1, !.noise = @ - 1]
  BY <1>1, <1>3
<1>4. CASE env' = [env EXCEPT !.quits = @ - 1]
  BY <1>1, <1>4
<1>5. CASE env' = [env EXCEPT !.noise = @ - 1]
  BY <1>1, <1>5
<1>6. UNCHANGED vars \/ LineDrop => UNCHANGED env \/ env' = [env EXCEPT !.quits = @ - 1]
  BY DEF vars, LineDrop
<1>7. ~NewSession
  BY <1>1 DEF NewSession
<1>8. ASSUME NEW s \in Stations,
             \/ Transmit(s) \/ Receive(s) \/ Timers(s) \/ EndBatch(s) \/ NoCarrier(s)
             \/ HangUp(s) \/ Escape(s) \/ EndEscape(s) \/ Noise(s)
      PROVE  \/ UNCHANGED env
             \/ env' = [env EXCEPT !.early = @ - 1, !.noise = @ - 1]
             \/ env' = [env EXCEPT !.quits = @ - 1]
             \/ env' = [env EXCEPT !.noise = @ - 1]
  <2>1. CASE Transmit(s)
    BY <2>1 DEF Transmit, SendBlk, SendFname, SendFreqNak
  <2>2. CASE Timers(s)
    BY <2>2 DEF Timers, XmitTimeout, RposTimeout, BrainDead, Elapse
  <2>3. CASE EndBatch(s) \/ EndEscape(s) \/ HangUp(s) \/ Noise(s) \/ NoCarrier(s) \/ Escape(s)
    BY <2>3 DEF EndBatch, EndRecv, EndTimeout, EndNoCarrier, EndEscape, HangUp, Noise,
                NoCarrier, Escape, Elapse
  <2>4. CASE Receive(s)
    <3>1. CASE \/ RecvBlock(s) \/ RecvGap(s) \/ RecvStray(s) \/ RecvFname(s)
      BY <3>1 DEF RecvBlock, RecvGap, RecvStray, RecvFname
    <3>2. CASE RecvFnack(s) \/ RecvFreq(s) \/ RecvFreqNak(s) \/ RecvFrnakAck(s)
      BY <3>2 DEF RecvFnack, RecvFreq, RecvFreqNak, RecvFrnakAck
    <3>3. CASE RecvEofAck(s) \/ RecvRpos(s) \/ RecvHaltAck(s) \/ RecvHalt(s)
      BY <3>3 DEF RecvEofAck, RecvRpos, RecvHaltAck, RecvHalt
    <3> QED BY <2>4, <3>1, <3>2, <3>3 DEF Receive
  <2> QED BY <1>8, <2>1, <2>2, <2>3, <2>4
<1> QED BY <1>2, <1>3, <1>4, <1>5, <1>6, <1>7, <1>8 DEF Next

\* No step of the only session files a file again, nor brings up one that is there.
LEMMA NewStep ==
  ASSUME MaxRequests = 0, NamedOnce, TypeOK, ReceivedPlaced, Intact, Delivery,
         NoRefusal, NoRefusal', AllNew, ReceivedOnce, env.sessions <= 1, [Next]_vars
  PROVE  AllNew' /\ ReceivedOnce' /\ env'.sessions <= 1
<1>1. ReceivedOnce'
  <2>1. CASE UNCHANGED got BY <2>1 DEF ReceivedOnce
  <2>2. ASSUME NEW s \in Stations, RecvBlock(s) PROVE ReceivedOnce'
    BY <2>2, NewAfterBlock
  <2> QED BY <2>1, <2>2, GotStep
<1>2. env'.sessions <= 1
  <2>1. env'.sessions = env.sessions
    BY SessionsKept
  <2> QED BY <2>1
<1>3. AllNew'
  <2>1. CASE UNCHANGED vars
    <3>1. UNCHANGED <<chan, tx, rx, reqdone, got>> BY <2>1 DEF vars
    <3> QED BY <3>1, SameHalves, AllStillNew
  <2>2. CASE LineDrop
    <3>1. UNCHANGED <<tx, rx, reqdone, got>> BY <2>2 DEF LineDrop, disk
    <3> QED BY <2>2, <3>1, DropLoses, LosesAsks, SameHalves, AllStillNew
  <2>3. ~NewSession
    <3>1. env.sessions \in Nat BY DEF TypeOK
    <3> QED BY <3>1 DEF NewSession
  <2>4. ASSUME NEW s \in Stations,
               \/ Transmit(s) \/ Receive(s) \/ Timers(s) \/ EndBatch(s) \/ NoCarrier(s)
               \/ HangUp(s) \/ Escape(s) \/ EndEscape(s) \/ Noise(s)
        PROVE  AllNew'
    <3>1. CASE \/ Transmit(s) \/ Timers(s) \/ EndBatch(s) \/ NoCarrier(s)
               \/ HangUp(s) \/ Escape(s) \/ EndEscape(s) \/ Noise(s) \/ RecvHalt(s)
      BY <3>1, NewElsewhere
    <3>2. CASE RecvGap(s) \/ RecvStray(s) \/ RecvRpos(s) \/ RecvHaltAck(s)
      BY <3>2, NewAfterRead
    <3>3. CASE RecvBlock(s) BY <3>3, NewAfterBlock
    <3>4. CASE RecvFname(s) \/ RecvFreqNak(s) BY <3>4, NewAfterFname, NewAfterFreqNak
    <3>5. CASE RecvFnack(s) \/ RecvFreq(s) BY <3>5, NewAfterFnack, NewAfterFreq
    <3>6. CASE RecvFrnakAck(s) \/ RecvEofAck(s) BY <3>6, NewAfterFrnakAck, NewAfterEofAck
    <3> QED BY <2>4, <3>1, <3>2, <3>3, <3>4, <3>5, <3>6 DEF Receive
  <2> QED BY <2>1, <2>2, <2>3, <2>4 DEF Next
<1> QED BY <1>1, <1>2, <1>3

\* At the start nothing has been filed, nor asked for.
LEMMA NewInit == Init => AllNew /\ ReceivedOnce /\ env.sessions = MaxSessions
<1> SUFFICES ASSUME Init PROVE AllNew /\ ReceivedOnce /\ env.sessions = MaxSessions
  OBVIOUS
<1>1. env.sessions = MaxSessions BY DEF Init
<1>2. \A s \in Stations : got[s] = <<>> BY DEF Init
<1>3. ReceivedOnce BY <1>2 DEF ReceivedOnce
<1>4. ASSUME NEW s \in Stations PROVE NewHere(s)
  <2> DEFINE p == Peer(s)
             t == tx[s]
             r == rx[p]
             G == Filed(p)
  <2>1. p \in Stations BY TypeInit, HalfTypes
  <2>2. G = {} BY <1>2, <2>1 DEF Filed
  <2>3. t = TxStart(s) /\ r = RxStart(p) /\ chan[s] = <<>> BY <2>1 DEF Init
  <2>4. ~t.sendreq
    <3> HIDE DEF t
    <3> QED BY <2>3 DEF TxStart, FirstOf
  <2>5. r.state = "RRCVFNAME" BY <2>3 DEF RxStart
  <2>6. ~Asked(chan[s]) BY <2>3 DEF Asked, In
  <2> HIDE DEF G, t, r, p
  <2>7. FreshFile(s, t, r, G) /\ FreshList(p, t, r, reqdone[p], G)
    BY <2>2, <2>4 DEF FreshFile, FreshList
  <2>8. FreshRequests(p, t, r, chan[s], reqdone[p], G)
    BY <2>2, <2>4, <2>6 DEF FreshRequests, NoneOf
  <2> QED BY <2>7, <2>8 DEF NewHere, Fresh, G, t, r, p
<1> QED BY <1>1, <1>3, <1>4 DEF AllNew

\* In one session, while nobody refuses a file, requests are not limited and no name
\* is listed twice, no file is filed twice: neither RPOS, nor a repeated name or
\* request, nor a block or an acknowledgement that was lost starts a file again
\* that is already here.
THEOREM ReceivedOnceHolds ==
  ASSUME MaxRequests = 0, MaxSessions = 1, NamedOnce
  PROVE  Spec /\ []NoRefusal => []ReceivedOnce
<1> DEFINE Inv == AllNew /\ ReceivedOnce /\ env.sessions <= 1
<1>1. Init => Inv
  BY NewInit
<1>2. SessionInv /\ NoRefusal /\ NoRefusal' /\ Inv /\ [Next]_vars => Inv'
  BY NewStep DEF SessionInv
<1>3. Inv => ReceivedOnce
  OBVIOUS
<1> HIDE DEF Inv
<1> QED BY <1>1, <1>2, <1>3, SessionHolds, PTL DEF Spec

-----------------------------------------------------------------------------
(* Nobody refuses a file: what the peer is offered is new to it, and fits     *)

\* The peer has none of the files that may be sent to it, by itself or on request.
NewMail ==
  \A s \in Stations :
    /\ ToSend(s) \cap Held[Peer(s)] = {}
    /\ \A k \in 1 .. Len(Requests[Peer(s)]) :
         NoneOf(Answer[Requests[Peer(s)][k]], Held[Peer(s)])

\* When procfname() looks at Diskavail there is room for the file.
NameFits == \A s \in Stations :
  LET f == Head(chan[s]).file
  IN  Receives(s, "FNAME") /\ rx[s].state = "RRCVFNAME" /\ f # None => Size[f] <= rx[s].room

\* A file in the inbound area was there before, or has been filed ...
InboundKnown == \A s \in Stations : inbound[s] \subseteq Held[s] \cup Filed(s)
\* ... and the null name was not refused.
EndTaken == \A s \in Stations : rx[s].state = "RDONE" => rx[s].pos # -1

\* The answers to names on a line
Fnacks(c) == {x \in In(c, Back) : x.type = "FNACK"}

\* A line that gets no answer to a name has none it had not.
LEMMA FnacksKept ==
  ASSUME NEW c, NEW c1,
         \/ Fewer(c, c1, Back)
         \/ \E x : Adds(c, c1, x, Back) /\ x.type # "FNACK"
  PROVE  Fnacks(c1) \subseteq Fnacks(c)
BY DEF Fewer, Adds, Fnacks

\* A line that loses packets has no more answers than before.
LEMMA LosesFnacks ==
  ASSUME LosesOnly
  PROVE  \A u \in Stations : Fnacks(chan'[u]) \subseteq Fnacks(chan[u])
<1>1. \A u \in Stations : Fewer(chan[u], chan'[u], Back) BY DEF LosesOnly
<1> QED BY <1>1, FnacksKept

\* A packet is answered, with something else.
LEMMA OtherReply ==
  ASSUME TypeOK, NEW s \in Stations, chan[s] # <<>>, NEW x \in Packet, x.type # "FNACK",
         Consume(s) \/ Reply(s, x)
  PROVE  \A u \in Stations : Fnacks(chan'[u]) \subseteq Fnacks(chan[u])
<1>1. CASE Consume(s) BY <1>1, ConsumeLoses, LosesFnacks
<1>2. CASE Reply(s, x)
  <2> DEFINE p == Peer(s)
  <2>1. Fewer(chan[s], chan'[s], Back) /\ Adds(chan[p], chan'[p], x, Back)
    BY <1>2, ReplyLines
  <2>2. \A u \in Stations : u = s \/ u = p BY HalfTypes
  <2> HIDE DEF p
  <2> QED BY <2>1, <2>2, FnacksKept
<1> QED BY <1>1, <1>2

\* Only a receiver that reads a name answers one.
LEMMA FnacksStep ==
  ASSUME TypeOK, ReceivedPlaced, Intact, Delivery, [Next]_vars, ~NewSession,
         \A s \in Stations : ~RecvFname(s)
  PROVE  \A u \in Stations : Fnacks(chan'[u]) \subseteq Fnacks(chan[u])
<1>1. CASE UNCHANGED chan BY <1>1
<1>2. CASE LineDrop BY <1>2, DropLoses, LosesFnacks
<1>3. ASSUME NEW s \in Stations,
             \/ Transmit(s) \/ Timers(s) \/ EndBatch(s) \/ NoCarrier(s)
             \/ HangUp(s) \/ Escape(s) \/ EndEscape(s) \/ Noise(s) \/ RecvHalt(s)
      PROVE  \A u \in Stations : Fnacks(chan'[u]) \subseteq Fnacks(chan[u])
  <2>1. CASE Transmit(s)
    <3> DEFINE p == Peer(s)
    <3>1. \A u \in Stations : u = s \/ u = p BY HalfTypes
    <3>2. PICK x \in Packet : Send(s, x) /\ x.type \in Forth
      BY <2>1, TransmitKeeps
    <3>3. x.type \notin Back BY <3>2 DEF Forth, Back
    <3>4. chan'[s] = chan[s] /\ Fewer(chan[p], chan'[p], Back)
      BY <3>2, <3>3, SendLines
    <3> HIDE DEF p
    <3> QED BY <3>1, <3>4, FnacksKept
  <2>2. CASE XmitTimeout(s) \/ RposTimeout(s) BY <2>2, TimersKeep
  <2>3. CASE BrainDead(s) \/ Escape(s) \/ NoCarrier(s) \/ RecvHalt(s)
    BY <2>3, GivesUp, LosesFnacks
  <2>4. CASE EndBatch(s) \/ EndEscape(s) \/ HangUp(s) \/ Noise(s)
    BY <2>4, EndLoses, LosesFnacks
  <2> QED BY <1>3, <2>1, <2>2, <2>3, <2>4 DEF Timers
<1>4. ASSUME NEW s \in Stations, Receive(s), ~RecvHalt(s)
      PROVE  \A u \in Stations : Fnacks(chan'[u]) \subseteq Fnacks(chan[u])
  <2>1. chan[s] # <<>>
    BY <1>4 DEF Receive, RecvBlock, RecvGap, RecvStray, RecvFname, RecvFnack, RecvFreq,
                RecvFreqNak, RecvFrnakAck, RecvEofAck, RecvRpos, RecvHaltAck, Receives
  <2> DEFINE z == Pkt("EOFACK")
             y == Pkt("FRNAKACK")
  <2>2. z \in Packet /\ z.type # "FNACK" /\ y \in Packet /\ y.type # "FNACK"
    BY DEF Pkt, Packet, PktTypes
  <2> HIDE DEF z, y
  <2>3. CASE RecvBlock(s)
    <3>1. Consume(s) \/ Reply(s, z)
      <4> DEFINE full == Completes(rx[s], Head(chan[s]).arg)
      <4>1. (full => Reply(s, Pkt("EOFACK"))) /\ (~full => Consume(s)) BY <2>3, BlockStep
      <4> QED BY <4>1 DEF z
    <3> QED BY <2>1, <2>2, <3>1, OtherReply
  <2>4. CASE RecvStray(s)
    <3>1. Consume(s) \/ Reply(s, z) BY <2>4 DEF RecvStray, z
    <3> QED BY <2>1, <2>2, <3>1, OtherReply
  <2>5. CASE RecvFreqNak(s)
    <3>1. Reply(s, y) BY <2>5 DEF RecvFreqNak, y
    <3> QED BY <2>1, <2>2, <3>1, OtherReply
  <2>6. CASE RecvGap(s) BY <2>6, GapLoses, LosesFnacks
  <2>7. CASE RecvRpos(s) \/ RecvHaltAck(s) BY <2>7, RposKeeps, LosesFnacks
  <2>8. CASE RecvFnack(s) BY <2>8, FnackLoses, LosesFnacks
  <2>9. CASE RecvFreq(s) \/ RecvFrnakAck(s) \/ RecvEofAck(s)
    <3>1. Consume(s) BY <2>9 DEF RecvFreq, RecvFrnakAck, RecvEofAck
    <3> QED BY <2>1, <3>1, ConsumeLoses, LosesFnacks
  <2> QED BY <1>4, <2>3, <2>4, <2>5, <2>6, <2>7, <2>8, <2>9 DEF Receive
<1>5. UNCHANGED vars => UNCHANGED chan BY DEF vars
<1> QED BY <1>1, <1>2, <1>3, <1>4, <1>5 DEF Next

\* The file under way is one of the outbound, or was asked for: the peer does not hold it.
LEMMA FileNew ==
  ASSUME NewMail, NEW s \in Stations, NEW t, NEW r, NEW c, NEW b, NEW d \in Nat, NEW S, NEW A,
         Dir(s, t, r, c, b, d, S, A), NEW G, Fresh(s, t, r, b, d, G),
         t \in TxRecord, t \in TxType, Len(Requests[Peer(s)]) \in Nat, t.file # None
  PROVE  t.file \notin Held[Peer(s)]
<1> DEFINE p == Peer(s)
<1>1. CASE ~t.sendreq
  <2>1. t.file \in ToSend(s) BY <1>1 DEF Dir, ScanInv, ToSend
  <2> QED BY <2>1 DEF NewMail
<1>2. CASE t.sendreq
  <2>1. t.file = Head(t.reqtmp) /\ More(p, d) BY <1>2 DEF Dir, RequestInv
  <2>2. t.reqtmp \in Seq(Files) /\ t.reqtmp # <<>> BY <1>2 DEF TxType, TxRecord
  <2>3. 1 \in DOMAIN t.reqtmp /\ Head(t.reqtmp) = t.reqtmp[1]
    BY <2>2, HeadTailProperties, LenProperties, EmptySeq
  <2>4. PICK k \in DOMAIN Ans(p, d) : t.reqtmp[1] = Ans(p, d)[k]
    BY <1>2, <2>3 DEF Fresh, FreshList
  <2>5. d + 1 \in 1 .. Len(Requests[p]) BY <2>1 DEF More
  <2>6. NoneOf(Ans(p, d), Held[p]) BY <2>5 DEF NewMail, Ans
  <2> QED BY <2>1, <2>3, <2>4, <2>6 DEF NoneOf
<1> QED BY <1>1, <1>2

\* A name that is read is one the receiver has no file of.
LEMMA NameNew ==
  ASSUME NewMail, TypeOK, Delivery, AllNew, InboundKnown, NEW s \in Stations,
         Receives(s, "FNAME"), rx[s].state = "RRCVFNAME", Head(chan[s]).file # None
  PROVE  Head(chan[s]).file \in Files /\ Head(chan[s]).file \notin inbound[s]
<1> DEFINE o == Peer(s)
           x == Head(chan[s])
           t == tx[o]
           r == rx[s]
           c == chan[s]
           b == chan[o]
           d == reqdone[s]
           G == Filed(s)
<1>1. o \in Stations /\ Peer(o) = s BY HalfTypes
<1>2. c # <<>> /\ x.type = "FNAME" BY DEF Receives
<1>3. x.file \in Files BY <1>2, HeadType DEF PacketTo, Packet
<1>4. x \in In(c, Forth)
  <2>1. c \in Seq(Packet) BY HalfTypes
  <2>2. x.type \in Forth BY <1>2 DEF Forth
  <2>3. x = c[1] /\ 1 \in DOMAIN c BY <1>2, <2>1, HeadTailProperties, LenProperties, EmptySeq
  <2> QED BY <2>2, <2>3 DEF In
<1>5. Dir(o, t, r, c, b, d, Struck, Here(s)) /\ Shapes(t, r)
  BY <1>1, BothDirections, HalfTypes DEF Delivery, Direction
<1>6. Fresh(o, t, r, b, d, G) BY <1>1 DEF AllNew, NewHere
<1>7. t \in TxRecord /\ t \in TxType /\ d \in Nat BY <1>1, HalfTypes DEF TypeOK
<1>8. Len(Requests[Peer(o)]) \in Nat BY <1>1, RequestsAssumption
<1> HIDE DEF o, x, t, r, c, b, d, G
<1>9. r.state = "RRCVFNAME" /\ x.file # None BY DEF r, x
<1>10. Names(t) /\ t.file = x.file
  BY <1>2, <1>4, <1>5, <1>9 DEF Dir, NamingInv, SendingInv, DenyingInv, DoneInv, Shapes
<1>11. t.file \notin G BY <1>6, <1>9, <1>10 DEF Fresh, FreshFile
<1>12. t.file \notin Held[s]
  BY <1>1, <1>5, <1>6, <1>7, <1>8, <1>9, <1>10, FileNew
<1>13. x.file \in Files /\ x.file \notin inbound[s]
  BY <1>3, <1>10, <1>11, <1>12 DEF InboundKnown, G
<1> QED BY <1>13 DEF x

\* So procfname() finds where to start, unless there is no room.
LEMMA NameTaken ==
  ASSUME NewMail, TypeOK, Delivery, AllNew, InboundKnown, EndTaken, NameFits,
         NEW s \in Stations, RecvFname(s)
  PROVE  LET f == Head(chan[s]).file
             r == IF rx[s].state = "RRCVFNAME" THEN ProcFname(s, f) ELSE rx[s]
         IN  r \in RxRecord /\ r.state = rx[s].state /\ r.pos # -1
<1> DEFINE f  == Head(chan[s]).file
           r0 == rx[s]
           r  == IF r0.state = "RRCVFNAME" THEN ProcFname(s, f) ELSE r0
<1>1. Receives(s, "FNAME") BY DEF RecvFname
<1>2. chan[s] # <<>> /\ Head(chan[s]).type = "FNAME" BY <1>1 DEF Receives
<1>3. f \in Files \cup {None} BY <1>2, HeadType DEF PacketTo, Packet
<1>4. r0 \in RxType /\ r0 \in RxRecord BY HalfTypes
<1>5. CASE r0.state # "RRCVFNAME"
  <2>1. r = r0 BY <1>5
  <2>2. r0.state \in {"RDONE", "RRCVBLK"} BY <1>4, <1>5 DEF RxRecord
  <2>3. r0.pos # -1 BY <1>4, <2>2 DEF RxType, EndTaken
  <2> QED BY <1>4, <2>1, <2>3
<1>6. CASE r0.state = "RRCVFNAME"
  <2>1. ProcFname(s, f) \in RxRecord /\ ProcFname(s, f).state = r0.state
    <3> HIDE DEF f
    <3> QED BY <1>3, <1>4, <1>6, ProcFnameType DEF RxType
  <2>2. CASE f = None
    <3>1. ProcFname(s, f) = [r0 EXCEPT !.file = None, !.pos = 0, !.data = <<>>]
      BY <2>2 DEF ProcFname
    <3>2. ProcFname(s, f).pos = 0
      <4> HIDE DEF r0, f
      <4> QED BY <1>4, <3>1 DEF RxRecord
    <3> HIDE DEF f, r0
    <3> QED BY <1>6, <2>1, <3>2 DEF f, r0
  <2>3. CASE f # None
    <3>1. f \in Files /\ f \notin inbound[s] BY <1>1, <1>6, <2>3, NameNew
    <3>2. Size[f] <= rx[s].room BY <1>1, <1>6, <2>3 DEF NameFits
    <3>3. Size[f] \in Nat BY <3>1, FilesAssumption
    <3>4. Len(partial[s][f]) \in Nat
      <4>1. partial[s][f] \in UnitSeqs BY <3>1 DEF TypeOK
      <4> QED BY <4>1, LenProperties DEF UnitSeqs
    <3>5. rx[s].room \in Int BY <1>4 DEF RxRecord
    <3> DEFINE st == Start(s, f)
               dt == partial[s][f]
    <3>6. st # -1
      <4> HIDE DEF f
      <4> QED BY <3>1, <3>2, <3>3, <3>4, <3>5 DEF Start
    <3>7. ProcFname(s, f) = [r0 EXCEPT !.file = f, !.pos = st, !.data = dt]
      BY <2>3 DEF ProcFname
    <3>8. ProcFname(s, f).pos = st
      <4> HIDE DEF st, dt, r0, f
      <4> QED BY <1>4, <3>7 DEF RxRecord
    <3> HIDE DEF st, f, r0
    <3> QED BY <1>6, <2>1, <3>6, <3>8 DEF f, r0
  <2> QED BY <2>2, <2>3
<1> QED BY <1>5, <1>6

\* An answer to a name that was read, and the state that goes with it.
LEMMA NameAnswered ==
  ASSUME NewMail, TypeOK, Delivery, AllNew, InboundKnown, EndTaken, NameFits, NoRefusal,
         NEW s \in Stations, RecvFname(s)
  PROVE  NoRefusal' /\ EndTaken'
<1> DEFINE o  == Peer(s)
           f  == Head(chan[s]).file
           r  == IF rx[s].state = "RRCVFNAME" THEN ProcFname(s, f) ELSE rx[s]
<1>1. /\ o \in Stations /\ Peer(o) = s /\ o # s /\ \A u \in Stations : u = s \/ u = o
      /\ chan[s] \in Seq(Packet) /\ chan[o] \in Seq(Packet)
  BY HalfTypes
<1>2. chan[s] # <<>> /\ Head(chan[s]).type = "FNAME" BY DEF RecvFname, Receives
<1>3. f \in Files \cup {None} BY <1>2, HeadType DEF PacketTo, Packet
<1>4. r \in RxRecord /\ r.state = rx[s].state /\ r.pos # -1 BY NameTaken
<1>5. r.pos \in Int
  <2> HIDE DEF r
  <2> QED BY <1>4 DEF RxRecord
<1> DEFINE null  == r.file = None
           done  == IF null /\ Served(s, r) THEN reqdone[s] + 1 ELSE reqdone[s]
           state == IF r.pos = -1 THEN r.state ELSE IF null THEN "RDONE" ELSE "RRCVBLK"
           asks  == null /\ done < Len(Requests[s])
           go    == r.started \/ r.attempting
           y     == [r EXCEPT !.attempting = TRUE, !.started = FALSE]
           z     == [r EXCEPT !.state = state, !.attempting = FALSE, !.started = go]
           x     == Fnack(f, r.pos)
           q     == [chan EXCEPT ![s] = Tail(@), ![Peer(s)] = Append(@, x)]
           over  == BatchOver(tx[s].state, state)
<1>6. IF asks
      THEN rx' = [rx EXCEPT ![s] = y] /\ Reply(s, Freq(done + 1))
      ELSE rx' = [rx EXCEPT ![s] = z] /\ LeaveOrStay(s, q, over)
  BY DEF RecvFname
<1>7. y.pos # -1 /\ z.pos # -1
  <2> HIDE DEF r, state, go
  <2> QED BY <1>4 DEF RxRecord
<1>8. EndTaken'
  <2> HIDE DEF y, z, r, asks
  <2>1. rx \in [Stations -> RxType] BY DEF TypeOK
  <2> QED BY <1>6, <1>7, <2>1 DEF EndTaken
<1>9. NoRefusal'
  <2>1. NoRefusal' <=> \A u \in Stations : \A k \in Fnacks(chan'[u]) : k.pos # -1
    BY DEF NoRefusal, Fnacks
  <2>2. \A u \in Stations : \A k \in Fnacks(chan[u]) : k.pos # -1
    BY DEF NoRefusal, Fnacks
  <2>3. CASE asks
    <3> DEFINE w == Freq(done + 1)
    <3>1. Reply(s, w) BY <1>6, <2>3
    <3>2. w \in Packet /\ w.type # "FNACK"
      <4>1. done \in Int
        <5>1. reqdone[s] \in Nat BY DEF TypeOK
        <5> HIDE DEF null, r
        <5> QED BY <5>1
      <4> HIDE DEF done
      <4> QED BY <4>1 DEF Freq, Packet, PktTypes
    <3> HIDE DEF w
    <3>3. \A u \in Stations : Fnacks(chan'[u]) \subseteq Fnacks(chan[u])
      BY <1>2, <3>1, <3>2, OtherReply
    <3> QED BY <2>1, <2>2, <3>3
  <2>4. CASE ~asks
    <3>1. x \in Packet /\ x.pos = r.pos
      <4> HIDE DEF r, f
      <4> QED BY <1>3, <1>5 DEF Fnack, Packet, PktTypes
    <3>2. over \in BOOLEAN BY DEF BatchOver
    <3>3. LeaveOrStay(s, q, over) BY <1>6, <2>4
    <3> HIDE DEF x
    <3>4. /\ q \in [Stations -> Seq(Packet)]
          /\ \A T : Fewer(chan[s], q[s], T)
          /\ \A T : Adds(chan[o], q[o], x, T)
      <4>1. /\ q \in [Stations -> Seq(Packet)]
            /\ q[s] = Tail(chan[s]) /\ q[o] = Append(chan[o], x)
        BY <1>2, <3>1, ReplyLine
      <4> HIDE DEF q, o
      <4>2. \A T : Fewer(chan[s], q[s], T) BY <1>1, <1>2, <4>1, LineRead
      <4>3. \A T : Adds(chan[o], q[o], x, T) BY <1>1, <3>1, <4>1, LineSent
      <4> QED BY <4>1, <4>2, <4>3
    <3> HIDE DEF q
    <3>5. chan'[s] = q[s] /\ \A T \in {Forth, Back} : Fewer(q[o], chan'[o], T)
      BY <3>2, <3>3, <3>4, LeaveLines
    <3>6. Fewer(chan[s], chan'[s], Back) /\ Adds(chan[o], chan'[o], x, Back)
      BY <3>4, <3>5, AddsFewer
    <3>7. /\ Fnacks(chan'[s]) \subseteq Fnacks(chan[s])
          /\ Fnacks(chan'[o]) \subseteq Fnacks(chan[o]) \cup {x}
      BY <3>6 DEF Fewer, Adds, Fnacks
    <3>8. x.pos # -1 BY <1>4, <3>1
    <3> QED BY <1>1, <2>1, <2>2, <3>7, <3>8
  <2> QED BY <2>3, <2>4
<1> QED BY <1>8, <1>9

\* Elsewhere the end of reception stays what it is.
LEMMA EndStep ==
  ASSUME TypeOK, ReceivedPlaced, Intact, Delivery, EndTaken, [Next]_vars, ~NewSession,
         \A s \in Stations : ~RecvFname(s)
  PROVE  EndTaken'
<1>1. rx \in [Stations -> RxType] BY DEF TypeOK
<1>2. CASE UNCHANGED rx BY <1>2 DEF EndTaken
<1>3. ASSUME NEW s \in Stations, NEW y, rx' = [rx EXCEPT ![s] = y],
             y.state = "RDONE" => y.pos # -1
      PROVE  EndTaken'
  BY <1>1, <1>3 DEF EndTaken
<1>4. ASSUME NEW s \in Stations, RecvBlock(s) PROVE EndTaken'
  <2> DEFINE full == Completes(rx[s], Head(chan[s]).arg)
  <2>1. /\ rx'[s].state = (IF full THEN "RRCVFNAME" ELSE "RRCVBLK")
        /\ \A u \in Stations : u # s => rx'[u] = rx[u]
    BY <1>4, BlockStep
  <2> HIDE DEF full
  <2> QED BY <2>1 DEF EndTaken
<1>5. ASSUME NEW s \in Stations, RecvGap(s) PROVE EndTaken'
  <2>1. rx[s].state # "RDONE" /\ rx[s] \in RxRecord BY <1>5, HalfTypes DEF RecvGap
  <2>2. /\ \A u \in Stations : rx'[u].state = rx[u].state
        /\ \A u \in Stations : u # s => rx'[u] = rx[u]
    <3>1. \A u \in Stations : SameRx(rx[u], rx'[u]) BY <1>5, GapLoses
    <3>2. \E y : rx' = [rx EXCEPT ![s] = y] BY <1>5 DEF RecvGap
    <3> QED BY <1>1, <3>1, <3>2 DEF SameRx
  <2> QED BY <2>1, <2>2 DEF EndTaken
<1>6. ASSUME NEW s \in Stations, RecvFreqNak(s) \/ RposTimeout(s) PROVE EndTaken'
  <2>1. rx[s] \in RxRecord BY HalfTypes
  <2> DEFINE y == [rx[s] EXCEPT !.attempting = FALSE, !.started = TRUE]
             z == [rx[s] EXCEPT !.waiting = FALSE, !.samesec = FALSE]
  <2>2. rx' = [rx EXCEPT ![s] = y] \/ rx' = [rx EXCEPT ![s] = z]
    BY <1>6 DEF RecvFreqNak, RposTimeout
  <2>3. y.state = rx[s].state /\ y.pos = rx[s].pos /\ z.state = rx[s].state /\ z.pos = rx[s].pos
    BY <2>1 DEF RxRecord
  <2> HIDE DEF y, z
  <2> QED BY <1>3, <2>2, <2>3 DEF EndTaken
<1>7. ASSUME NEW s \in Stations,
             \/ Transmit(s) \/ Receive(s) \/ Timers(s) \/ EndBatch(s) \/ NoCarrier(s)
             \/ HangUp(s) \/ Escape(s) \/ EndEscape(s) \/ Noise(s)
      PROVE  UNCHANGED rx \/ RecvBlock(s) \/ RecvGap(s) \/ RecvFreqNak(s) \/ RposTimeout(s)
  <2>1. CASE Transmit(s) \/ XmitTimeout(s)
    BY <2>1 DEF Transmit, SendBlk, SendFname, SendFreqNak, XmitTimeout
  <2>2. CASE BrainDead(s) \/ NoCarrier(s) \/ Escape(s) \/ RecvHalt(s)
    BY <2>2, GivesUp
  <2>3. CASE EndBatch(s) \/ EndEscape(s) \/ HangUp(s) \/ Noise(s)
    BY <2>3 DEF EndBatch, EndRecv, EndTimeout, EndNoCarrier, EndEscape, HangUp, Noise
  <2>4. CASE \/ RecvStray(s) \/ RecvFreq(s) \/ RecvFnack(s) \/ RecvRpos(s) \/ RecvHaltAck(s)
             \/ RecvFrnakAck(s) \/ RecvEofAck(s)
    BY <2>4 DEF RecvStray, RecvFreq, RecvFnack, RecvRpos, RecvHaltAck, RecvFrnakAck, RecvEofAck
  <2> QED BY <1>7, <2>1, <2>2, <2>3, <2>4 DEF Timers, Receive
<1>8. UNCHANGED vars \/ LineDrop => UNCHANGED rx BY DEF vars, LineDrop
<1> QED BY <1>2, <1>4, <1>5, <1>6, <1>7, <1>8 DEF Next

\* What comes into the inbound area is filed under its name.
LEMMA InboundStep ==
  ASSUME TypeOK, ReceivedPlaced, Intact, Delivery, InboundKnown, [Next]_vars, ~NewSession
  PROVE  InboundKnown'
<1>1. ASSUME NEW s \in Stations, RecvBlock(s) PROVE InboundKnown'
  <2> DEFINE r == rx[s]
             f == r.file
             e == r.data \o Units(r.file, Len(r.data), Head(chan[s]).arg)
             full == Completes(r, Head(chan[s]).arg)
             x == [name |-> f, data |-> e]
  <2>1. /\ f \in Files /\ e \in UnitSeqs
        /\ full => got' = [got EXCEPT ![s] = Append(@, x)]
        /\ ~full => UNCHANGED got
    BY <1>1, BlockStep
  <2>2. (full => inbound' \in {inbound, [inbound EXCEPT ![s] = @ \cup {f}]})
        /\ (~full => UNCHANGED inbound)
    BY <1>1 DEF RecvBlock
  <2> HIDE DEF e, f, full
  <2>3. x \in [name : Files, data : UnitSeqs] /\ x.name = f BY <2>1
  <2> HIDE DEF x
  <2>4. CASE ~full BY <2>1, <2>2, <2>4 DEF InboundKnown, Filed
  <2>5. CASE full
    <3>1. got' = [got EXCEPT ![s] = Append(@, x)] BY <2>1, <2>5
    <3>2. \A u \in Stations : \A i \in DOMAIN got[u] :
            i \in DOMAIN got'[u] /\ got'[u][i] = got[u][i]
      BY <2>3, <3>1, OneMoreKeeps
    <3>3. \E i \in DOMAIN got'[s] : got'[s][i] = x BY <2>3, <3>1, OneMoreHas
    <3>4. \A u \in Stations : Filed(u) \subseteq Filed(u)' BY <3>2 DEF Filed
    <3>5. f \in Filed(s)' BY <2>3, <3>3 DEF Filed
    <3>6. inbound \in [Stations -> SUBSET Files] BY DEF TypeOK
    <3>7. \A u \in Stations : inbound'[u] \subseteq inbound[u] \cup (IF u = s THEN {f} ELSE {})
      BY <2>2, <2>5, <3>6
    <3> QED BY <3>4, <3>5, <3>7 DEF InboundKnown
  <2> QED BY <2>4, <2>5
<1>2. CASE UNCHANGED <<got, inbound>>
  BY <1>2 DEF InboundKnown, Filed
<1>3. ASSUME NEW s \in Stations,
             \/ Transmit(s) \/ Receive(s) \/ Timers(s) \/ EndBatch(s) \/ NoCarrier(s)
             \/ HangUp(s) \/ Escape(s) \/ EndEscape(s) \/ Noise(s)
      PROVE  UNCHANGED <<got, inbound>> \/ RecvBlock(s)
  <2>1. CASE Transmit(s) \/ XmitTimeout(s) \/ RposTimeout(s)
    BY <2>1 DEF Transmit, SendBlk, SendFname, SendFreqNak, XmitTimeout, RposTimeout, disk
  <2>2. CASE BrainDead(s) \/ NoCarrier(s) \/ Escape(s) \/ RecvHalt(s)
    BY <2>2 DEF BrainDead, NoCarrier, Escape, RecvHalt, GiveUp
  <2>3. CASE EndBatch(s) \/ EndEscape(s) \/ HangUp(s) \/ Noise(s)
    BY <2>3 DEF EndBatch, EndRecv, EndTimeout, EndNoCarrier, EndEscape, HangUp, Noise, disk
  <2>4. CASE RecvGap(s) \/ RecvStray(s) \/ RecvFname(s) \/ RecvFreq(s) \/ RecvFnack(s)
    BY <2>4 DEF RecvGap, RecvStray, RecvFname, RecvFreq, RecvFnack, disk
  <2>5. CASE \/ RecvFreqNak(s) \/ RecvRpos(s) \/ RecvHaltAck(s) \/ RecvFrnakAck(s)
             \/ RecvEofAck(s)
    BY <2>5 DEF RecvFreqNak, RecvRpos, RecvHaltAck, RecvFrnakAck, RecvEofAck, disk
  <2> QED BY <1>3, <2>1, <2>2, <2>3, <2>4, <2>5 DEF Timers, Receive
<1>4. UNCHANGED vars \/ LineDrop => UNCHANGED <<got, inbound>> BY DEF vars, LineDrop, disk
<1> QED BY <1>1, <1>2, <1>3, <1>4 DEF Next

\* What holds of the only session as long as every file fits.
OnlySession == /\ SessionInv /\ NoRefusal
               /\ AllNew /\ ReceivedOnce /\ env.sessions <= 1
               /\ InboundKnown /\ EndTaken

\* No step of it refuses a file, nor prepares to.
LEMMA OnlySessionStep ==
  ASSUME MaxRequests = 0, NamedOnce, NewMail,
         OnlySession, NameFits, [Next]_vars, TypeOK'
  PROVE  OnlySession'
<1>1. TypeOK /\ ReceivedPlaced /\ Intact /\ Delivery BY DEF OnlySession, SessionInv
<1>2. /\ NoRefusal /\ AllNew /\ ReceivedOnce /\ env.sessions <= 1
      /\ InboundKnown /\ EndTaken
  BY DEF OnlySession
<1>3. ~NewSession
  <2>1. env.sessions \in Nat BY <1>1 DEF TypeOK
  <2> QED BY <1>2, <2>1 DEF NewSession
<1>4. NoRefusal' /\ EndTaken'
  <2>1. ASSUME NEW s \in Stations, RecvFname(s) PROVE NoRefusal' /\ EndTaken'
    BY <1>1, <1>2, <2>1, NameAnswered
  <2>2. CASE \A s \in Stations : ~RecvFname(s)
    <3>1. \A u \in Stations : Fnacks(chan'[u]) \subseteq Fnacks(chan[u])
      BY <1>1, <1>3, <2>2, FnacksStep
    <3>2. NoRefusal' BY <1>2, <3>1 DEF NoRefusal, Fnacks
    <3>3. EndTaken' BY <1>1, <1>2, <1>3, <2>2, EndStep
    <3> QED BY <3>2, <3>3
  <2> QED BY <2>1, <2>2
<1>5. InboundKnown' BY <1>1, <1>2, <1>3, InboundStep
<1>6. AllNew' /\ ReceivedOnce' /\ env'.sessions <= 1
  BY <1>1, <1>2, <1>4, NewStep
<1>7. SessionInv'
  BY <1>1, <1>2, <1>4, DeliveryStep, NextPlaced DEF SessionInv
<1> QED BY <1>4, <1>5, <1>6, <1>7 DEF OnlySession

\* At the start there is nothing on the line, and in the inbound areas what is held.
LEMMA OnlySessionInit ==
  ASSUME MaxSessions = 1, Init
  PROVE  OnlySession
<1>1. SessionInv BY TypeInit, DeliveryInit, PlacedInit DEF SessionInv
<1>2. AllNew /\ ReceivedOnce /\ env.sessions = 1 BY NewInit
<1>3. NoRefusal
  <2>1. \A s \in Stations : chan[s] = <<>> BY DEF Init
  <2> QED BY <2>1 DEF NoRefusal, In
<1>4. InboundKnown BY DEF Init, InboundKnown
<1>5. EndTaken BY DEF Init, EndTaken, RxStart
<1>6. env.sessions <= 1 BY <1>2
<1> QED BY <1>1, <1>2, <1>3, <1>4, <1>5, <1>6 DEF OnlySession

\* In one session in which no file is listed twice, the peer has none of them and
\* there is room for each, none is ever refused: whatever name is lost or repeated,
\* procfname() finds nothing of that name complete in the inbound area.
THEOREM NeverRefused ==
  ASSUME MaxRequests = 0, MaxSessions = 1, NamedOnce, NewMail
  PROVE  Spec /\ []NameFits => []NoRefusal
<1>1. Init => OnlySession BY OnlySessionInit
<1>2. OnlySession /\ NameFits /\ [Next]_vars /\ TypeOK' => OnlySession'
  BY OnlySessionStep
<1>3. OnlySession => NoRefusal BY DEF OnlySession
<1> QED BY <1>1, <1>2, <1>3, TypeCorrect, PTL DEF Spec

\* So all that was shown above holds of such a session, without asking it of the
\* peers: each file comes whole, and once; what was asked for is here when its
\* request is commented out; nothing is struck off before the peer has it; who
\* leaves in good order has delivered and received everything; an answer to a name
\* is about the file under way; what is kept only grows; and the session does what
\* MailTransfer promises.
THEOREM NewMailDelivered ==
  ASSUME MaxRequests = 0, MaxSessions = 1, NamedOnce, NewMail, OutboundsApart
  PROVE  Spec /\ []NameFits =>
           /\ []ReceivedIntact /\ []ReceivedOnce /\ []RequestsServed
           /\ []NoMailLost /\ []CleanEndMeansAll /\ []FnackIsForOurFile
           /\ PartialKept /\ TransfersMail
<1>1. Spec /\ []NameFits => []NoRefusal BY NeverRefused
<1>2. Spec /\ []NoRefusal => []ReceivedIntact BY ReceivedIntactHolds
<1>3. Spec /\ []NoRefusal => []ReceivedOnce BY ReceivedOnceHolds
<1>4. Spec /\ []NoRefusal => []RequestsServed BY RequestsServedHolds
<1>5. Spec /\ []NoRefusal => []NoMailLost BY NoMailLostHolds
<1>6. Spec /\ []NoRefusal => []CleanEndMeansAll BY CleanEndHolds
<1>7. Spec /\ []NoRefusal => []FnackIsForOurFile BY FnackHolds
<1>8. Spec /\ []NoRefusal => PartialKept BY PartialKeptHolds
<1>9. Spec /\ []NoRefusal => TransfersMail BY TransfersMailHolds
<1> HIDE DEF Spec, PartialKept, TransfersMail
<1> QED BY <1>1, <1>2, <1>3, <1>4, <1>5, <1>6, <1>7, <1>8, <1>9, PTL
=============================================================================
