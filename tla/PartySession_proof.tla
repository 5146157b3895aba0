-------------------------- MODULE PartySession_proof --------------------------
(***************************************************************************)
(* Proofs about PartySession, for every set of phones, room codes and      *)
(* sockets and any bound on the faults and the codes asked for.            *)
(*                                                                         *)
(* The roster is right because each socket of a phone is at one place of   *)
(* its life as the relay, the frames on the TV's wire and the roster see   *)
(* it (Row), and what the phones show because every frame that lets one    *)
(* into the TV's room makes the TV push.                                   *)
(***************************************************************************)
EXTENDS PartySession, SequenceTheorems, TLAPS

-----------------------------------------------------------------------------
(* Frames and wires *)

Frame == {Op(o) : o \in {"welcome", "err", "bye", "hostgone"}}
           \cup {Of(o, x) : o \in {"joined", "left"}, x \in PhoneSock}
SockIs == [far : {"none"}, room : Code \cup {""}, wire : Seq(Frame)]
            \cup [far : {"new", "in", "closing"}, room : Code, wire : Seq(Frame)]
Frames(w) == {w[i] : i \in 1..Len(w)}

LEMMA FrameNames ==
  /\ \A o \in {"welcome", "err", "bye", "hostgone"} : Op(o) \in Frame /\ Op(o).op = o
  /\ \A o \in {"joined", "left"} : \A x \in PhoneSock :
       Of(o, x) \in Frame /\ Of(o, x).op = o /\ Of(o, x).id = x
  /\ \A f \in Frame : f.op \in {"joined", "left"} => f.id \in PhoneSock /\ f = Of(f.op, f.id)
  /\ \A f \in Frame : f.op \notin {"joined", "left"} => f = Op(f.op)
<1>1. \A o \in {"welcome", "err", "bye", "hostgone"} : Op(o) \in Frame /\ Op(o).op = o
  BY DEF Frame, Op
<1>2. ASSUME NEW o \in {"joined", "left"}, NEW x \in PhoneSock
      PROVE  Of(o, x) \in Frame /\ Of(o, x).op = o /\ Of(o, x).id = x
  <2>1. Of(o, x) \in Frame
    BY DEF Frame
  <2>2. QED BY <2>1 DEF Of
<1>3. ASSUME NEW f \in Frame
      PROVE  \/ \E o \in {"welcome", "err", "bye", "hostgone"} : f = Op(o)
             \/ \E o \in {"joined", "left"}, x \in PhoneSock : f = Of(o, x)
  BY DEF Frame
<1>4. QED BY <1>1, <1>2, <1>3

LEMMA FramesRead ==
  ASSUME NEW w \in Seq(Frame), w # <<>>
  PROVE  /\ Tail(w) \in Seq(Frame) /\ Head(w) \in Frame
         /\ Frames(w) = {Head(w)} \cup Frames(Tail(w))
<1>1. /\ Tail(w) \in Seq(Frame) /\ Len(Tail(w)) = Len(w) - 1 /\ Len(w) \in Nat \ {0}
      /\ \A i \in 1..Len(Tail(w)) : Tail(w)[i] = w[i + 1]
      /\ Head(w) = w[1] /\ Head(w) \in Frame
  BY HeadTailProperties, LenProperties
<1>2. Frames(w) \subseteq {Head(w)} \cup Frames(Tail(w))
  <2>1. SUFFICES ASSUME NEW i \in 1..Len(w) PROVE w[i] \in {Head(w)} \cup Frames(Tail(w))
    BY DEF Frames
  <2>2. CASE i = 1
    BY <1>1, <2>2
  <2>3. CASE i # 1
    <3>1. i - 1 \in 1..Len(Tail(w)) /\ Tail(w)[i - 1] = w[i]
      BY <1>1, <2>1, <2>3
    <3>2. QED BY <3>1 DEF Frames
  <2>4. QED BY <2>2, <2>3
<1>3. {Head(w)} \cup Frames(Tail(w)) \subseteq Frames(w)
  <2>1. Head(w) \in Frames(w)
    BY <1>1 DEF Frames
  <2>2. ASSUME NEW i \in 1..Len(Tail(w)) PROVE Tail(w)[i] \in Frames(w)
    <3>1. i + 1 \in 1..Len(w)
      BY <1>1
    <3>2. QED BY <1>1, <3>1 DEF Frames
  <2>3. QED BY <2>1, <2>2 DEF Frames
<1>4. QED BY <1>1, <1>2, <1>3

LEMMA FramesSent ==
  ASSUME NEW w \in Seq(Frame), NEW v \in Seq(Frame)
  PROVE  w \o v \in Seq(Frame) /\ Frames(w \o v) = Frames(w) \cup Frames(v)
<1>1. /\ w \o v \in Seq(Frame) /\ Len(w \o v) = Len(w) + Len(v)
      /\ Len(w) \in Nat /\ Len(v) \in Nat
      /\ \A i \in 1..Len(w) + Len(v) : (w \o v)[i] = IF i <= Len(w) THEN w[i] ELSE v[i - Len(w)]
  BY ConcatProperties, LenProperties
<1>2. ASSUME NEW i \in 1..Len(w \o v) PROVE (w \o v)[i] \in Frames(w) \cup Frames(v)
  <2>1. CASE i <= Len(w)
    BY <1>1, <2>1 DEF Frames
  <2>2. CASE ~(i <= Len(w))
    <3>1. i - Len(w) \in 1..Len(v) /\ (w \o v)[i] = v[i - Len(w)]
      BY <1>1, <2>2
    <3>2. QED BY <3>1 DEF Frames
  <2>3. QED BY <2>1, <2>2
<1>3. ASSUME NEW i \in 1..Len(w) PROVE w[i] \in Frames(w \o v)
  <2>1. i \in 1..Len(w \o v) /\ (w \o v)[i] = w[i]
    BY <1>1
  <2>2. QED BY <2>1 DEF Frames
<1>4. ASSUME NEW i \in 1..Len(v) PROVE v[i] \in Frames(w \o v)
  <2>1. i + Len(w) \in 1..Len(w \o v) /\ (w \o v)[i + Len(w)] = v[i]
    BY <1>1
  <2>2. QED BY <2>1 DEF Frames
<1>5. QED BY <1>1, <1>2, <1>3, <1>4 DEF Frames

LEMMA FramesOne ==
  /\ <<>> \in Seq(Frame) /\ Frames(<<>>) = {}
  /\ \A f \in Frame : <<f>> \in Seq(Frame) /\ Frames(<<f>>) = {f}
  /\ \A f, g \in Frame : <<f, g>> \in Seq(Frame) /\ Frames(<<f, g>>) = {f, g}
<1>1. <<>> \in Seq(Frame) /\ Frames(<<>>) = {}
  BY DEF Frames
<1>2. ASSUME NEW f \in Frame PROVE <<f>> \in Seq(Frame) /\ Frames(<<f>>) = {f}
  <2>1. Len(<<f>>) = 1 /\ <<f>>[1] = f /\ <<f>> \in Seq(Frame)
    OBVIOUS
  <2>2. QED BY <2>1 DEF Frames
<1>3. ASSUME NEW f \in Frame, NEW g \in Frame
      PROVE  <<f, g>> \in Seq(Frame) /\ Frames(<<f, g>>) = {f, g}
  <2>1. Len(<<f, g>>) = 2 /\ <<f, g>>[1] = f /\ <<f, g>>[2] = g /\ <<f, g>> \in Seq(Frame)
    OBVIOUS
  <2>2. 1..2 = {1, 2}
    OBVIOUS
  <2>3. QED BY <2>1, <2>2 DEF Frames
<1>4. QED BY <1>1, <1>2, <1>3

\* The ids on a wire are those of its joined and left frames.
LEMMA NamedFrames ==
  ASSUME NEW w \in Seq(Frame)
  PROVE  /\ Named(w) \subseteq PhoneSock
         /\ \A x \in PhoneSock :
              x \in Named(w) <=> Of("joined", x) \in Frames(w) \/ Of("left", x) \in Frames(w)
<1>1. \A i \in 1..Len(w) : w[i] \in Frame
  BY ElementOfSeq
<1>2. ASSUME NEW x \in Named(w)
      PROVE  x \in PhoneSock /\ (Of("joined", x) \in Frames(w) \/ Of("left", x) \in Frames(w))
  <2>1. PICK i \in 1..Len(w) : w[i].op \in {"joined", "left"} /\ x = w[i].id
    BY <1>2 DEF Named
  <2>2. x \in PhoneSock /\ w[i] = Of(w[i].op, x)
    BY <1>1, <2>1, FrameNames
  <2>3. QED BY <2>1, <2>2 DEF Frames
<1>3. ASSUME NEW x \in PhoneSock, NEW o \in {"joined", "left"}, Of(o, x) \in Frames(w)
      PROVE  x \in Named(w)
  <2>1. PICK i \in 1..Len(w) : w[i] = Of(o, x)
    BY <1>3 DEF Frames
  <2>2. w[i].op = o /\ w[i].id = x
    BY <2>1, FrameNames
  <2>3. QED BY <2>2 DEF Named
<1>4. QED BY <1>2, <1>3

\* On a wire, a phone's socket does not join again after it has left.
InOrder(w) ==
  \A x \in PhoneSock : \A i, j \in 1..Len(w) :
    i < j /\ w[i] = Of("left", x) => w[j] # Of("joined", x)

LEMMA OrderRead ==
  ASSUME NEW w \in Seq(Frame), w # <<>>, InOrder(w)
  PROVE  /\ InOrder(Tail(w))
         /\ \A x \in PhoneSock : Head(w) = Of("left", x) => Of("joined", x) \notin Frames(Tail(w))
<1>1. /\ Len(Tail(w)) = Len(w) - 1 /\ Len(w) \in Nat \ {0} /\ Head(w) = w[1]
      /\ \A i \in 1..Len(Tail(w)) : Tail(w)[i] = w[i + 1] /\ i + 1 \in 1..Len(w)
  BY HeadTailProperties, LenProperties
<1>2. InOrder(Tail(w))
  <2>1. SUFFICES ASSUME NEW x \in PhoneSock, NEW i \in 1..Len(Tail(w)), NEW j \in 1..Len(Tail(w)),
                        i < j, Tail(w)[i] = Of("left", x)
                 PROVE  Tail(w)[j] # Of("joined", x)
    BY DEF InOrder
  <2>2. i + 1 \in 1..Len(w) /\ j + 1 \in 1..Len(w) /\ i + 1 < j + 1
    BY <1>1, <2>1
  <2>3. QED BY <1>1, <2>1, <2>2 DEF InOrder
<1>3. ASSUME NEW x \in PhoneSock, Head(w) = Of("left", x), NEW i \in 1..Len(Tail(w))
      PROVE  Tail(w)[i] # Of("joined", x)
  <2>1. 1 \in 1..Len(w) /\ i + 1 \in 1..Len(w) /\ 1 < i + 1
    BY <1>1
  <2>2. QED BY <1>1, <1>3, <2>1 DEF InOrder
<1>4. QED BY <1>2, <1>3 DEF Frames

LEMMA OrderSent ==
  ASSUME NEW w \in Seq(Frame), InOrder(w), NEW f \in Frame,
         \A x \in PhoneSock : f = Of("joined", x) => Of("left", x) \notin Frames(w)
  PROVE  InOrder(w \o <<f>>)
<1>1. /\ Len(w \o <<f>>) = Len(w) + 1 /\ Len(w) \in Nat
      /\ \A i \in 1..Len(w) + 1 : (w \o <<f>>)[i] = IF i <= Len(w) THEN w[i] ELSE f
  <2>1. <<f>> \in Seq(Frame) /\ Len(<<f>>) = 1 /\ <<f>>[1] = f
    OBVIOUS
  <2>2. /\ Len(w \o <<f>>) = Len(w) + 1 /\ Len(w) \in Nat
        /\ \A i \in 1..Len(w) + 1 : (w \o <<f>>)[i] = IF i <= Len(w) THEN w[i] ELSE <<f>>[i - Len(w)]
    BY <2>1, ConcatProperties, LenProperties
  <2>3. \A i \in 1..Len(w) + 1 : ~(i <= Len(w)) => i - Len(w) = 1
    BY <2>2
  <2>4. QED BY <2>1, <2>2, <2>3
<1>2. SUFFICES ASSUME NEW x \in PhoneSock, NEW i \in 1..Len(w) + 1, NEW j \in 1..Len(w) + 1,
                      i < j, (w \o <<f>>)[i] = Of("left", x)
               PROVE  (w \o <<f>>)[j] # Of("joined", x)
  BY <1>1 DEF InOrder
<1>3. i \in 1..Len(w) /\ w[i] = Of("left", x)
  BY <1>1, <1>2
<1>4. CASE j <= Len(w)
  <2>1. j \in 1..Len(w)
    BY <1>1, <1>4
  <2>2. QED BY <1>1, <1>2, <1>3, <1>4, <2>1 DEF InOrder
<1>5. CASE ~(j <= Len(w))
  <2>1. Of("left", x) \in Frames(w)
    BY <1>3 DEF Frames
  <2>2. QED BY <1>1, <1>5, <2>1
<1>6. QED BY <1>4, <1>5

LEMMA OrderNone ==
  ASSUME NEW w, \A x \in PhoneSock : Of("left", x) \notin Frames(w)
  PROVE  InOrder(w)
BY DEF InOrder, Frames

-----------------------------------------------------------------------------
(* Sockets, and what hanging up, sending and reading make of them *)

Socks == [Sock -> SockIs]
Dials == [Screen -> [is : {"off", "wait", "open"}, slot : Slot, room : Code]]

LEMMA Places ==
  /\ Slot0 \in Slot /\ Tv \in Screen /\ Phone \subseteq Screen
  /\ PhoneSock \subseteq Sock /\ ({Tv} \X Slot) \subseteq Sock
  /\ \A x \in Sock : x[1] \in Screen /\ x[2] \in Slot /\ x = <<x[1], x[2]>>
  /\ \A x \in PhoneSock : x[1] \in Phone /\ x[1] # Tv
  /\ \A x \in Sock : x \notin PhoneSock => x[1] = Tv
BY SessionAssumption DEF Slot0, Screen, Sock, PhoneSock

LEMMA FreeSock == Free \in SockIs /\ Free.far = "none" /\ Free.wire = <<>>
<1>1. Free.far = "none" /\ Free.wire = <<>> /\ Free.room = ""
  BY DEF Free
<1>2. QED BY <1>1, FramesOne DEF Free, SockIs

LEMMA LetSock ==
  ASSUME NEW S \in Socks, NEW w \in Screen
  PROVE  /\ Let(S, w) \in Socks
         /\ \A x \in Sock : x[1] # w => Let(S, w)[x] = S[x]
         /\ \A x \in Sock : S[x].far \in {"in", "closing"} =>
              Let(S, w)[x].far = S[x].far /\ Let(S, w)[x].room = S[x].room
         /\ \A x \in Sock : x[1] = w /\ S[x].far \in {"none", "new"} => Let(S, w)[x].far = "none"
<1>1. Let(S, w) = [x \in Sock |-> IF x[1] # w THEN S[x]
                     ELSE IF S[x].far \in {"none", "new"} THEN Free ELSE [S[x] EXCEPT !.wire = <<>>]]
  BY DEF Let
<1>2. ASSUME NEW x \in Sock
      PROVE  S[x] \in SockIs /\ [S[x] EXCEPT !.wire = <<>>] \in SockIs /\ Free \in SockIs
  BY FramesOne, FreeSock DEF Socks, SockIs
<1>3. Let(S, w) \in Socks
  BY <1>1, <1>2 DEF Socks
<1>4. ASSUME NEW x \in Sock, S[x].far \in {"in", "closing"}
      PROVE  Let(S, w)[x].far = S[x].far /\ Let(S, w)[x].room = S[x].room
  <2>1. [S[x] EXCEPT !.wire = <<>>].far = S[x].far /\ [S[x] EXCEPT !.wire = <<>>].room = S[x].room
    BY <1>2 DEF SockIs
  <2>2. Let(S, w)[x] = S[x] \/ Let(S, w)[x] = [S[x] EXCEPT !.wire = <<>>]
    BY <1>1, <1>4
  <2>3. QED BY <2>1, <2>2
<1>5. ASSUME NEW x \in Sock, x[1] = w, S[x].far \in {"none", "new"}
      PROVE  Let(S, w)[x].far = "none"
  <2>1. Let(S, w)[x] = Free
    BY <1>1, <1>5
  <2>2. QED BY <2>1, FreeSock
<1>6. QED BY <1>1, <1>3, <1>4, <1>5

\* A wire with frames sent after it; the provers need not look inside.
Joined(w, v) == w \o v

LEMMA HostSock ==
  ASSUME NEW S \in Socks, NEW X, NEW frames \in Seq(Frame)
  PROVE  LET T == ToHost(S, X, frames) IN
         /\ T \in Socks
         /\ \A x \in Sock : T[x].far = S[x].far /\ T[x].room = S[x].room
         /\ \A x \in Sock : x \in X /\ Live(x) =>
              /\ T[x].wire = Joined(S[x].wire, frames)
              /\ Frames(T[x].wire) = Frames(S[x].wire) \cup Frames(frames)
         /\ \A x \in Sock : ~(x \in X /\ Live(x)) => T[x] = S[x]
<1> DEFINE T == ToHost(S, X, frames)
<1>1. T = [x \in Sock |-> IF x \in X /\ Live(x) THEN [S[x] EXCEPT !.wire = @ \o frames] ELSE S[x]]
  BY DEF ToHost
<1>2. ASSUME NEW x \in Sock
      PROVE  /\ S[x] \in SockIs /\ [S[x] EXCEPT !.wire = @ \o frames] \in SockIs
             /\ [S[x] EXCEPT !.wire = @ \o frames].wire = S[x].wire \o frames
             /\ S[x].wire \o frames = Joined(S[x].wire, frames)
             /\ [S[x] EXCEPT !.wire = @ \o frames].far = S[x].far
             /\ [S[x] EXCEPT !.wire = @ \o frames].room = S[x].room
             /\ Frames(S[x].wire \o frames) = Frames(S[x].wire) \cup Frames(frames)
  <2>1. S[x] \in SockIs /\ S[x].wire \in Seq(Frame)
    BY DEF Socks, SockIs
  <2>2. S[x].wire \o frames \in Seq(Frame)
        /\ Frames(S[x].wire \o frames) = Frames(S[x].wire) \cup Frames(frames)
    BY <2>1, FramesSent
  <2>3. QED BY <2>1, <2>2 DEF SockIs, Joined
<1>3. T \in Socks
  BY <1>1, <1>2 DEF Socks
<1> HIDE DEF T
<1>4. ASSUME NEW x \in Sock
      PROVE  /\ T[x].far = S[x].far /\ T[x].room = S[x].room
             /\ x \in X /\ Live(x) =>
                  /\ T[x].wire = Joined(S[x].wire, frames)
                  /\ Frames(T[x].wire) = Frames(S[x].wire) \cup Frames(frames)
             /\ ~(x \in X /\ Live(x)) => T[x] = S[x]
  <2>1. CASE x \in X /\ Live(x)
    <3>1. T[x] = [S[x] EXCEPT !.wire = @ \o frames]
      BY <1>1, <2>1
    <3>2. QED BY <1>2, <2>1, <3>1
  <2>2. CASE ~(x \in X /\ Live(x))
    <3>1. T[x] = S[x]
      BY <1>1, <2>2
    <3>2. QED BY <2>2, <3>1
  <2>3. QED BY <2>1, <2>2
<1>5. QED BY <1>3, <1>4 DEF T

\* What every screen's dial becomes when it lets go of its socket.
LEMMA DownDial ==
  ASSUME dial \in Dials, NEW w \in Screen, NEW is \in {"off", "wait"}
  PROVE  /\ Down(w, is) \in Dials
         /\ Down(w, is)[w].is = is /\ Down(w, is)[w].room = dial[w].room
         /\ \A v \in Screen : v # w => Down(w, is)[v] = dial[v]
BY Places DEF Down, Dials

\* A live socket is its screen's line.
LEMMA LiveLine ==
  ASSUME dial \in Dials
  PROVE  /\ \A w \in Screen : Line(w) \in Sock /\ Line(w)[1] = w
                              /\ (Live(Line(w)) <=> dial[w].is = "open")
         /\ \A x \in Sock : Live(x) => x = Line(x[1]) /\ dial[x[1]].is = "open"
         /\ \A p \in Phone : Line(p) \in PhoneSock
BY Places DEF Dials, Line, Live, Sock, PhoneSock

LEMMA ReadSock ==
  ASSUME dial \in Dials, sock \in Socks, sock[Line(Tv)].wire # <<>>
  PROVE  LET w == sock[Line(Tv)].wire IN
         /\ Read(Tv) \in Socks /\ Head(w) \in Frame
         /\ \A x \in Sock : Read(Tv)[x].far = sock[x].far /\ Read(Tv)[x].room = sock[x].room
         /\ \A x \in PhoneSock : Read(Tv)[x] = sock[x]
         /\ Read(Tv)[Line(Tv)].wire = Tail(w)
         /\ Frames(w) = {Head(w)} \cup Frames(Tail(w))
<1> DEFINE s == sock[Line(Tv)]
           t == [s EXCEPT !.wire = Tail(@)]
<1>1. Line(Tv) \in Sock /\ Line(Tv)[1] = Tv /\ s \in SockIs
  BY Places, LiveLine DEF Socks
<1>2. /\ Tail(s.wire) \in Seq(Frame) /\ Head(s.wire) \in Frame
      /\ Frames(s.wire) = {Head(s.wire)} \cup Frames(Tail(s.wire))
  BY <1>1, FramesRead DEF SockIs
<1>3. t \in SockIs /\ t.wire = Tail(s.wire) /\ t.far = s.far /\ t.room = s.room
  BY <1>1, <1>2 DEF SockIs
<1>4. Read(Tv) = [sock EXCEPT ![Line(Tv)] = t]
  BY DEF Read
<1> HIDE DEF t
<1>5. Read(Tv) \in Socks /\ Read(Tv)[Line(Tv)] = t /\ \A x \in Sock : x # Line(Tv) => Read(Tv)[x] = sock[x]
  BY <1>1, <1>3, <1>4 DEF Socks
<1>6. \A x \in PhoneSock : x \in Sock /\ x # Line(Tv)
  BY <1>1, Places
<1>7. QED BY <1>1, <1>2, <1>3, <1>5, <1>6

-----------------------------------------------------------------------------
(* Types *)

Phones == [Phone -> [linked : BOOLEAN, seen : {"none", "old", "now"}, asking : BOOLEAN]]
TypeInv == TypeOK /\ sock \in Socks

LEMMA TypeGroups ==
  /\ TypeInv <=> /\ party \in BOOLEAN /\ welcomed \in BOOLEAN /\ code \in Code
                 /\ asked \in 0..MaxMints /\ faults \in 0..MaxFaults
                 /\ picked \subseteq Code /\ rival \subseteq Code /\ grace \subseteq Code
                 /\ roster \subseteq PhoneSock /\ missed \subseteq PhoneSock
                 /\ phone \in Phones /\ dial \in Dials /\ sock \in Socks
  /\ TypeInv' <=> /\ party' \in BOOLEAN /\ welcomed' \in BOOLEAN /\ code' \in Code
                  /\ asked' \in 0..MaxMints /\ faults' \in 0..MaxFaults
                  /\ picked' \subseteq Code /\ rival' \subseteq Code /\ grace' \subseteq Code
                  /\ roster' \subseteq PhoneSock /\ missed' \subseteq PhoneSock
                  /\ phone' \in Phones /\ dial' \in Dials /\ sock' \in Socks
BY DEF TypeInv, TypeOK, Phones, Dials, Socks, SockIs

LEMMA PhoneTypes ==
  ASSUME phone \in Phones
  PROVE  /\ \A p \in Phone, b \in BOOLEAN :
              /\ [phone EXCEPT ![p].linked = b] \in Phones
              /\ [phone EXCEPT ![p].asking = b] \in Phones
              /\ [phone EXCEPT ![p].asking = FALSE, ![p].linked = FALSE] \in Phones
              /\ [phone EXCEPT ![p] = [linked |-> FALSE, seen |-> "none", asking |-> FALSE]] \in Phones
         /\ \A was \in Phones : Shown(was) \in Phones
BY DEF Phones, Shown

LEMMA IdsSeen ==
  ASSUME dial \in Dials, sock \in Socks
  PROVE  Unread \subseteq PhoneSock /\ \A c : InRoom(c) \subseteq PhoneSock
<1>1. sock[Line(Tv)].wire \in Seq(Frame)
  BY Places, LiveLine DEF Socks, SockIs
<1>2. QED BY <1>1, NamedFrames DEF Unread, InRoom

LEMMA TypeInit == Init => TypeInv
<1> SUFFICES ASSUME Init PROVE TypeInv
  OBVIOUS
<1>1. phone \in Phones
  BY DEF Init, Phones
<1>2. dial \in Dials
  BY Places DEF Init, Dials
<1>3. sock \in Socks
  BY FreeSock DEF Init, Socks
<1>4. asked \in 0..MaxMints /\ faults \in 0..MaxFaults
  BY SessionAssumption DEF Init
<1>5. QED BY <1>1, <1>2, <1>3, <1>4, TypeGroups DEF Init

LEMMA TvPageTypes ==
  ASSUME TypeInv,
         \/ EnterMultiplayer \/ LeaveMultiplayer \/ Back \/ Reload \/ MintFails \/ NextRound
         \/ \E c \in Code : ClaimMint(c) \/ ConnectHost(c)
  PROVE  TypeInv'
<1>0. dial \in Dials /\ sock \in Socks /\ phone \in Phones /\ Tv \in Screen
      /\ asked \in 0..MaxMints /\ faults \in 0..MaxFaults
  BY TypeGroups, Places
<1>1. CASE EnterMultiplayer
  <2>1. asked' \in 0..MaxMints
    BY <1>0, <1>1, SessionAssumption DEF EnterMultiplayer
  <2>2. QED BY <1>1, <2>1, TypeGroups DEF EnterMultiplayer
<1>2. ASSUME CloseTvLink PROVE dial' \in Dials /\ sock' \in Socks
  BY <1>0, <1>2, DownDial, LetSock DEF CloseTvLink, Hangs, Drop
<1>3. CASE LeaveMultiplayer
  BY <1>0, <1>2, <1>3, TypeGroups, IdsSeen DEF LeaveMultiplayer
<1>4. CASE Back
  BY <1>0, <1>2, <1>4, TypeGroups, IdsSeen DEF Back
<1>5. CASE Reload
  <2>1. asked' \in 0..MaxMints /\ faults' \in 0..MaxFaults
    BY <1>0, <1>5, SessionAssumption DEF Reload
  <2>2. QED BY <1>0, <1>2, <1>5, <2>1, TypeGroups, IdsSeen DEF Reload
<1>6. CASE MintFails
  <2>1. asked' \in 0..MaxMints /\ faults' \in 0..MaxFaults
    BY <1>0, <1>6, SessionAssumption DEF MintFails
  <2>2. QED BY <1>6, <2>1, TypeGroups DEF MintFails
<1>7. CASE NextRound
  <2> DEFINE was == [p \in Phone |-> [phone[p] EXCEPT !.seen = IF @ = "now" THEN "old" ELSE @]]
  <2>1. was \in Phones
    BY <1>0 DEF Phones
  <2> HIDE DEF was
  <2>2. phone' = was \/ phone' = Shown(was)
    BY <1>7 DEF NextRound, PushState, was
  <2>3. phone' \in Phones
    BY <1>0, <2>1, <2>2, PhoneTypes
  <2>4. QED BY <1>7, <2>3, TypeGroups DEF NextRound, tvVars
<1>8. ASSUME NEW c \in Code, ClaimMint(c) PROVE TypeInv'
  <2>1. asked' \in 0..MaxMints
    BY <1>0, <1>8, SessionAssumption DEF ClaimMint
  <2>2. QED BY <1>8, <2>1, TypeGroups DEF ClaimMint
<1>9. ASSUME NEW c \in Code, ConnectHost(c) PROVE TypeInv'
  <2>1. CASE party
    <3>1. dial' \in Dials /\ sock' \in Socks
      BY <1>0, <1>9, <2>1, Places, LetSock DEF ConnectHost, Drop, Dials
    <3>2. missed' \subseteq PhoneSock
      BY <1>0, <1>9, <2>1, TypeGroups, IdsSeen DEF ConnectHost
    <3>3. QED BY <1>9, <2>1, <3>1, <3>2, TypeGroups DEF ConnectHost
  <2>2. CASE ~party
    BY <1>9, <2>2, TypeGroups DEF ConnectHost
  <2>3. QED BY <2>1, <2>2
<1>10. QED BY <1>1, <1>3, <1>4, <1>5, <1>6, <1>7, <1>8, <1>9

LEMMA TvReadsTypes ==
  ASSUME TypeInv, TvReads
  PROVE  TypeInv'
<1>0. dial \in Dials /\ sock \in Socks /\ phone \in Phones /\ asked \in 0..MaxMints
  BY TypeGroups
<1>1. /\ sock[Line(Tv)].wire # <<>> /\ sock' = Read(Tv)
      /\ UNCHANGED <<party, code, picked, dial, grace, rival, faults, missed>>
  BY DEF TvReads, TvWelcomed, TvRoster, TvHostgone, TvRefused, TvHears, tvVars
<1>2. sock' \in Socks
  BY <1>0, <1>1, ReadSock
<1>3. phone' \in Phones
  <2>1. phone' = phone \/ phone' = Shown(phone)
    BY DEF TvReads, TvWelcomed, TvRoster, TvHostgone, TvRefused, PushState
  <2>2. QED BY <1>0, <2>1, PhoneTypes
<1>4. roster' \subseteq PhoneSock
  <2>1. CASE TvRoster
    <3>1. LET m == Head(sock[Line(Tv)].wire) IN
          /\ m \in Frame /\ m.op \in {"joined", "left"}
          /\ roster' = IF m.op = "joined" THEN roster \cup {m.id} ELSE roster \ {m.id}
      BY <1>0, <1>1, <2>1, ReadSock DEF TvRoster, TvHears
    <3>2. QED BY <3>1, FrameNames, TypeGroups
  <2>2. CASE ~TvRoster
    BY <2>2, TypeGroups DEF TvReads, TvWelcomed, TvHostgone, TvRefused, tvVars
  <2>3. QED BY <2>1, <2>2
<1>5. asked' \in 0..MaxMints /\ welcomed' \in BOOLEAN
  <2>1. welcomed \in BOOLEAN
    BY TypeGroups
  <2>2. asked' = asked \/ (asked < MaxMints /\ asked' = asked + 1)
    BY DEF TvReads, TvWelcomed, TvRoster, TvHostgone, TvRefused, tvVars
  <2>3. welcomed' = welcomed \/ welcomed' = TRUE
    BY DEF TvReads, TvWelcomed, TvRoster, TvHostgone, TvRefused, tvVars
  <2>4. asked' \in 0..MaxMints
    BY <1>0, <2>2, SessionAssumption
  <2>5. QED BY <2>1, <2>3, <2>4
<1>6. QED BY <1>1, <1>2, <1>3, <1>4, <1>5, TypeGroups

LEMMA PutSock ==
  ASSUME sock \in Socks, NEW x \in Sock, NEW r \in SockIs
  PROVE  LET T == [sock EXCEPT ![x] = r] IN
         T \in Socks /\ T[x] = r /\ \A y \in Sock : y # x => T[y] = sock[y]
BY DEF Socks

LEMMA FarSock ==
  ASSUME sock \in Socks, NEW x \in Sock, sock[x].far # "none",
         NEW f \in {"none", "new", "in", "closing"}
  PROVE  LET T == [sock EXCEPT ![x].far = f] IN
         /\ T \in Socks /\ T[x].far = f /\ T[x].room = sock[x].room /\ T[x].wire = sock[x].wire
         /\ \A y \in Sock : y # x => T[y] = sock[y]
<1> DEFINE r == [sock[x] EXCEPT !.far = f]
<1>1. r \in SockIs /\ r.far = f /\ r.room = sock[x].room /\ r.wire = sock[x].wire
  BY DEF Socks, SockIs
<1>2. [sock EXCEPT ![x].far = f] = [sock EXCEPT ![x] = r]
  OBVIOUS
<1> HIDE DEF r
<1>3. QED BY <1>1, <1>2, PutSock

Opened(w, s) == [dial EXCEPT ![w].is = "open", ![w].slot = s]

LEMMA OpenDial ==
  ASSUME dial \in Dials, NEW w \in Screen, NEW s \in Slot
  PROVE  LET d == Opened(w, s) IN
         /\ d \in Dials /\ d[w].is = "open" /\ d[w].slot = s /\ d[w].room = dial[w].room
         /\ \A v \in Screen : v # w => d[v] = dial[v]
<1> DEFINE e == [dial[w] EXCEPT !.is = "open", !.slot = s]
<1>1. /\ e \in [is : {"off", "wait", "open"}, slot : Slot, room : Code]
      /\ e.is = "open" /\ e.slot = s /\ e.room = dial[w].room
  BY DEF Dials
<1>2. Opened(w, s) = [dial EXCEPT ![w] = e]
  BY DEF Dials, Opened
<1> HIDE DEF e
<1>3. QED BY <1>1, <1>2 DEF Dials

\* The frames that a hello and a close put on a TV's wire.
LEMMA Sent ==
  /\ <<Op("welcome")>> \in Seq(Frame) /\ <<Op("err"), Op("bye")>> \in Seq(Frame)
  /\ Frames(<<Op("welcome")>>) = {Op("welcome")}
  /\ Frames(<<Op("err"), Op("bye")>>) = {Op("err"), Op("bye")}
  /\ <<Op("hostgone"), Op("bye")>> \in Seq(Frame)
  /\ \A x \in PhoneSock, o \in {"joined", "left"} :
       <<Of(o, x)>> \in Seq(Frame) /\ Frames(<<Of(o, x)>>) = {Of(o, x)}
BY FrameNames, FramesOne

LEMMA OnCloseTypes ==
  ASSUME TypeInv, NEW w \in Screen, OnClose(w)
  PROVE  /\ phone' \in Phones /\ dial' \in Dials /\ sock' \in Socks /\ missed' \subseteq PhoneSock
         /\ UNCHANGED <<tvVars, grace, rival>>
<1>1. dial \in Dials /\ sock \in Socks /\ phone \in Phones /\ missed \subseteq PhoneSock
  BY TypeGroups
<1>2. dial' \in Dials /\ sock' \in Socks
  BY <1>1, DownDial, LetSock DEF OnClose, Hangs, Drop
<1>3. phone' \in Phones
  <2>1. w = Tv \/ w \in Phone
    BY DEF Screen
  <2>2. QED BY <1>1, <2>1, PhoneTypes DEF OnClose
<1>4. QED BY <1>1, <1>2, <1>3, IdsSeen DEF OnClose

LEMMA LinkTypes ==
  ASSUME TypeInv, Closed \/ \E w \in Screen : Cut(w) \/ \E s \in Slot : Dial(w, s)
  PROVE  TypeInv'
<1>0. dial \in Dials /\ sock \in Socks /\ faults \in 0..MaxFaults
  BY TypeGroups
<1>1. CASE Closed
  BY <1>1, Places, OnCloseTypes, TypeGroups DEF Closed, tvVars
<1>2. ASSUME NEW w \in Screen, Cut(w) PROVE TypeInv'
  <2>1. faults' \in 0..MaxFaults
    BY <1>0, <1>2, SessionAssumption DEF Cut
  <2>2. QED BY <1>2, <2>1, OnCloseTypes, TypeGroups DEF Cut, tvVars
<1>3. ASSUME NEW w \in Screen, NEW s \in Slot, Dial(w, s) PROVE TypeInv'
  <2> DEFINE r == [Free EXCEPT !.far = "new", !.room = dial[w].room]
  <2>1. r \in SockIs
    BY <1>0, FreeSock DEF SockIs, Dials
  <2>2. sock' = [sock EXCEPT ![<<w, s>>] = r] /\ <<w, s>> \in Sock
    BY <1>3 DEF Dial, Sock
  <2> HIDE DEF r
  <2>3. sock' \in Socks
    BY <1>0, <2>1, <2>2, PutSock
  <2>4. dial' \in Dials
    <3>1. dial' = Opened(w, s)
      BY <1>3 DEF Dial, Opened
    <3>2. QED BY <1>0, <3>1, OpenDial
  <2>5. QED BY <1>3, <2>3, <2>4, TypeGroups DEF Dial, tvVars
<1>4. QED BY <1>1, <1>2, <1>3

\* The parts of a hello and a close, for the types and for the roster.
LEMMA HelloHostSock ==
  ASSUME TypeInv, NEW x \in Sock, HelloHost(x)
  PROVE  /\ sock' \in Socks /\ x = Line(Tv) /\ Live(x)
         /\ \A y \in Sock : y # x => sock'[y] = sock[y]
         /\ sock'[x].room = sock[x].room
         /\ \/ /\ Empty(sock[x].room) /\ sock'[x].far = "in" /\ grace' = grace \ {sock[x].room}
               /\ Frames(sock'[x].wire) = Frames(sock[x].wire) \cup {Op("welcome")}
            \/ /\ ~Empty(sock[x].room) /\ sock'[x].far = "none" /\ grace' = grace
               /\ Frames(sock'[x].wire) = Frames(sock[x].wire) \cup {Op("err"), Op("bye")}
<1>0. sock \in Socks /\ dial \in Dials
  BY TypeGroups
<1>1. x = Line(Tv) /\ Live(x) /\ sock[x].far = "new"
  BY <1>0, LiveLine DEF HelloHost
<1>2. CASE Empty(sock[x].room)
  <2> DEFINE T == [sock EXCEPT ![x].far = "in"]
  <2>1. /\ T \in Socks /\ T[x].far = "in" /\ T[x].room = sock[x].room /\ T[x].wire = sock[x].wire
        /\ \A y \in Sock : y # x => T[y] = sock[y]
    BY <1>0, <1>1, FarSock
  <2> DEFINE fs == <<Op("welcome")>>
  <2>2. sock' = ToHost(T, {x}, fs) /\ grace' = grace \ {sock[x].room}
    BY <1>2 DEF HelloHost
  <2>3. fs \in Seq(Frame)
    BY Sent
  <2>4. Frames(fs) = {Op("welcome")}
    BY Sent
  <2> HIDE DEF T, fs
  <2>5. /\ sock' \in Socks
        /\ \A y \in Sock : sock'[y].far = T[y].far /\ sock'[y].room = T[y].room
        /\ \A y \in Sock : y # x => sock'[y] = T[y]
        /\ Frames(sock'[x].wire) = Frames(T[x].wire) \cup Frames(fs)
    BY <1>1, <2>1, <2>2, <2>3, HostSock
  <2>6. QED BY <1>1, <1>2, <2>1, <2>2, <2>4, <2>5
<1>3. CASE ~Empty(sock[x].room)
  <2> DEFINE T == [sock EXCEPT ![x].far = "none"]
  <2>1. /\ T \in Socks /\ T[x].far = "none" /\ T[x].room = sock[x].room /\ T[x].wire = sock[x].wire
        /\ \A y \in Sock : y # x => T[y] = sock[y]
    BY <1>0, <1>1, FarSock
  <2> DEFINE fs == <<Op("err"), Op("bye")>>
  <2>2. sock' = ToHost(T, {x}, fs) /\ grace' = grace
    BY <1>3 DEF HelloHost
  <2>3. fs \in Seq(Frame)
    BY Sent
  <2>4. Frames(fs) = {Op("err"), Op("bye")}
    BY Sent
  <2> HIDE DEF T, fs
  <2>5. /\ sock' \in Socks
        /\ \A y \in Sock : sock'[y].far = T[y].far /\ sock'[y].room = T[y].room
        /\ \A y \in Sock : y # x => sock'[y] = T[y]
        /\ Frames(sock'[x].wire) = Frames(T[x].wire) \cup Frames(fs)
    BY <1>1, <2>1, <2>2, <2>3, HostSock
  <2>6. QED BY <1>1, <1>3, <2>1, <2>2, <2>4, <2>5
<1>4. QED BY <1>2, <1>3

\* A phone that is let in, and the host that hears of it.
LEMMA HelloPhoneSock ==
  ASSUME TypeInv, NEW x \in Sock, HelloPhone(x), ~Empty(sock[x].room)
  PROVE  LET c == sock[x].room IN
         /\ sock' \in Socks /\ x \in PhoneSock
         /\ sock'[x].far = "in" /\ sock'[x].room = c
         /\ \A y \in Sock : sock'[y].room = sock[y].room /\ (y # x => sock'[y].far = sock[y].far)
         /\ \A y \in Hosts(c) : Live(y) =>
              /\ sock'[y].wire = Joined(sock[y].wire, <<Of("joined", x)>>)
              /\ Frames(sock'[y].wire) = Frames(sock[y].wire) \cup {Of("joined", x)}
         /\ \A y \in Sock : ~(y \in Hosts(c) /\ Live(y)) => sock'[y].wire = sock[y].wire
<1> DEFINE c == sock[x].room
           T == [sock EXCEPT ![x].far = "in"]
<1>0. /\ sock \in Socks /\ dial \in Dials /\ x \in PhoneSock /\ Hosts(c) \subseteq Sock
      /\ sock[x].far = "new"
  BY TypeGroups, Places DEF HelloPhone, Hosts
<1>1. /\ T \in Socks /\ T[x].far = "in" /\ T[x].room = sock[x].room /\ T[x].wire = sock[x].wire
      /\ \A y \in Sock : y # x => T[y] = sock[y]
  BY <1>0, FarSock
<1> DEFINE fs == <<Of("joined", x)>>
<1>2. sock' = ToHost(T, Hosts(c), fs)
  BY DEF HelloPhone
<1>3. fs \in Seq(Frame)
  BY <1>0, Sent
<1>4. Frames(fs) = {Of("joined", x)}
  BY <1>0, Sent
<1> HIDE DEF T, c, fs
<1>5. /\ sock' \in Socks
      /\ \A y \in Sock : sock'[y].far = T[y].far /\ sock'[y].room = T[y].room
      /\ \A y \in Sock : y \in Hosts(c) /\ Live(y) =>
           sock'[y].wire = Joined(T[y].wire, fs) /\ Frames(sock'[y].wire) = Frames(T[y].wire) \cup Frames(fs)
      /\ \A y \in Sock : ~(y \in Hosts(c) /\ Live(y)) => sock'[y] = T[y]
  BY <1>1, <1>2, <1>3, HostSock
<1>6. \A y \in Sock : T[y].wire = sock[y].wire /\ T[y].room = sock[y].room
  BY <1>1
<1>7. QED BY <1>0, <1>1, <1>4, <1>5, <1>6 DEF c, fs

\* A socket's end, and the host that hears of a phone's.
LEMMA CloseSock ==
  ASSUME TypeInv, NEW x \in Sock, WebSocketClose(x)
  PROVE  LET c == sock[x].room IN
         /\ sock' \in Socks /\ sock'[x].far = "none"
         /\ \A y \in Sock : y # x => sock'[y].room = sock[y].room /\ sock'[y].far = sock[y].far
         /\ x \in PhoneSock => \A y \in Hosts(c) : Live(y) =>
              /\ sock'[y].wire = Joined(sock[y].wire, <<Of("left", x)>>)
              /\ Frames(sock'[y].wire) = Frames(sock[y].wire) \cup {Of("left", x)}
         /\ \A y \in Sock : y # x /\ ~(x \in PhoneSock /\ y \in Hosts(c) /\ Live(y)) =>
              sock'[y].wire = sock[y].wire
<1> DEFINE c == sock[x].room
           T == [sock EXCEPT ![x] = Free]
<1>0. sock \in Socks /\ dial \in Dials /\ Hosts(c) \subseteq Sock
      /\ (x \in PhoneSock => x \notin Hosts(c))
  BY TypeGroups, Places DEF Hosts
<1>1. T \in Socks /\ T[x] = Free /\ \A y \in Sock : y # x => T[y] = sock[y]
  BY <1>0, FreeSock, PutSock
<1> DEFINE fs == <<Of("left", x)>>
<1>2. sock' = IF x \in PhoneSock THEN ToHost(T, Hosts(c), fs) ELSE T
  BY DEF WebSocketClose
<1>3. x \in PhoneSock => fs \in Seq(Frame) /\ Frames(fs) = {Of("left", x)}
  BY Sent
<1> HIDE DEF T, c, fs
<1>4. CASE x \in PhoneSock
  <2>1. /\ sock' \in Socks
        /\ \A y \in Sock : sock'[y].far = T[y].far /\ sock'[y].room = T[y].room
        /\ \A y \in Sock : y \in Hosts(c) /\ Live(y) =>
             sock'[y].wire = Joined(T[y].wire, fs) /\ Frames(sock'[y].wire) = Frames(T[y].wire) \cup {Of("left", x)}
        /\ \A y \in Sock : ~(y \in Hosts(c) /\ Live(y)) => sock'[y] = T[y]
    BY <1>1, <1>2, <1>3, <1>4, HostSock
  <2>2. \A y \in Hosts(c) : T[y] = sock[y]
    BY <1>0, <1>1, <1>4
  <2>3. QED BY <1>0, <1>1, <1>3, <1>4, <2>1, <2>2, FreeSock DEF c, fs
<1>5. CASE x \notin PhoneSock
  BY <1>0, <1>1, <1>2, <1>5, FreeSock DEF c
<1>6. QED BY <1>4, <1>5

\* The alarm sends a room home: a TV that was there reads of its end, a phone
\* that was in it is closing, and a live one dials again.
LEMMA AlarmSock ==
  ASSUME TypeInv, NEW c \in Code, Alarm(c)
  PROVE  /\ sock' \in Socks /\ dial' \in Dials /\ phone' \in Phones
         /\ \A x \in Sock : ~(sock[x].room = c /\ sock[x].far \in {"new", "in"}) => sock'[x] = sock[x]
         /\ \A x \in Sock : sock[x].room = c /\ sock[x].far \in {"new", "in"} =>
              /\ x[1] = Tv => /\ sock'[x].far = "none" /\ sock'[x].room = c
                              /\ Frames(sock'[x].wire) = {Op("hostgone"), Op("bye")}
              /\ x[1] # Tv /\ sock[x].far = "in" => sock'[x].far = "closing" /\ sock'[x].room = c
              /\ x[1] # Tv /\ sock[x].far = "new" => sock'[x].far = "none"
         /\ dial'[Tv] = dial[Tv]
         /\ \A p \in Phone :
              IF Live(Line(p)) /\ sock[Line(p)].room = c /\ sock[Line(p)].far \in {"new", "in"}
              THEN dial'[p].is = "wait"
              ELSE dial'[p] = dial[p] /\ phone'[p] = phone[p]
<1> DEFINE home == {x \in Sock : sock[x].room = c /\ sock[x].far \in {"new", "in"}}
           gone == {p \in Phone : Live(Line(p)) /\ Line(p) \in home}
           ends == <<Op("hostgone"), Op("bye")>>
           tvs(x) == [sock[x] EXCEPT !.far = "none", !.wire = ends]
           phones(x) == [sock[x] EXCEPT !.far = "closing"]
<1>0. sock \in Socks /\ dial \in Dials /\ phone \in Phones
  BY TypeGroups
<1>1. /\ phone' = [p \in Phone |-> IF p \in gone THEN [phone[p] EXCEPT !.linked = FALSE, !.seen = "none"]
                                   ELSE phone[p]]
      /\ dial' = [w \in Screen |-> IF w \in gone THEN Down(w, "wait")[w] ELSE dial[w]]
      /\ sock' = [x \in Sock |->
             IF x \notin home THEN sock[x]
             ELSE IF x[1] = Tv THEN tvs(x)
             ELSE IF sock[x].far = "in" THEN phones(x) ELSE Free]
  BY DEF Alarm
<1>2. ends \in Seq(Frame) /\ Frames(ends) = {Op("hostgone"), Op("bye")}
  BY FrameNames, FramesOne
<1> HIDE DEF ends
<1>3. ASSUME NEW x \in Sock
      PROVE  /\ sock[x] \in SockIs
             /\ tvs(x) \in SockIs /\ tvs(x).far = "none" /\ tvs(x).room = sock[x].room /\ tvs(x).wire = ends
             /\ sock[x].far = "in" => phones(x) \in SockIs /\ phones(x).far = "closing"
                                     /\ phones(x).room = sock[x].room
  <2>1. sock[x] \in SockIs
    BY <1>0 DEF Socks
  <2>2. tvs(x) \in SockIs /\ tvs(x).far = "none" /\ tvs(x).room = sock[x].room /\ tvs(x).wire = ends
    BY <1>2, <2>1 DEF SockIs
  <2>3. sock[x].far = "in" => phones(x) \in SockIs /\ phones(x).far = "closing"
                                     /\ phones(x).room = sock[x].room
    BY <2>1 DEF SockIs
  <2>4. QED BY <2>1, <2>2, <2>3
<1> HIDE DEF tvs, phones
<1>4. sock' \in Socks
  BY <1>1, <1>3, FreeSock DEF Socks
<1>5. ASSUME NEW x \in Sock
      PROVE  /\ x \notin home => sock'[x] = sock[x]
             /\ x \in home /\ x[1] = Tv => sock'[x] = tvs(x)
             /\ x \in home /\ x[1] # Tv /\ sock[x].far = "in" => sock'[x] = phones(x)
             /\ x \in home /\ x[1] # Tv /\ sock[x].far # "in" => sock'[x] = Free
  BY <1>1
<1>6. dial' \in Dials /\ dial'[Tv] = dial[Tv]
      /\ \A p \in Phone : IF p \in gone THEN dial'[p].is = "wait" ELSE dial'[p] = dial[p]
  <2>1. \A w \in Screen : Down(w, "wait")[w] \in [is : {"off", "wait", "open"}, slot : Slot, room : Code]
                          /\ Down(w, "wait")[w].is = "wait"
    BY <1>0, DownDial DEF Dials
  <2>2. Tv \notin gone
    BY SessionAssumption
  <2> HIDE DEF gone
  <2>3. dial' \in Dials
    BY <1>0, <1>1, <2>1 DEF Dials
  <2>4. dial'[Tv] = dial[Tv]
    BY <1>1, <2>2, Places
  <2>5. QED BY <1>1, <2>1, <2>3, <2>4, Places
<1>7. phone' \in Phones /\ \A p \in Phone : p \notin gone => phone'[p] = phone[p]
  <2> HIDE DEF gone
  <2>1. QED BY <1>0, <1>1 DEF Phones
<1>8. \A p \in Phone : p \in gone <=>
        Live(Line(p)) /\ sock[Line(p)].room = c /\ sock[Line(p)].far \in {"new", "in"}
  BY <1>0, LiveLine, Places
<1> HIDE DEF gone
<1>9. QED BY <1>2, <1>3, <1>4, <1>5, <1>6, <1>7, <1>8, FreeSock

LEMMA RelayTypes ==
  ASSUME TypeInv,
         \/ \E c \in Code : Alarm(c) \/ RivalHosts(c) \/ RivalLeaves(c)
         \/ \E x \in Sock : HelloHost(x) \/ HelloPhone(x) \/ WebSocketClose(x)
  PROVE  TypeInv'
<1>0. dial \in Dials /\ sock \in Socks /\ phone \in Phones /\ faults \in 0..MaxFaults
  BY TypeGroups
<1>1. ASSUME NEW c \in Code, Alarm(c) PROVE TypeInv'
  BY <1>1, AlarmSock, TypeGroups DEF Alarm, tvVars
<1>2. ASSUME NEW c \in Code, RivalHosts(c) PROVE TypeInv'
  <2>1. faults' \in 0..MaxFaults
    BY <1>0, <1>2, SessionAssumption DEF RivalHosts
  <2>2. QED BY <1>2, <2>1, TypeGroups DEF RivalHosts, tvVars
<1>3. ASSUME NEW c \in Code, RivalLeaves(c) PROVE TypeInv'
  BY <1>3, TypeGroups DEF RivalLeaves, tvVars
<1>4. ASSUME NEW x \in Sock, HelloHost(x) PROVE TypeInv'
  <2>1. sock' \in Socks /\ grace' \subseteq grace
    BY <1>4, HelloHostSock
  <2>2. QED BY <1>4, <2>1, TypeGroups DEF HelloHost, tvVars
<1>5. ASSUME NEW x \in Sock, HelloPhone(x) PROVE TypeInv'
  <2>1. x \in PhoneSock /\ x[1] \in Phone /\ x[1] \in Screen
    BY <1>5, Places DEF HelloPhone
  <2>2. phone' \in Phones
    BY <1>0, <1>5, <2>1, PhoneTypes DEF HelloPhone, Refuse, Turned
  <2>3. sock' \in Socks /\ dial' \in Dials
    <3>1. CASE Empty(sock[x].room)
      BY <1>0, <1>5, <2>1, <3>1, DownDial, LetSock DEF HelloPhone, Refuse, Drop
    <3>2. CASE ~Empty(sock[x].room)
      <4>1. dial' = dial
        BY <1>5, <3>2 DEF HelloPhone
      <4>2. QED BY <1>0, <1>5, <3>2, <4>1, HelloPhoneSock
    <3>3. QED BY <3>1, <3>2
  <2>4. missed' \subseteq PhoneSock
    BY <1>5, <2>1, TypeGroups DEF HelloPhone
  <2>5. QED BY <1>5, <2>2, <2>3, <2>4, TypeGroups DEF HelloPhone, tvVars
<1>6. ASSUME NEW x \in Sock, WebSocketClose(x) PROVE TypeInv'
  <2>1. sock' \in Socks
    BY <1>6, CloseSock
  <2>2. missed' \subseteq PhoneSock
    BY <1>6, TypeGroups DEF WebSocketClose
  <2>3. grace' \subseteq Code
    <3>1. x \in Hosts(sock[x].room) => sock[x].room \in Code
      BY <1>0 DEF Hosts, Socks, SockIs
    <3>2. QED BY <1>6, <3>1, TypeGroups DEF WebSocketClose
  <2>4. QED BY <1>6, <2>1, <2>2, <2>3, TypeGroups DEF WebSocketClose, tvVars
<1>7. QED BY <1>1, <1>2, <1>3, <1>4, <1>5, <1>6

LEMMA PhonePageTypes ==
  ASSUME TypeInv, NEW p \in Phone, DoJoin(p) \/ Looked(p) \/ ClosePage(p)
  PROVE  TypeInv'
<1>0. dial \in Dials /\ sock \in Socks /\ phone \in Phones /\ faults \in 0..MaxFaults /\ p \in Screen
  BY TypeGroups, Places
<1>1. CASE DoJoin(p)
  <2>1. dial' \in Dials
    BY <1>0, <1>1, Places, TypeGroups DEF DoJoin, Dials
  <2>2. phone' \in Phones /\ sock' \in Socks
    BY <1>0, <1>1, PhoneTypes, LetSock DEF DoJoin, Drop
  <2>3. QED BY <1>1, <2>1, <2>2, TypeGroups DEF DoJoin, tvVars
<1>2. CASE Looked(p)
  <2>1. dial' \in Dials
    <3>1. [dial EXCEPT ![p].is = "wait"] \in Dials
      BY <1>0 DEF Dials
    <3>2. QED BY <1>0, <1>2, <3>1 DEF Looked
  <2>2. phone' \in Phones
    BY <1>0, <1>2, PhoneTypes DEF Looked
  <2>3. faults' \in 0..MaxFaults
    BY <1>0, <1>2, SessionAssumption DEF Looked
  <2>4. QED BY <1>2, <2>1, <2>2, <2>3, TypeGroups DEF Looked, tvVars
<1>3. CASE ClosePage(p)
  <2>1. phone' \in Phones /\ sock' \in Socks /\ dial' \in Dials
    BY <1>0, <1>3, PhoneTypes, LetSock, DownDial DEF ClosePage, Hangs, Drop
  <2>2. QED BY <1>3, <2>1, TypeGroups DEF ClosePage, tvVars
<1>4. QED BY <1>1, <1>2, <1>3

LEMMA TypeStep ==
  ASSUME TypeInv, [Next]_vars
  PROVE  TypeInv'
<1>1. CASE UNCHANGED vars
  BY <1>1, TypeGroups DEF vars, tvVars
<1>2. CASE \E p \in Phone : DoJoin(p) \/ Looked(p) \/ ClosePage(p)
  BY <1>2, PhonePageTypes
<1>3. QED BY <1>1, <1>2, TvPageTypes, TvReadsTypes, LinkTypes, RelayTypes DEF Next

LEMMA TypeInvariant == Spec => []TypeInv
BY TypeInit, TypeStep, PTL DEF Spec

\* Every reachable state is well typed: sockets, frames and calls stay in bounds.
THEOREM TypeCorrect == Spec => []TypeOK
<1>1. TypeInv => TypeOK
  BY DEF TypeInv
<1>2. QED BY <1>1, TypeInvariant, PTL

-----------------------------------------------------------------------------
(* The roster and the room.  A phone's socket is followed by the relay's    *)
(* side of it, the TV's roster, the joined and left frames on the TV's own  *)
(* wire, and the record of what no TV heard.                                *)

On(op, x) == TvLive /\ Waits(op, x)

\* The TV's side: a link belongs to a party, its socket to the room dialled,
\* and the wire of a socket the relay has not let in has no roster on it.
TvSide ==
  /\ dial[Tv].is # "off" => party
  /\ dial[Tv].is = "open" => sock[Line(Tv)].room = dial[Tv].room
  /\ \A s \in Slot : sock[<<Tv, s>>].far # "closing"
  /\ dial[Tv].is = "open" /\ sock[Line(Tv)].far # "in" =>
       \A x \in PhoneSock : ~Waits("joined", x) /\ ~Waits("left", x)

\* A room has one host, and while it has one no alarm is set.
OneHost == \A c \in Code : /\ \A x, y \in Hosts(c) : x = y
                           /\ c \in grace \cup rival => Hosts(c) = {}

Row(x) ==
  /\ On("joined", x) => \/ sock[x].far \in {"in", "closing"} /\ sock[x].room = dial[Tv].room
                        \/ On("left", x)
  /\ On("left", x) => sock[x].far = "none"
  /\ x \in roster => \/ sock[x].far = "in" /\ sock[x].room = dial[Tv].room
                     \/ sock[x].far = "closing" \/ On("left", x) \/ x \in missed
  /\ sock[x].far = "in" => x \in roster \/ x \in missed \/ On("joined", x)
Rows == \A x \in PhoneSock : Row(x)

LEMMA WaitsFrames ==
  /\ \A op, x : Waits(op, x) <=> Of(op, x) \in Frames(sock[Line(Tv)].wire)
  /\ \A op, x : Waits(op, x)' <=> Of(op, x) \in Frames(sock'[Line(Tv)'].wire)
BY DEF Waits, Frames

LEMMA TvIsLive ==
  /\ dial \in Dials => (TvLive <=> dial[Tv].is = "open" /\ sock[Line(Tv)].far = "in")
  /\ dial' \in Dials => (TvLive' <=> dial'[Tv].is = "open" /\ sock'[Line(Tv)'].far = "in")
BY Places DEF TvLive, Live, Line, Dials

LEMMA UnreadIs ==
  ASSUME TypeInv
  PROVE  \A x \in PhoneSock :
           x \in Unread <=> dial[Tv].is = "open" /\ (Waits("joined", x) \/ Waits("left", x))
<1>1. sock[Line(Tv)].wire \in Seq(Frame)
  BY TypeGroups, Places, LiveLine DEF Socks, SockIs
<1>2. QED BY <1>1, NamedFrames, WaitsFrames DEF Unread

\* A step that leaves a phone's entry alone, and the relay's side of its socket
\* alone but for its end.
LEMMA RowMove ==
  ASSUME NEW x \in PhoneSock, Row(x), dial'[Tv].room = dial[Tv].room,
         x \in roster' <=> x \in roster,
         x \in missed' <=> x \in missed,
         On("joined", x)' <=> On("joined", x),
         On("left", x)' <=> On("left", x),
         \/ sock'[x].far = sock[x].far /\ sock'[x].room = sock[x].room
         \/ sock[x].far \in {"none", "new"} /\ sock'[x].far = "none"
         \/ sock[x].far = "in" /\ sock'[x].far = "closing" /\ sock'[x].room = sock[x].room
  PROVE  Row(x)'
BY DEF Row

\* The TV lets go of its socket: what it has not read is missed.
LEMMA RowsHang ==
  ASSUME TypeInv, TypeInv', Rows, dial'[Tv].is # "open",
         dial'[Tv].room = dial[Tv].room \/ roster' \subseteq missed',
         roster' \subseteq roster,
         \A x \in PhoneSock :
           /\ x \in missed \cup Unread => x \in missed'
           /\ x \in roster \ roster' /\ sock[x].far = "in" => x \in missed'
           /\ \/ sock'[x].far = sock[x].far /\ sock'[x].room = sock[x].room
              \/ sock[x].far \in {"none", "new"} /\ sock'[x].far = "none"
  PROVE  Rows'
<1>0. dial \in Dials /\ dial' \in Dials
  BY TypeGroups
<1>1. ~TvLive'
  BY <1>0, TvIsLive
<1> SUFFICES ASSUME NEW x \in PhoneSock PROVE Row(x)'
  BY DEF Rows
<1>2. Row(x)
  BY DEF Rows
<1>3. On("joined", x) \/ On("left", x) => x \in missed'
  BY <1>0, TvIsLive, UnreadIs DEF On
<1>4. QED BY <1>1, <1>2, <1>3 DEF Row, On

LEMMA HostsMove ==
  ASSUME OneHost, \A c \in Code : c \in grace' \cup rival' => c \in grace \cup rival \/ Hosts(c) = {},
         \A x \in {Tv} \X Slot : sock'[x].far = "in" => sock[x].far = "in" /\ sock'[x].room = sock[x].room
  PROVE  OneHost'
BY DEF OneHost, Hosts

\* What the TV's page has not read, it reads in an order that makes sense.
WireOrder == dial[Tv].is = "open" => InOrder(sock[Line(Tv)].wire)

RoomInv == TypeInv /\ TvSide /\ OneHost /\ Rows /\ WireOrder

LEMMA RoomInit == Init => RoomInv
<1> SUFFICES ASSUME Init PROVE RoomInv
  OBVIOUS
<1>1. /\ TypeInv /\ dial \in Dials /\ dial[Tv].is = "off" /\ roster = {} /\ missed = {}
      /\ grace = {} /\ rival = {}
  BY TypeInit, TypeGroups, Places DEF Init
<1>2. \A x \in Sock : sock[x].far = "none"
  BY FreeSock DEF Init
<1>3. ~TvLive
  BY <1>1, TvIsLive
<1>4. TvSide
  BY <1>1, <1>2, Places DEF TvSide
<1>5. OneHost
  BY <1>1, <1>2, Places DEF OneHost, Hosts
<1>6. Rows
  BY <1>1, <1>2, <1>3, Places DEF Rows, Row, On
<1>7. QED BY <1>1, <1>4, <1>5, <1>6 DEF RoomInv, WireOrder

\* A step that leaves the TV's link alone.
LEMMA TvSame ==
  ASSUME TypeInv, TypeInv', dial'[Tv] = dial[Tv],
         dial[Tv].is = "open" => /\ sock'[Line(Tv)].far = sock[Line(Tv)].far
                                 /\ sock'[Line(Tv)].room = sock[Line(Tv)].room
                                 /\ sock'[Line(Tv)].wire = sock[Line(Tv)].wire
  PROVE  /\ \A op, x : On(op, x)' <=> On(op, x)
         /\ WireOrder => WireOrder'
         /\ TvSide /\ (dial[Tv].is # "off" /\ party => party')
              /\ (\A s \in Slot : sock'[<<Tv, s>>].far # "closing") => TvSide'
<1>1. dial \in Dials /\ dial' \in Dials /\ Line(Tv)' = Line(Tv)
  BY TypeGroups DEF Line
<1>2. TvLive' <=> TvLive
  BY <1>1, TvIsLive
<1>3. dial[Tv].is = "open" => \A op, x : Waits(op, x)' <=> Waits(op, x)
  BY <1>1 DEF Waits
<1>4. \A op, x : On(op, x)' <=> On(op, x)
  BY <1>1, <1>2, <1>3, TvIsLive DEF On
<1>5. WireOrder => WireOrder'
  BY <1>1 DEF WireOrder
<1>6. ASSUME TvSide, dial[Tv].is # "off" /\ party => party',
             \A s \in Slot : sock'[<<Tv, s>>].far # "closing"
      PROVE  TvSide'
  BY <1>1, <1>3, <1>6 DEF TvSide
<1>7. QED BY <1>4, <1>5, <1>6

\* A step that tells the TV nothing and moves no entry but for a socket's end.
LEMMA RoomSame ==
  ASSUME RoomInv, TypeInv', dial'[Tv] = dial[Tv], party => party',
         roster' = roster, missed' = missed,
         \A c \in Code : c \in grace' \cup rival' => c \in grace \cup rival \/ Hosts(c) = {},
         \A x \in Sock : x[1] = Tv =>
           /\ sock'[x].far = sock[x].far /\ sock'[x].room = sock[x].room
           /\ sock'[x].wire = sock[x].wire,
         \A x \in PhoneSock :
           \/ sock'[x].far = sock[x].far /\ sock'[x].room = sock[x].room
           \/ sock[x].far \in {"none", "new"} /\ sock'[x].far = "none"
           \/ sock[x].far = "in" /\ sock'[x].far = "closing" /\ sock'[x].room = sock[x].room
  PROVE  RoomInv'
<1>1. TypeInv /\ TvSide /\ OneHost /\ Rows /\ WireOrder /\ dial \in Dials
  BY TypeGroups DEF RoomInv
<1>2. /\ Line(Tv) \in Sock /\ Line(Tv)[1] = Tv
      /\ \A s \in Slot : <<Tv, s>> \in Sock /\ <<Tv, s>>[1] = Tv
  BY <1>1, LiveLine, Places
<1>3. \A s \in Slot : sock'[<<Tv, s>>].far # "closing"
  BY <1>1, <1>2 DEF TvSide
<1>4. (\A op, x : On(op, x)' <=> On(op, x)) /\ WireOrder' /\ TvSide'
  <2>1. /\ sock'[Line(Tv)].far = sock[Line(Tv)].far /\ sock'[Line(Tv)].room = sock[Line(Tv)].room
        /\ sock'[Line(Tv)].wire = sock[Line(Tv)].wire
    BY <1>2
  <2>2. QED BY <1>1, <1>3, <2>1, TvSame
<1>5. OneHost'
  <2>1. \A x \in {Tv} \X Slot : x \in Sock /\ x[1] = Tv
    BY Places
  <2>2. QED BY <1>1, <2>1, HostsMove
<1>6. Rows'
  <2>1. ASSUME NEW x \in PhoneSock PROVE Row(x)'
    BY <1>1, <1>4, RowMove DEF Rows
  <2>2. QED BY <2>1 DEF Rows
<1>7. QED BY <1>4, <1>5, <1>6 DEF RoomInv

LEMMA LetMoves ==
  ASSUME NEW S \in Socks, NEW w \in Screen, NEW x \in Sock
  PROVE  \/ Let(S, w)[x].far = S[x].far /\ Let(S, w)[x].room = S[x].room
         \/ S[x].far \in {"none", "new"} /\ Let(S, w)[x].far = "none"
<1>1. S[x].far \in {"none", "new", "in", "closing"}
  <2>1. S[x] \in SockIs
    BY DEF Socks
  <2>2. QED BY <2>1 DEF SockIs
<1>2. CASE S[x].far \in {"in", "closing"}
  BY <1>2, LetSock
<1>3. CASE S[x].far \in {"none", "new"}
  <2>1. CASE x[1] = w
    BY <1>3, <2>1, LetSock
  <2>2. CASE x[1] # w
    BY <2>2, LetSock
  <2>3. QED BY <2>1, <2>2
<1>4. QED BY <1>1, <1>2, <1>3

LEMMA RoomCalm ==
  ASSUME RoomInv, TypeInv',
         \/ EnterMultiplayer \/ MintFails \/ NextRound
         \/ \E c \in Code : ClaimMint(c) \/ RivalHosts(c) \/ RivalLeaves(c)
         \/ \E p \in Phone : Looked(p)
  PROVE  RoomInv'
<1>1. TypeInv /\ dial \in Dials
  BY TypeGroups DEF RoomInv
<1>2. sock' = sock /\ roster' = roster /\ missed' = missed /\ (party => party')
  <2>1. CASE NextRound
    <3>1. UNCHANGED <<tvVars, dial, sock, grace, rival, faults, missed>>
      BY <2>1 DEF NextRound
    <3>2. QED BY <3>1 DEF tvVars
  <2>2. CASE EnterMultiplayer
    BY <2>2 DEF EnterMultiplayer
  <2>3. CASE MintFails \/ \E c \in Code : ClaimMint(c)
    BY <2>3 DEF MintFails, ClaimMint
  <2>4. CASE \E c \in Code : RivalHosts(c) \/ RivalLeaves(c)
    BY <2>4 DEF RivalHosts, RivalLeaves, tvVars
  <2>5. CASE \E p \in Phone : Looked(p)
    BY <2>5 DEF Looked, tvVars
  <2>6. QED BY <2>1, <2>2, <2>3, <2>4, <2>5
<1>3. dial'[Tv] = dial[Tv]
  <2>1. ASSUME NEW p \in Phone, Looked(p) PROVE dial'[Tv] = dial[Tv]
    BY <1>1, <2>1, SessionAssumption, Places DEF Looked, Dials
  <2>2. QED BY <2>1 DEF EnterMultiplayer, MintFails, NextRound, ClaimMint, RivalHosts, RivalLeaves
<1>4. \A c \in Code : c \in grace' \cup rival' => c \in grace \cup rival \/ Hosts(c) = {}
  BY DEF EnterMultiplayer, MintFails, NextRound, ClaimMint, RivalHosts, RivalLeaves, Looked
<1>5. QED BY <1>2, <1>3, <1>4, RoomSame

\* A phone that hangs up, is turned away, or joins again.
LEMMA RoomPhoneGone ==
  ASSUME RoomInv, TypeInv',
         \/ \E p \in Phone : DoJoin(p) \/ ClosePage(p) \/ Cut(p)
         \/ \E x \in Sock : HelloPhone(x) /\ Empty(sock[x].room)
  PROVE  RoomInv'
<1>1. TypeInv /\ dial \in Dials /\ sock \in Socks
  BY TypeGroups DEF RoomInv
<1>2. /\ roster' = roster /\ missed' = missed /\ party' = party /\ grace' = grace /\ rival' = rival
      /\ \E p \in Phone : sock' = Let(sock, p) /\ dial'[Tv] = dial[Tv]
  <2>1. ASSUME NEW p \in Phone, DoJoin(p) \/ ClosePage(p)
        PROVE  /\ roster' = roster /\ missed' = missed /\ party' = party
               /\ grace' = grace /\ rival' = rival
               /\ sock' = Let(sock, p) /\ dial'[Tv] = dial[Tv]
    BY <1>1, <2>1, SessionAssumption, Places, DownDial
       DEF DoJoin, ClosePage, Hangs, Drop, tvVars, Dials
  <2>2. ASSUME NEW p \in Phone, Cut(p)
        PROVE  /\ roster' = roster /\ missed' = missed /\ party' = party
               /\ grace' = grace /\ rival' = rival
               /\ sock' = Let(sock, p) /\ dial'[Tv] = dial[Tv]
    BY <1>1, <2>2, SessionAssumption, Places, DownDial DEF Cut, OnClose, Hangs, Drop, tvVars
  <2>3. ASSUME NEW x \in Sock, HelloPhone(x), Empty(sock[x].room)
        PROVE  /\ roster' = roster /\ missed' = missed /\ party' = party
               /\ grace' = grace /\ rival' = rival /\ x[1] \in Phone
               /\ sock' = Let(sock, x[1]) /\ dial'[Tv] = dial[Tv]
    BY <1>1, <2>3, SessionAssumption, Places, DownDial DEF HelloPhone, Refuse, Drop, tvVars
  <2>4. QED BY <2>1, <2>2, <2>3
<1>3. PICK p \in Phone : sock' = Let(sock, p) /\ dial'[Tv] = dial[Tv]
  BY <1>2
<1>4. \A x \in Sock : x[1] = Tv => sock'[x] = sock[x]
  BY <1>1, <1>3, LetSock, SessionAssumption, Places
<1>5. \A x \in Sock : \/ sock'[x] = sock[x]
                      \/ sock'[x].far = sock[x].far /\ sock'[x].room = sock[x].room
                      \/ sock[x].far \in {"none", "new"} /\ sock'[x].far = "none"
  BY <1>1, <1>3, LetMoves, Places
<1>6. \A x \in PhoneSock : x \in Sock
  BY Places
<1>7. QED BY <1>2, <1>3, <1>4, <1>5, <1>6, RoomSame

\* The TV's page lets go of its socket.
LEMMA RoomTvGone ==
  ASSUME RoomInv, TypeInv',
         \/ LeaveMultiplayer \/ Back \/ Reload \/ OnClose(Tv)
         \/ \E c \in Code : ConnectHost(c)
  PROVE  RoomInv'
<1>1. /\ TypeInv /\ TvSide /\ OneHost /\ Rows /\ WireOrder
      /\ dial \in Dials /\ sock \in Socks /\ dial' \in Dials
      /\ roster \subseteq PhoneSock /\ Tv \in Screen
  BY TypeGroups, Places DEF RoomInv
<1>2. CASE \E c \in Code : ConnectHost(c) /\ ~party
  <2>1. sock' = sock /\ roster' = roster /\ missed' = missed /\ party' = party /\ dial' = dial
        /\ grace' = grace /\ rival' = rival
    BY <1>2 DEF ConnectHost
  <2>2. QED BY <2>1, RoomSame
<1>3. CASE ~(\E c \in Code : ConnectHost(c) /\ ~party)
  <2>1. sock' = Let(sock, Tv) /\ grace' = grace /\ rival' = rival /\ roster' \subseteq roster
    BY <1>3 DEF LeaveMultiplayer, Back, Reload, OnClose, ConnectHost, CloseTvLink, Hangs, Drop, tvVars
  <2>2. dial'[Tv].is = "off" \/ (dial'[Tv].is = "wait" /\ party')
    <3>1. ASSUME NEW c \in Code, ConnectHost(c) PROVE dial'[Tv].is = "wait" /\ party'
      BY <1>1, <1>3, <3>1 DEF ConnectHost, Dials
    <3>2. CASE OnClose(Tv)
      BY <1>1, <3>2, DownDial DEF OnClose, Hangs, TvSide, tvVars
    <3>3. CASE LeaveMultiplayer \/ Back \/ Reload
      BY <1>1, <3>3, DownDial DEF LeaveMultiplayer, Back, Reload, CloseTvLink, Hangs
    <3>4. QED BY <3>1, <3>2, <3>3
  <2>3. dial'[Tv].room = dial[Tv].room \/ roster' \subseteq missed'
    <3>1. ASSUME NEW c \in Code, ConnectHost(c) PROVE roster' \subseteq missed'
      BY <1>3, <3>1 DEF ConnectHost
    <3>2. CASE LeaveMultiplayer \/ Back \/ Reload \/ OnClose(Tv)
      BY <1>1, <3>2, DownDial DEF LeaveMultiplayer, Back, Reload, OnClose, CloseTvLink, Hangs
    <3>3. QED BY <3>1, <3>2
  <2>4. missed \cup Unread \subseteq missed'
    BY <1>3 DEF LeaveMultiplayer, Back, Reload, OnClose, ConnectHost
  <2>5. ASSUME NEW x \in roster \ roster', sock[x].far = "in" PROVE x \in missed'
    <3>1. x \in InRoom(sock[x].room) /\ sock[x].room \in Code
      BY <1>1, <2>5, Places DEF InRoom, Socks, SockIs
    <3>2. LeaveMultiplayer \/ Reload
      BY <2>5 DEF LeaveMultiplayer, Back, Reload, OnClose, ConnectHost, tvVars
    <3>3. QED BY <3>1, <3>2 DEF LeaveMultiplayer, Reload
  <2>6. \A x \in Sock :
          \/ sock'[x].far = sock[x].far /\ sock'[x].room = sock[x].room
          \/ sock[x].far \in {"none", "new"} /\ sock'[x].far = "none"
    BY <1>1, <2>1, LetMoves
  <2>7. Rows'
    BY <1>1, <2>1, <2>2, <2>3, <2>4, <2>5, <2>6, RowsHang, Places
  <2>8. OneHost'
    <3>1. \A x \in {Tv} \X Slot : sock'[x].far = "in" => sock[x].far = "in" /\ sock'[x].room = sock[x].room
      BY <2>6, Places
    <3>2. QED BY <1>1, <2>1, <3>1, HostsMove
  <2>9. TvSide'
    <3>1. \A s \in Slot : sock'[<<Tv, s>>].far # "closing"
      BY <1>1, <2>6, Places DEF TvSide
    <3>2. QED BY <2>2, <3>1 DEF TvSide
  <2>10. QED BY <2>2, <2>7, <2>8, <2>9 DEF RoomInv, WireOrder
<1>4. QED BY <1>2, <1>3

\* What is left to read after a frame, and the frame that was read.
LEMMA WaitsRead ==
  ASSUME RoomInv, TypeInv', TvReads
  PROVE  LET f == Head(sock[Line(Tv)].wire) IN
         /\ f \in Frame
         /\ dial' = dial /\ dial[Tv].is = "open" /\ WireOrder'
         /\ \A x \in Sock : sock'[x].far = sock[x].far /\ sock'[x].room = sock[x].room
         /\ \A op, x : Waits(op, x) <=> f = Of(op, x) \/ Waits(op, x)'
         /\ \A x \in PhoneSock : f = Of("left", x) => ~Waits("joined", x)'
         /\ TvLive' <=> TvLive
<1> DEFINE w == sock[Line(Tv)].wire
<1>1. /\ TypeInv /\ WireOrder /\ dial \in Dials /\ sock \in Socks /\ dial' \in Dials
  BY TypeGroups DEF RoomInv
<1>2. w # <<>> /\ sock' = Read(Tv) /\ dial' = dial /\ dial[Tv].is = "open"
  BY DEF TvReads, TvWelcomed, TvRoster, TvHostgone, TvRefused, TvHears, tvVars
<1>3. Line(Tv)' = Line(Tv) /\ Line(Tv) \in Sock
  BY <1>1, <1>2, LiveLine, Places DEF Line
<1>4. w \in Seq(Frame) /\ InOrder(w)
  BY <1>1, <1>2, <1>3 DEF WireOrder, Socks, SockIs
<1>5. /\ \A x \in Sock : sock'[x].far = sock[x].far /\ sock'[x].room = sock[x].room
      /\ sock'[Line(Tv)].wire = Tail(w) /\ Head(w) \in Frame
      /\ Frames(w) = {Head(w)} \cup Frames(Tail(w))
  BY <1>1, <1>2, ReadSock
<1>6. /\ InOrder(Tail(w))
      /\ \A x \in PhoneSock : Head(w) = Of("left", x) => Of("joined", x) \notin Frames(Tail(w))
  BY <1>2, <1>4, OrderRead
<1>7. \A op, x : Waits(op, x)' <=> Of(op, x) \in Frames(Tail(w))
  BY <1>3, <1>5, WaitsFrames
<1>8. \A op, x : Waits(op, x) <=> Of(op, x) \in Frames(w)
  BY WaitsFrames
<1>9. TvLive' <=> TvLive
  BY <1>1, <1>2, <1>3, <1>5, TvIsLive
<1>10. WireOrder'
  BY <1>3, <1>5, <1>6 DEF WireOrder
<1> HIDE DEF w
<1>11. QED BY <1>2, <1>5, <1>6, <1>7, <1>8, <1>9, <1>10 DEF w

LEMMA RoomRead ==
  ASSUME RoomInv, TypeInv', TvReads
  PROVE  RoomInv'
<1> DEFINE f == Head(sock[Line(Tv)].wire)
<1>1. /\ TypeInv /\ TvSide /\ OneHost /\ Rows /\ dial \in Dials
  BY TypeGroups DEF RoomInv
<1>2. /\ f \in Frame
      /\ dial' = dial /\ dial[Tv].is = "open" /\ WireOrder'
      /\ \A x \in Sock : sock'[x].far = sock[x].far /\ sock'[x].room = sock[x].room
      /\ \A op, x : Waits(op, x) <=> f = Of(op, x) \/ Waits(op, x)'
      /\ \A x \in PhoneSock : f = Of("left", x) => ~Waits("joined", x)'
      /\ TvLive' <=> TvLive
  BY WaitsRead
<1>3. party' = party /\ missed' = missed /\ grace' = grace /\ rival' = rival
  BY DEF TvReads, TvWelcomed, TvRoster, TvHostgone, TvRefused, tvVars
<1>4. \/ roster' = roster /\ f.op \notin {"joined", "left"}
      \/ roster' = roster \cup {f.id} /\ f.op = "joined"
      \/ roster' = roster \ {f.id} /\ f.op = "left"
  <2>1. CASE TvRoster
    <3>1. f.op \in {"joined", "left"}
      BY <2>1 DEF TvRoster, TvHears
    <3>2. roster' = IF f.op = "joined" THEN roster \cup {f.id} ELSE roster \ {f.id}
      BY <2>1 DEF TvRoster
    <3> HIDE DEF f
    <3>3. QED BY <3>1, <3>2
  <2>2. CASE TvWelcomed \/ TvHostgone \/ TvRefused
    <3>1. f.op \in {"welcome", "hostgone", "err"}
      BY <2>2 DEF TvWelcomed, TvHostgone, TvRefused, TvHears
    <3>2. roster' = roster
      BY <2>2 DEF TvWelcomed, TvHostgone, TvRefused, tvVars
    <3> HIDE DEF f
    <3>3. QED BY <3>1, <3>2
  <2>3. QED BY <2>1, <2>2 DEF TvReads
<1> HIDE DEF f
<1>5. Line(Tv)' = Line(Tv) /\ Line(Tv) \in Sock /\ PhoneSock \subseteq Sock
      /\ \A s \in Slot : <<Tv, s>> \in Sock
  BY <1>1, <1>2, LiveLine, Places DEF Line
<1>6. TvSide'
  BY <1>1, <1>2, <1>3, <1>5 DEF TvSide
<1>7. OneHost'
  <2>1. \A x \in {Tv} \X Slot : sock'[x].far = "in" => sock[x].far = "in" /\ sock'[x].room = sock[x].room
    BY <1>2, Places
  <2>2. QED BY <1>1, <1>3, <2>1, HostsMove
<1>8. \A x \in PhoneSock : (f = Of("joined", x) \/ f = Of("left", x)) => TvLive
  <2>1. \A x \in PhoneSock : (f = Of("joined", x) \/ f = Of("left", x)) =>
          Waits("joined", x) \/ Waits("left", x)
    BY <1>2
  <2>2. QED BY <1>1, <1>2, <2>1, TvIsLive DEF TvSide
<1>9. ASSUME NEW x \in PhoneSock, f.op \notin {"joined", "left"} \/ f.id # x
      PROVE  Row(x)'
  <2>1. f # Of("joined", x) /\ f # Of("left", x)
    BY <1>9, FrameNames
  <2>2. (On("joined", x)' <=> On("joined", x)) /\ (On("left", x)' <=> On("left", x))
    BY <1>2, <2>1 DEF On
  <2>3. x \in roster' <=> x \in roster
    BY <1>4, <1>9
  <2>4. Row(x) /\ x \in Sock
    BY <1>1, <1>5 DEF Rows
  <2>5. QED BY <1>2, <1>3, <2>2, <2>3, <2>4, RowMove
<1>10. ASSUME NEW x \in PhoneSock, f.op = "joined", f.id = x
       PROVE  Row(x)'
  <2>1. f = Of("joined", x) /\ f # Of("left", x)
    BY <1>2, <1>10, FrameNames
  <2>2. /\ On("joined", x) /\ TvLive
        /\ On("left", x)' <=> On("left", x)
    BY <1>2, <1>8, <2>1 DEF On
  <2>3. x \in roster' /\ x \in Sock
    BY <1>4, <1>5, <1>10
  <2>4. /\ \/ sock[x].far \in {"in", "closing"} /\ sock[x].room = dial[Tv].room
           \/ On("left", x)
        /\ On("left", x) => sock[x].far = "none"
    BY <1>1, <2>2 DEF Rows, Row
  <2>5. QED BY <1>2, <2>2, <2>3, <2>4 DEF Row
<1>11. ASSUME NEW x \in PhoneSock, f.op = "left", f.id = x
       PROVE  Row(x)'
  <2>1. f = Of("left", x) /\ x \in Sock
    BY <1>2, <1>5, <1>11, FrameNames
  <2>2. On("left", x) /\ ~On("joined", x)'
    BY <1>2, <1>8, <2>1 DEF On
  <2>3. x \notin roster' /\ sock[x].far = "none"
    BY <1>1, <1>4, <1>11, <2>2 DEF Rows, Row
  <2>4. QED BY <1>2, <2>1, <2>2, <2>3 DEF Row
<1>12. Rows'
  <2>1. ASSUME NEW x \in PhoneSock PROVE Row(x)'
    BY <1>9, <1>10, <1>11
  <2>2. QED BY <2>1 DEF Rows
<1>13. QED BY <1>2, <1>6, <1>7, <1>12 DEF RoomInv

\* A new socket, the TV's or a phone's.
LEMMA RoomDial ==
  ASSUME RoomInv, TypeInv', NEW w \in Screen, NEW s \in Slot, Dial(w, s)
  PROVE  RoomInv'
<1> DEFINE new == <<w, s>>
           r == [Free EXCEPT !.far = "new", !.room = dial[w].room]
<1>1. /\ TypeInv /\ TvSide /\ OneHost /\ Rows /\ WireOrder /\ dial \in Dials /\ sock \in Socks
      /\ dial' \in Dials /\ roster \subseteq PhoneSock /\ missed \subseteq PhoneSock
  BY TypeGroups DEF RoomInv
<1>2. r.far = "new" /\ r.room = dial[w].room /\ r.wire = <<>>
  BY FreeSock DEF Free
<1>3. new \in Sock /\ new[1] = w /\ sock' = [sock EXCEPT ![new] = r] /\ sock[new].far = "none"
  BY DEF Dial, Sock
<1> HIDE DEF r
<1>4. sock'[new] = r /\ \A x \in Sock : x # new => sock'[x] = sock[x]
  BY <1>1, <1>3 DEF Socks
<1>5. /\ dial[w].is = "wait" /\ dial'[w].is = "open" /\ dial'[w].slot = s
      /\ dial'[w].room = dial[w].room /\ \A v \in Screen : v # w => dial'[v] = dial[v]
  <2>1. dial' = Opened(w, s) /\ dial[w].is = "wait"
    BY DEF Dial, Opened
  <2>2. QED BY <1>1, <2>1, OpenDial
<1>6. /\ roster' = roster /\ party' = party /\ grace' = grace /\ rival' = rival
      /\ missed' = missed \ {new} /\ new \notin roster /\ new \notin Unread
  BY DEF Dial, tvVars
<1> HIDE DEF new
<1>7. OneHost'
  <2>1. \A x \in {Tv} \X Slot : sock'[x].far = "in" => sock[x].far = "in" /\ sock'[x].room = sock[x].room
    BY <1>2, <1>4, Places
  <2>2. QED BY <1>1, <1>6, <2>1, HostsMove
<1>8. \A t \in Slot : sock'[<<Tv, t>>].far # "closing"
  BY <1>1, <1>2, <1>4, Places DEF TvSide
<1>9. CASE w = Tv
  <2>1. Line(Tv)' = new
    BY <1>5, <1>9 DEF Line, new
  <2>2. ~TvLive /\ ~TvLive'
    BY <1>1, <1>2, <1>4, <1>5, <1>9, <2>1, TvIsLive
  <2>3. \A x \in PhoneSock : x # new /\ x \in Sock
    BY <1>3, <1>9, Places
  <2>4. Rows'
    <3>1. ASSUME NEW x \in PhoneSock PROVE Row(x)'
      <4>1. (On("joined", x)' <=> On("joined", x)) /\ (On("left", x)' <=> On("left", x))
        BY <2>2 DEF On
      <4>2. Row(x) /\ sock'[x] = sock[x] /\ (x \in missed' <=> x \in missed)
        BY <1>1, <1>4, <1>6, <2>3 DEF Rows
      <4>3. QED BY <1>5, <1>6, <1>9, <4>1, <4>2, RowMove
    <3>2. QED BY <3>1 DEF Rows
  <2>5. \A op, x : ~Waits(op, x)'
    BY <1>2, <1>4, <2>1, WaitsFrames, FramesOne
  <2>6. TvSide'
    BY <1>1, <1>2, <1>4, <1>5, <1>6, <1>8, <1>9, <2>1, <2>5 DEF TvSide
  <2>7. WireOrder'
    <3>1. InOrder(sock'[new].wire)
      BY <1>2, <1>4, OrderNone, FramesOne
    <3>2. QED BY <2>1, <3>1 DEF WireOrder
  <2>8. QED BY <1>7, <2>4, <2>6, <2>7 DEF RoomInv
<1>10. CASE w # Tv
  <2>1. new \in PhoneSock /\ dial'[Tv] = dial[Tv]
    BY <1>3, <1>5, <1>10, Places
  <2>2. Line(Tv) \in Sock /\ Line(Tv) # new
    BY <1>1, <1>3, <1>10, LiveLine, Places
  <2>3. sock'[Line(Tv)] = sock[Line(Tv)]
    BY <1>4, <2>2
  <2>4. /\ \A op, x : On(op, x)' <=> On(op, x)
        /\ WireOrder' /\ TvSide'
    BY <1>1, <1>6, <1>8, <2>1, <2>3, TvSame
  <2>5. ASSUME NEW x \in PhoneSock, x # new PROVE Row(x)'
    <3>1. Row(x) /\ sock'[x] = sock[x] /\ (x \in missed' <=> x \in missed)
      BY <1>1, <1>4, <1>6, <2>5, Places DEF Rows
    <3>2. QED BY <1>6, <2>1, <2>4, <3>1, RowMove
  <2>6. Row(new)'
    <3>1. ~On("joined", new) /\ ~On("left", new)
      BY <1>1, <1>6, <2>1, UnreadIs, TvIsLive DEF On
    <3>2. QED BY <1>2, <1>4, <1>6, <2>4, <3>1 DEF Row
  <2>7. Rows'
    BY <2>5, <2>6 DEF Rows
  <2>8. QED BY <1>7, <2>4, <2>7 DEF RoomInv
<1>11. QED BY <1>9, <1>10

\* The relay answers the TV's hello: its wire carries no roster yet.
LEMMA RoomHelloHost ==
  ASSUME RoomInv, TypeInv', NEW x \in Sock, HelloHost(x)
  PROVE  RoomInv'
<1> DEFINE c == sock[x].room
<1>1. /\ TypeInv /\ TvSide /\ OneHost /\ Rows /\ WireOrder /\ dial \in Dials /\ sock \in Socks
      /\ dial' \in Dials
  BY TypeGroups DEF RoomInv
<1>2. /\ x = Line(Tv) /\ Live(x)
      /\ \A y \in Sock : y # x => sock'[y] = sock[y]
      /\ sock'[x].room = c
      /\ \/ /\ Empty(c) /\ sock'[x].far = "in" /\ grace' = grace \ {c}
            /\ Frames(sock'[x].wire) = Frames(sock[x].wire) \cup {Op("welcome")}
         \/ /\ ~Empty(c) /\ sock'[x].far = "none" /\ grace' = grace
            /\ Frames(sock'[x].wire) = Frames(sock[x].wire) \cup {Op("err"), Op("bye")}
  BY <1>1, HelloHostSock
<1>3. /\ sock[x].far = "new" /\ dial' = dial /\ roster' = roster /\ missed' = missed
      /\ party' = party /\ rival' = rival
  BY DEF HelloHost, tvVars
<1> HIDE DEF c
<1>4. Line(Tv)' = x /\ dial[Tv].is = "open" /\ x \notin PhoneSock
  BY <1>1, <1>2, <1>3, LiveLine, Places DEF Line
<1>5. ASSUME NEW y \in PhoneSock, NEW o \in {"joined", "left"} PROVE ~Waits(o, y)'
  <2>1. Of(o, y) \notin Frames(sock[x].wire)
    BY <1>1, <1>2, <1>3, <1>4, WaitsFrames DEF TvSide
  <2>2. Of(o, y) # Op("welcome") /\ Of(o, y) # Op("err") /\ Of(o, y) # Op("bye")
    BY FrameNames
  <2>3. Of(o, y) \notin Frames(sock'[x].wire)
    BY <1>2, <2>1, <2>2
  <2>4. QED BY <1>4, <2>3, WaitsFrames
<1>6. WireOrder'
  <2>1. \A y \in PhoneSock : Of("left", y) \notin Frames(sock'[x].wire)
    BY <1>4, <1>5, WaitsFrames
  <2>2. QED BY <1>4, <2>1, OrderNone DEF WireOrder
<1>7. TvSide'
  <2>1. \A s \in Slot : sock'[<<Tv, s>>].far # "closing"
    BY <1>1, <1>2, Places DEF TvSide
  <2>2. QED BY <1>1, <1>2, <1>3, <1>4, <1>5, <2>1 DEF TvSide, c
<1>8. Rows'
  <2>1. ASSUME NEW y \in PhoneSock PROVE Row(y)'
    <3>1. ~TvLive
      BY <1>1, <1>2, <1>3, TvIsLive
    <3>2. \A o \in {"joined", "left"} : ~On(o, y) /\ ~On(o, y)'
      BY <1>5, <3>1 DEF On
    <3>3. Row(y) /\ sock'[y] = sock[y]
      BY <1>1, <1>2, <1>4, Places DEF Rows
    <3>4. QED BY <1>3, <3>2, <3>3, RowMove
  <2>2. QED BY <2>1 DEF Rows
<1>9. OneHost'
  <2>1. CASE ~Empty(c)
    <3>1. \A y \in {Tv} \X Slot : sock'[y].far = "in" => sock[y].far = "in" /\ sock'[y].room = sock[y].room
      BY <1>2, <2>1, Places
    <3>2. QED BY <1>1, <1>2, <1>3, <2>1, <3>1, HostsMove
  <2>2. CASE Empty(c)
    <3>1. Hosts(c) = {} /\ c \notin rival /\ grace' = grace \ {c} /\ sock'[x].room = c
      BY <1>2, <2>2 DEF Empty
    <3>2. ASSUME NEW d \in Code, NEW y \in Hosts(d)' PROVE IF y = x THEN d = c ELSE y \in Hosts(d)
      BY <1>2, <3>1, Places DEF Hosts
    <3>3. ASSUME NEW d \in Code
          PROVE  /\ \A y, z \in Hosts(d)' : y = z
                 /\ d \in grace' \cup rival' => Hosts(d)' = {}
      <4>1. \A y, z \in Hosts(d) : y = z
        BY <1>1 DEF OneHost
      <4>2. CASE d = c
        BY <1>3, <3>1, <3>2, <4>2
      <4>3. CASE d # c
        BY <1>1, <1>3, <3>1, <3>2, <4>1, <4>3 DEF OneHost
      <4>4. QED BY <4>2, <4>3
    <3>4. QED BY <3>3 DEF OneHost
  <2>3. QED BY <2>1, <2>2
<1>10. QED BY <1>6, <1>7, <1>8, <1>9 DEF RoomInv

Heard(c) == \E h \in Hosts(c) : Live(h)

\* What the relay tells the host of a phone's room, if its page is there.
LEMMA TvTold ==
  ASSUME RoomInv, TypeInv', NEW x \in PhoneSock, NEW op \in {"joined", "left"}, NEW c \in Code,
         dial' = dial, party' = party,
         \A s \in Slot : sock'[<<Tv, s>>].far # "closing",
         dial[Tv].is = "open" =>
           /\ sock'[Line(Tv)].far = sock[Line(Tv)].far /\ sock'[Line(Tv)].room = sock[Line(Tv)].room
           /\ Line(Tv) \in Hosts(c) =>
                /\ sock'[Line(Tv)].wire = Joined(sock[Line(Tv)].wire, <<Of(op, x)>>)
                /\ Frames(sock'[Line(Tv)].wire) = Frames(sock[Line(Tv)].wire) \cup {Of(op, x)}
           /\ Line(Tv) \notin Hosts(c) => sock'[Line(Tv)].wire = sock[Line(Tv)].wire,
         op = "joined" => ~On("left", x)
  PROVE  /\ Heard(c) <=> TvLive /\ dial[Tv].room = c
         /\ \A y \in PhoneSock, o \in {"joined", "left"} :
              On(o, y)' <=> On(o, y) \/ (Heard(c) /\ o = op /\ y = x)
         /\ WireOrder' /\ TvSide'
<1> DEFINE w == sock[Line(Tv)].wire
           f == Of(op, x)
<1>1. /\ TypeInv /\ TvSide /\ WireOrder /\ dial \in Dials /\ dial' \in Dials /\ sock \in Socks
      /\ Line(Tv)' = Line(Tv) /\ Line(Tv) \in Sock /\ w \in Seq(Frame)
  <2>1. TypeInv /\ TvSide /\ WireOrder /\ dial \in Dials /\ dial' \in Dials /\ sock \in Socks
    BY TypeGroups DEF RoomInv
  <2>2. Line(Tv)' = Line(Tv) /\ Line(Tv) \in Sock
    BY <2>1, LiveLine, Places DEF Line
  <2>3. QED BY <2>1, <2>2 DEF Socks, SockIs
<1>2. \A h \in Hosts(c) : Live(h) => h = Line(Tv) /\ dial[Tv].is = "open"
  <2>1. \A h \in Hosts(c) : h \in Sock /\ h[1] = Tv
    BY Places DEF Hosts
  <2>2. QED BY <1>1, <2>1, LiveLine
<1>3. Line(Tv) \in Hosts(c) <=> sock[Line(Tv)].far = "in" /\ sock[Line(Tv)].room = c
  <2>1. Line(Tv) \in {Tv} \X Slot
    BY <1>1 DEF Line, Sock
  <2>2. QED BY <2>1 DEF Hosts
<1>4. /\ Heard(c) <=> TvLive /\ dial[Tv].room = c
      /\ Heard(c) <=> dial[Tv].is = "open" /\ Line(Tv) \in Hosts(c)
  <2>1. Live(Line(Tv)) <=> dial[Tv].is = "open"
    BY <1>1, LiveLine, Places
  <2>2. Heard(c) <=> dial[Tv].is = "open" /\ Line(Tv) \in Hosts(c)
    BY <1>2, <2>1 DEF Heard
  <2>3. QED BY <1>1, <1>3, <2>2, TvIsLive DEF TvSide
<1>5. TvLive' <=> TvLive
  BY <1>1, TvIsLive
<1> HIDE DEF w, f
<1>6. ASSUME NEW y \in PhoneSock, NEW o \in {"joined", "left"}, dial[Tv].is = "open"
      PROVE  Waits(o, y)' <=> Waits(o, y) \/ (Heard(c) /\ o = op /\ y = x)
  <2>1. Of(o, y) = Of(op, x) <=> o = op /\ y = x
    BY FrameNames
  <2>2. Heard(c) => Frames(sock'[Line(Tv)].wire) = Frames(sock[Line(Tv)].wire) \cup {Of(op, x)}
    BY <1>4, <1>6
  <2>3. ~Heard(c) => Frames(sock'[Line(Tv)].wire) = Frames(sock[Line(Tv)].wire)
    BY <1>4, <1>6
  <2>4. QED BY <1>1, <2>1, <2>2, <2>3, WaitsFrames
<1>7. \A y \in PhoneSock, o \in {"joined", "left"} :
        On(o, y)' <=> On(o, y) \/ (Heard(c) /\ o = op /\ y = x)
  BY <1>1, <1>4, <1>5, <1>6, TvIsLive DEF On
<1>8. TvSide'
  <2>1. dial[Tv].is = "open" /\ sock[Line(Tv)].far # "in" => ~Heard(c)
    BY <1>3, <1>4
  <2>2. QED BY <1>1, <1>6, <2>1 DEF TvSide
<1>9. WireOrder'
  <2>1. CASE Heard(c)
    <3>1. sock'[Line(Tv)].wire = Joined(w, <<f>>) /\ InOrder(w) /\ f \in Frame
      BY <1>1, <1>4, <2>1, FrameNames DEF WireOrder, w, f
    <3>2. \A y \in PhoneSock : f = Of("joined", y) => Of("left", y) \notin Frames(w)
      <4>1. ASSUME NEW y \in PhoneSock, f = Of("joined", y) PROVE Of("left", y) \notin Frames(w)
        <5>1. op = "joined" /\ y = x
          BY <4>1, FrameNames DEF f
        <5>2. QED BY <1>4, <2>1, <5>1, WaitsFrames DEF On, w
      <4>2. QED BY <4>1
    <3>3. InOrder(w \o <<f>>)
      BY <1>1, <3>1, <3>2, OrderSent
    <3>4. w \o <<f>> = Joined(w, <<f>>)
      BY DEF Joined
    <3>5. QED BY <1>1, <3>1, <3>3, <3>4 DEF WireOrder
  <2>2. CASE ~Heard(c)
    BY <1>1, <1>4, <2>2 DEF WireOrder
  <2>3. QED BY <2>1, <2>2
<1>10. QED BY <1>4, <1>7, <1>8, <1>9

\* The relay lets a phone in.
LEMMA RoomHelloPhone ==
  ASSUME RoomInv, TypeInv', NEW x \in Sock, HelloPhone(x), ~Empty(sock[x].room)
  PROVE  RoomInv'
<1> DEFINE c == sock[x].room
<1>1. /\ TypeInv /\ TvSide /\ OneHost /\ Rows /\ dial \in Dials /\ sock \in Socks
  BY TypeGroups DEF RoomInv
<1>2. /\ sock[x].far = "new" /\ dial' = dial /\ roster' = roster /\ party' = party
      /\ rival' = rival /\ grace' = grace
      /\ missed' = IF Heard(c) THEN missed ELSE missed \cup {x}
  BY DEF HelloPhone, Heard, tvVars
<1>3. /\ x \in PhoneSock /\ sock'[x].far = "in" /\ sock'[x].room = c
      /\ \A y \in Sock : sock'[y].room = sock[y].room /\ (y # x => sock'[y].far = sock[y].far)
      /\ \A y \in Hosts(c) : Live(y) =>
           /\ sock'[y].wire = Joined(sock[y].wire, <<Of("joined", x)>>)
           /\ Frames(sock'[y].wire) = Frames(sock[y].wire) \cup {Of("joined", x)}
      /\ \A y \in Sock : ~(y \in Hosts(c) /\ Live(y)) => sock'[y].wire = sock[y].wire
  BY <1>1, HelloPhoneSock
<1>4. c \in Code
  BY <1>1, <1>2 DEF Socks, SockIs
<1> HIDE DEF c
<1>5. Line(Tv) \in Sock /\ Line(Tv) # x /\ (Live(Line(Tv)) <=> dial[Tv].is = "open")
      /\ \A s \in Slot : <<Tv, s>> \in Sock /\ <<Tv, s>> # x
  BY <1>1, <1>3, LiveLine, Places
<1>6. ~On("left", x) /\ ~On("joined", x)
  BY <1>1, <1>2, <1>3 DEF Rows, Row
<1>7. \A s \in Slot : sock'[<<Tv, s>>].far # "closing"
  BY <1>1, <1>3, <1>5 DEF TvSide
<1>8. /\ Heard(c) <=> TvLive /\ dial[Tv].room = c
      /\ \A y \in PhoneSock, o \in {"joined", "left"} :
           On(o, y)' <=> On(o, y) \/ (Heard(c) /\ o = "joined" /\ y = x)
      /\ WireOrder' /\ TvSide'
  <2>1. dial[Tv].is = "open" =>
           /\ sock'[Line(Tv)].far = sock[Line(Tv)].far /\ sock'[Line(Tv)].room = sock[Line(Tv)].room
           /\ Line(Tv) \in Hosts(c) =>
                /\ sock'[Line(Tv)].wire = Joined(sock[Line(Tv)].wire, <<Of("joined", x)>>)
                /\ Frames(sock'[Line(Tv)].wire) = Frames(sock[Line(Tv)].wire) \cup {Of("joined", x)}
           /\ Line(Tv) \notin Hosts(c) => sock'[Line(Tv)].wire = sock[Line(Tv)].wire
    BY <1>3, <1>5
  <2>2. QED BY <1>2, <1>3, <1>4, <1>6, <1>7, <2>1, TvTold
<1>9. Row(x)'
  <2>1. x \in roster => x \in missed
    BY <1>1, <1>2, <1>3, <1>6 DEF Rows, Row
  <2>2. ~On("left", x)'
    BY <1>3, <1>6, <1>8
  <2>3. CASE Heard(c)
    BY <1>2, <1>3, <1>8, <2>1, <2>2, <2>3 DEF Row
  <2>4. CASE ~Heard(c)
    BY <1>2, <1>3, <1>6, <1>8, <2>2, <2>4 DEF Row
  <2>5. QED BY <2>3, <2>4
<1>10. ASSUME NEW y \in PhoneSock, y # x PROVE Row(y)'
  <2>1. (On("joined", y)' <=> On("joined", y)) /\ (On("left", y)' <=> On("left", y))
    BY <1>8, <1>10
  <2>2. Row(y) /\ (y \in missed' <=> y \in missed)
        /\ sock'[y].far = sock[y].far /\ sock'[y].room = sock[y].room
    BY <1>1, <1>2, <1>3, <1>10, Places DEF Rows
  <2>3. QED BY <1>2, <2>1, <2>2, RowMove
<1>11. Rows'
  BY <1>9, <1>10 DEF Rows
<1>12. OneHost'
  <2>1. \A y \in {Tv} \X Slot : sock'[y].far = "in" => sock[y].far = "in" /\ sock'[y].room = sock[y].room
    BY <1>3, <1>5, Places
  <2>2. QED BY <1>1, <1>2, <2>1, HostsMove
<1>13. QED BY <1>8, <1>11, <1>12 DEF RoomInv

\* The relay notices the end of a phone's socket.
LEMMA RoomClosePhone ==
  ASSUME RoomInv, TypeInv', NEW x \in PhoneSock, WebSocketClose(x)
  PROVE  RoomInv'
<1> DEFINE c == sock[x].room
<1>1. /\ TypeInv /\ TvSide /\ OneHost /\ Rows /\ dial \in Dials /\ sock \in Socks /\ x \in Sock
  BY TypeGroups, Places DEF RoomInv
<1>2. /\ sock[x].far \in {"in", "closing"} /\ dial' = dial /\ roster' = roster /\ party' = party
      /\ rival' = rival /\ grace' = grace
      /\ missed' = IF x \in roster /\ ~Heard(c) THEN missed \cup {x} ELSE missed \ {x}
  <2>1. x \notin Hosts(c)
    BY <1>1, Places DEF Hosts
  <2>2. QED BY <2>1 DEF WebSocketClose, Heard, tvVars
<1>3. /\ sock'[x].far = "none"
      /\ \A y \in Sock : y # x => sock'[y].room = sock[y].room /\ sock'[y].far = sock[y].far
      /\ \A y \in Hosts(c) : Live(y) =>
           /\ sock'[y].wire = Joined(sock[y].wire, <<Of("left", x)>>)
           /\ Frames(sock'[y].wire) = Frames(sock[y].wire) \cup {Of("left", x)}
      /\ \A y \in Sock : y # x /\ ~(y \in Hosts(c) /\ Live(y)) => sock'[y].wire = sock[y].wire
  BY <1>1, CloseSock
<1>4. c \in Code
  BY <1>1, <1>2 DEF Socks, SockIs
<1> HIDE DEF c
<1>5. Line(Tv) \in Sock /\ Line(Tv) # x /\ (Live(Line(Tv)) <=> dial[Tv].is = "open")
      /\ \A s \in Slot : <<Tv, s>> \in Sock /\ <<Tv, s>> # x
  BY <1>1, <1>3, LiveLine, Places
<1>6. ~On("left", x)
  BY <1>1, <1>2, <1>3 DEF Rows, Row
<1>7. \A s \in Slot : sock'[<<Tv, s>>].far # "closing"
  BY <1>1, <1>3, <1>5 DEF TvSide
<1>8. /\ Heard(c) <=> TvLive /\ dial[Tv].room = c
      /\ \A y \in PhoneSock, o \in {"joined", "left"} :
           On(o, y)' <=> On(o, y) \/ (Heard(c) /\ o = "left" /\ y = x)
      /\ WireOrder' /\ TvSide'
  <2>1. dial[Tv].is = "open" =>
           /\ sock'[Line(Tv)].far = sock[Line(Tv)].far /\ sock'[Line(Tv)].room = sock[Line(Tv)].room
           /\ Line(Tv) \in Hosts(c) =>
                /\ sock'[Line(Tv)].wire = Joined(sock[Line(Tv)].wire, <<Of("left", x)>>)
                /\ Frames(sock'[Line(Tv)].wire) = Frames(sock[Line(Tv)].wire) \cup {Of("left", x)}
           /\ Line(Tv) \notin Hosts(c) => sock'[Line(Tv)].wire = sock[Line(Tv)].wire
    BY <1>3, <1>5
  <2>2. QED BY <1>2, <1>4, <1>7, <2>1, TvTold
<1>9. Row(x)'
  <2>1. On("joined", x) => Heard(c)
    BY <1>1, <1>6, <1>8 DEF Rows, Row, On, c
  <2>2. On("joined", x)' => On("left", x)'
    BY <1>8, <2>1
  <2>3. x \in roster => On("left", x)' \/ x \in missed'
    BY <1>2, <1>8
  <2>4. QED BY <1>2, <1>3, <2>2, <2>3 DEF Row
<1>10. ASSUME NEW y \in PhoneSock, y # x PROVE Row(y)'
  <2>1. (On("joined", y)' <=> On("joined", y)) /\ (On("left", y)' <=> On("left", y))
    BY <1>8, <1>10
  <2>2. Row(y) /\ (y \in missed' <=> y \in missed)
        /\ sock'[y].far = sock[y].far /\ sock'[y].room = sock[y].room
    BY <1>1, <1>2, <1>3, <1>10, Places DEF Rows
  <2>3. QED BY <1>2, <2>1, <2>2, RowMove
<1>11. Rows'
  BY <1>9, <1>10 DEF Rows
<1>12. OneHost'
  <2>1. \A y \in {Tv} \X Slot : sock'[y].far = "in" => sock[y].far = "in" /\ sock'[y].room = sock[y].room
    BY <1>3, <1>5, Places
  <2>2. QED BY <1>1, <1>2, <2>1, HostsMove
<1>13. QED BY <1>8, <1>11, <1>12 DEF RoomInv

\* The relay notices the end of a socket that a TV's page has left.
LEMMA RoomCloseTv ==
  ASSUME RoomInv, TypeInv', NEW x \in Sock, x \notin PhoneSock, WebSocketClose(x)
  PROVE  RoomInv'
<1> DEFINE c == sock[x].room
<1>1. /\ TypeInv /\ TvSide /\ OneHost /\ Rows /\ WireOrder /\ dial \in Dials /\ sock \in Socks
      /\ roster \subseteq PhoneSock /\ missed \subseteq PhoneSock
      /\ x[1] = Tv /\ x[2] \in Slot /\ x = <<Tv, x[2]>>
  BY TypeGroups, Places DEF RoomInv
<1>2. sock[x].far = "in" /\ ~Live(x)
  BY <1>1 DEF WebSocketClose, TvSide
<1>3. c \in Code /\ x \in Hosts(c)
  BY <1>1, <1>2 DEF Hosts, Socks, SockIs
<1>4. /\ dial' = dial /\ roster' = roster /\ party' = party /\ rival' = rival
      /\ missed' = missed /\ grace' = grace \cup {c} /\ sock' = [sock EXCEPT ![x] = Free]
  BY <1>1, <1>3 DEF WebSocketClose, tvVars
<1>5. sock'[x].far = "none" /\ \A y \in Sock : y # x => sock'[y] = sock[y]
  BY <1>1, <1>4, FreeSock DEF Socks
<1> HIDE DEF c
<1>6. /\ Line(Tv) \in Sock /\ dial[Tv].is = "open" => Line(Tv) # x
      /\ PhoneSock \subseteq Sock
  BY <1>1, <1>2, LiveLine, Places
<1>7. (\A op, y : On(op, y)' <=> On(op, y)) /\ WireOrder' /\ TvSide'
  <2>1. \A s \in Slot : sock'[<<Tv, s>>].far # "closing"
    BY <1>1, <1>5, Places DEF TvSide
  <2>2. dial[Tv].is = "open" => sock'[Line(Tv)] = sock[Line(Tv)]
    BY <1>1, <1>5, <1>6, LiveLine, Places
  <2>3. QED BY <1>1, <1>4, <2>1, <2>2, TvSame
<1>8. Rows'
  <2>1. ASSUME NEW y \in PhoneSock PROVE Row(y)'
    <3>1. sock'[y] = sock[y] /\ Row(y)
      BY <1>1, <1>5, <1>6 DEF Rows
    <3>2. QED BY <1>4, <1>7, <3>1, RowMove
  <2>2. QED BY <2>1 DEF Rows
<1>9. OneHost'
  <2>1. ASSUME NEW d \in Code, NEW y \in Hosts(d)' PROVE y \in Hosts(d) /\ y # x
    BY <1>5, Places DEF Hosts
  <2>2. ASSUME NEW d \in Code
        PROVE  /\ \A y, z \in Hosts(d)' : y = z
               /\ d \in grace' \cup rival' => Hosts(d)' = {}
    <3>1. \A y, z \in Hosts(d) : y = z
      BY <1>1 DEF OneHost
    <3>2. CASE d = c
      BY <1>3, <2>1, <3>1, <3>2
    <3>3. CASE d # c
      BY <1>1, <1>4, <2>1, <3>1, <3>3 DEF OneHost
    <3>4. QED BY <3>2, <3>3
  <2>3. QED BY <2>2 DEF OneHost
<1>10. QED BY <1>7, <1>8, <1>9 DEF RoomInv

\* The alarm rings in a room that no TV hosts.
LEMMA RoomAlarm ==
  ASSUME RoomInv, TypeInv', NEW c \in Code, Alarm(c)
  PROVE  RoomInv'
<1>1. /\ TypeInv /\ TvSide /\ OneHost /\ Rows /\ WireOrder /\ dial \in Dials /\ sock \in Socks
  BY TypeGroups DEF RoomInv
<1>2. /\ \A x \in Sock : ~(sock[x].room = c /\ sock[x].far \in {"new", "in"}) => sock'[x] = sock[x]
      /\ \A x \in Sock : sock[x].room = c /\ sock[x].far \in {"new", "in"} =>
           /\ x[1] = Tv => /\ sock'[x].far = "none" /\ sock'[x].room = c
                           /\ Frames(sock'[x].wire) = {Op("hostgone"), Op("bye")}
           /\ x[1] # Tv /\ sock[x].far = "in" => sock'[x].far = "closing" /\ sock'[x].room = c
           /\ x[1] # Tv /\ sock[x].far = "new" => sock'[x].far = "none"
      /\ dial'[Tv] = dial[Tv]
  BY <1>1, AlarmSock
<1>3. /\ roster' = roster /\ missed' = missed /\ party' = party /\ rival' = rival
      /\ grace' = grace \ {c} /\ Hosts(c) = {}
  BY <1>1 DEF Alarm, tvVars, OneHost
<1>4. \A x \in Sock : x[1] = Tv /\ sock[x].far = "in" => sock[x].room # c
  BY <1>3, Places DEF Hosts
<1>5. \A x \in PhoneSock :
        \/ sock'[x].far = sock[x].far /\ sock'[x].room = sock[x].room
        \/ sock[x].far \in {"none", "new"} /\ sock'[x].far = "none"
        \/ sock[x].far = "in" /\ sock'[x].far = "closing" /\ sock'[x].room = sock[x].room
  BY <1>2, Places
<1>6. \A s \in Slot : sock'[<<Tv, s>>].far # "closing"
  BY <1>1, <1>2, Places DEF TvSide
<1>7. CASE dial[Tv].is = "open" /\ sock[Line(Tv)].room = c /\ sock[Line(Tv)].far = "new"
  <2>1. /\ Line(Tv)' = Line(Tv) /\ Line(Tv) \in Sock /\ Line(Tv)[1] = Tv
        /\ dial' \in Dials
    BY <1>1, <1>2, LiveLine, Places, TypeGroups DEF Line
  <2>2. /\ sock'[Line(Tv)].far = "none" /\ sock'[Line(Tv)].room = c
        /\ Frames(sock'[Line(Tv)].wire) = {Op("hostgone"), Op("bye")}
    BY <1>2, <1>7, <2>1
  <2>3. ~TvLive /\ ~TvLive'
    BY <1>1, <1>7, <2>1, <2>2, TvIsLive
  <2>4. \A x \in PhoneSock, o \in {"joined", "left"} :
          Of(o, x) \notin Frames(sock'[Line(Tv)].wire)
    <3>1. \A x \in PhoneSock, o \in {"joined", "left"} : Of(o, x) # Op("hostgone") /\ Of(o, x) # Op("bye")
      BY FrameNames
    <3>2. QED BY <2>2, <3>1
  <2>5. WireOrder'
    BY <2>1, <2>4, OrderNone DEF WireOrder
  <2>6. TvSide'
    BY <1>1, <1>2, <1>3, <1>6, <1>7, <2>1, <2>2, <2>4, WaitsFrames DEF TvSide
  <2>7. Rows'
    <3>1. ASSUME NEW x \in PhoneSock PROVE Row(x)'
      <4>1. (On("joined", x)' <=> On("joined", x)) /\ (On("left", x)' <=> On("left", x))
        BY <2>3 DEF On
      <4>2. QED BY <1>1, <1>2, <1>3, <1>5, <4>1, RowMove DEF Rows
    <3>2. QED BY <3>1 DEF Rows
  <2>8. OneHost'
    <3>1. \A x \in {Tv} \X Slot : sock'[x].far = "in" => sock[x].far = "in" /\ sock'[x].room = sock[x].room
      BY <1>2, Places
    <3>2. QED BY <1>1, <1>3, <3>1, HostsMove
  <2>9. QED BY <2>5, <2>6, <2>7, <2>8 DEF RoomInv
<1>8. CASE ~(dial[Tv].is = "open" /\ sock[Line(Tv)].room = c /\ sock[Line(Tv)].far = "new")
  <2>1. Line(Tv) \in Sock /\ Line(Tv)[1] = Tv
    BY <1>1, LiveLine, Places
  <2>2. dial[Tv].is = "open" => sock'[Line(Tv)] = sock[Line(Tv)]
    BY <1>2, <1>4, <1>8, <2>1
  <2>3. (\A op, x : On(op, x)' <=> On(op, x)) /\ WireOrder' /\ TvSide'
    BY <1>1, <1>2, <1>3, <1>6, <2>2, TvSame
  <2>4. Rows'
    <3>1. ASSUME NEW x \in PhoneSock PROVE Row(x)'
      BY <1>1, <1>2, <1>3, <1>5, <2>3, RowMove DEF Rows
    <3>2. QED BY <3>1 DEF Rows
  <2>5. OneHost'
    <3>1. \A x \in {Tv} \X Slot : sock'[x].far = "in" => sock[x].far = "in" /\ sock'[x].room = sock[x].room
      BY <1>2, Places
    <3>2. QED BY <1>1, <1>3, <3>1, HostsMove
  <2>6. QED BY <2>3, <2>4, <2>5 DEF RoomInv
<1>9. QED BY <1>7, <1>8

LEMMA RoomStep ==
  ASSUME RoomInv, [Next]_vars
  PROVE  RoomInv'
<1>1. TypeInv'
  BY TypeStep DEF RoomInv
<1>2. CASE UNCHANGED vars
  <2>1. UNCHANGED <<party, roster, dial, sock, grace, rival, missed>>
    BY <1>2 DEF vars, tvVars
  <2>2. QED BY <1>1, <2>1, RoomSame
<1>3. CASE EnterMultiplayer \/ LeaveMultiplayer \/ Back \/ Reload \/ MintFails \/ NextRound \/ TvReads
  BY <1>1, <1>3, RoomCalm, RoomTvGone, RoomRead
<1>4. CASE \E c \in Code : ClaimMint(c) \/ ConnectHost(c) \/ Alarm(c) \/ RivalHosts(c) \/ RivalLeaves(c)
  BY <1>1, <1>4, RoomCalm, RoomTvGone, RoomAlarm
<1>5. CASE Closed
  BY <1>1, <1>5, RoomTvGone DEF Closed
<1>6. ASSUME NEW w \in Screen, Cut(w) \/ \E s \in Slot : Dial(w, s) PROVE RoomInv'
  <2>1. CASE w = Tv /\ Cut(w)
    BY <1>1, <2>1, RoomTvGone DEF Cut
  <2>2. CASE w # Tv /\ Cut(w)
    <3>1. w \in Phone
      BY <2>2 DEF Screen
    <3>2. QED BY <1>1, <2>2, <3>1, RoomPhoneGone
  <2>3. CASE \E s \in Slot : Dial(w, s)
    BY <1>1, <2>3, RoomDial
  <2>4. QED BY <1>6, <2>1, <2>2, <2>3
<1>7. ASSUME NEW x \in Sock, HelloHost(x) \/ HelloPhone(x) \/ WebSocketClose(x) PROVE RoomInv'
  BY <1>1, <1>7, RoomHelloHost, RoomHelloPhone, RoomPhoneGone, RoomClosePhone, RoomCloseTv
<1>8. CASE \E p \in Phone : DoJoin(p) \/ Looked(p) \/ ClosePage(p)
  BY <1>1, <1>8, RoomCalm, RoomPhoneGone
<1>9. QED BY <1>2, <1>3, <1>4, <1>5, <1>6, <1>7, <1>8 DEF Next

LEMMA RoomInvariant == Spec => []RoomInv
BY RoomInit, RoomStep, PTL DEF Spec

\* The TV's list of connected phones and the relay's room are the same phones,
\* but for frames on their way, sockets whose end the relay has not noticed, and
\* what came or went while no page of the TV could hear of it.
THEOREM RosterFollowsRoom == Spec => []RosterIsRoom
<1>1. RoomInv => RosterIsRoom
  <2> SUFFICES ASSUME RoomInv PROVE RosterIsRoom
    OBVIOUS
  <2>1. TypeInv /\ TvSide /\ Rows /\ dial \in Dials /\ roster \subseteq PhoneSock
    BY TypeGroups DEF RoomInv
  <2>2. ASSUME NEW x \in roster
        PROVE  \/ x \in InRoom(dial[Tv].room) \/ sock[x].far = "closing"
               \/ (TvLive /\ Waits("left", x)) \/ x \in missed
    BY <2>1, <2>2 DEF Rows, Row, On, InRoom
  <2>3. ASSUME TvLive, NEW x \in InRoom(sock[Line(Tv)].room)
        PROVE  x \in roster \/ Waits("joined", x) \/ x \in missed
    BY <2>1, <2>3 DEF Rows, Row, On, InRoom
  <2>4. QED BY <2>2, <2>3 DEF RosterIsRoom
<1>2. QED BY <1>1, RoomInvariant, PTL

-----------------------------------------------------------------------------
(* What the phones show.  A phone in the TV's room is brought up to date by  *)
(* the push that follows the welcome or its own joined frame, and every      *)
(* later step of the game is pushed to it.                                   *)

Greeted == \E i \in 1..Len(sock[Line(Tv)].wire) : sock[Line(Tv)].wire[i] = Op("welcome")

LEMMA GreetedFrames ==
  /\ Greeted <=> Op("welcome") \in Frames(sock[Line(Tv)].wire)
  /\ Greeted' <=> Op("welcome") \in Frames(sock'[Line(Tv)'].wire)
BY DEF Greeted, Frames

LEMMA HearsIs ==
  /\ dial \in Dials => \A p \in Phone :
       Hears(p) <=> /\ dial[p].is = "open" /\ sock[Line(p)].far = "in"
                    /\ sock[Line(p)].room = sock[Line(Tv)].room
  /\ dial' \in Dials => \A p \in Phone :
       Hears(p)' <=> /\ dial'[p].is = "open" /\ sock'[Line(p)'].far = "in"
                     /\ sock'[Line(p)'].room = sock'[Line(Tv)'].room
BY Places DEF Hears, Live, Line, Dials

\* A step that tells the TV no more than it knew and leaves what is heard alone.
LEMMA SeesSame ==
  ASSUME PhoneSeesGame, TvLive' => TvLive, TvLive /\ Greeted => Greeted',
         \A x \in PhoneSock : TvLive /\ Waits("joined", x) => Waits("joined", x)',
         \A p \in Phone : TvLive /\ TvLive' /\ Hears(p)' =>
           /\ Hears(p) /\ Line(p) \in PhoneSock /\ Line(p)' = Line(p)
           /\ phone'[p].seen = phone[p].seen
  PROVE  PhoneSeesGame'
<1> SUFFICES ASSUME TvLive', ~Greeted', NEW p \in Phone, Hears(p)'
             PROVE  phone'[p].seen = "now" \/ Waits("joined", Line(p))'
  BY DEF PhoneSeesGame, Greeted
<1>1. TvLive /\ ~Greeted
  OBVIOUS
<1>2. phone[p].seen = "now" \/ Waits("joined", Line(p))
  BY <1>1 DEF PhoneSeesGame, Greeted
<1>3. Waits("joined", Line(p)) => Waits("joined", Line(p))'
  <2>1. Line(p)' = Line(p) /\ Line(p) \in PhoneSock
    BY <1>1
  <2>2. Waits("joined", Line(p)) => Of("joined", Line(p)) \in Frames(sock'[Line(Tv)'].wire)
    BY <1>1, <2>1, WaitsFrames
  <2>3. QED BY <2>1, <2>2, WaitsFrames
<1>4. QED BY <1>1, <1>2, <1>3

LEMMA SeesNothing ==
  ASSUME ~TvLive' \/ Greeted'
  PROVE  PhoneSeesGame'
BY DEF PhoneSeesGame, Greeted

\* A step that pushes the game of now.
LEMMA SeesPush ==
  ASSUME RoomInv, TypeInv', NextRound \/ TvWelcomed \/ TvRoster
  PROVE  PhoneSeesGame'
<1>1. /\ TypeInv /\ TvSide /\ dial \in Dials /\ sock \in Socks /\ phone \in Phones /\ dial' \in Dials
  BY TypeGroups DEF RoomInv
<1>2. dial' = dial /\ \A x \in Sock : sock'[x].far = sock[x].far /\ sock'[x].room = sock[x].room
  <2>1. CASE NextRound
    <3>1. UNCHANGED <<tvVars, dial, sock, grace, rival, faults, missed>>
      BY <2>1 DEF NextRound
    <3>2. QED BY <3>1
  <2>2. CASE TvWelcomed \/ TvRoster
    <3>1. TvReads
      BY <2>2 DEF TvReads
    <3>2. QED BY <3>1, WaitsRead
  <2>3. QED BY <2>1, <2>2
<1>3. \A w \in Screen : Line(w)' = Line(w) /\ Line(w) \in Sock
  BY <1>1, <1>2, LiveLine DEF Line
<1>4. PICK was \in Phones : PushState(was)
  <2>1. CASE TvWelcomed \/ TvRoster
    BY <1>1, <2>1 DEF TvWelcomed, TvRoster
  <2>2. CASE NextRound
    <3> DEFINE was == [p \in Phone |-> [phone[p] EXCEPT !.seen = IF @ = "now" THEN "old" ELSE @]]
    <3>1. was \in Phones
      BY <1>1 DEF Phones
    <3>2. PushState(was)
      BY <2>2 DEF NextRound
    <3> HIDE DEF was
    <3>3. QED BY <3>1, <3>2
  <2>3. QED BY <2>1, <2>2
<1>5. TvLive' <=> TvLive
  BY <1>1, <1>2, <1>3, TvIsLive, Places
<1>6. SUFFICES ASSUME TvLive', NEW p \in Phone, Hears(p)'
               PROVE  phone'[p].seen = "now"
  BY DEF PhoneSeesGame
<1>7. Hears(p)
  BY <1>1, <1>2, <1>3, <1>6, HearsIs, Places
<1>8. phone' = Shown(was)
  <2>1. party
    BY <1>1, <1>5, <1>6, TvIsLive DEF TvSide
  <2>2. QED BY <1>4, <1>5, <1>6, <2>1 DEF PushState, TvLive
<1>9. phone'[p] = [was[p] EXCEPT !.seen = "now"]
  BY <1>7, <1>8 DEF Shown
<1>10. QED BY <1>4, <1>9 DEF Phones

\* A step after which a phone that is in a room was there before it.
LEMMA SeesStill ==
  ASSUME RoomInv, TypeInv', PhoneSeesGame, dial'[Tv] = dial[Tv],
         dial[Tv].is = "open" =>
           /\ sock'[Line(Tv)].far = sock[Line(Tv)].far /\ sock'[Line(Tv)].room = sock[Line(Tv)].room
           /\ \A f \in Frames(sock[Line(Tv)].wire) :
                f.op \in {"welcome", "joined"} => f \in Frames(sock'[Line(Tv)].wire),
         \A p \in Phone : dial'[p].is = "open" /\ sock'[Line(p)'].far = "in" =>
           /\ dial'[p] = dial[p] /\ sock[Line(p)].far = "in"
           /\ sock[Line(p)].room = sock'[Line(p)].room /\ phone'[p].seen = phone[p].seen
  PROVE  PhoneSeesGame'
<1>1. dial \in Dials /\ dial' \in Dials /\ Line(Tv)' = Line(Tv)
  BY TypeGroups DEF RoomInv, Line
<1>2. TvLive' <=> TvLive
  BY <1>1, TvIsLive
<1>3. TvLive => dial[Tv].is = "open"
  BY <1>1, TvIsLive
<1>4. TvLive /\ Greeted => Greeted'
  <2>1. Op("welcome").op = "welcome"
    BY FrameNames
  <2>2. QED BY <1>1, <1>3, <2>1, GreetedFrames
<1>5. \A x \in PhoneSock : TvLive /\ Waits("joined", x) => Waits("joined", x)'
  <2>1. \A x \in PhoneSock : Of("joined", x).op = "joined"
    BY FrameNames
  <2>2. QED BY <1>1, <1>3, <2>1, WaitsFrames
<1>6. ASSUME NEW p \in Phone, TvLive, Hears(p)'
      PROVE  /\ Hears(p) /\ Line(p) \in PhoneSock /\ Line(p)' = Line(p)
             /\ phone'[p].seen = phone[p].seen
  <2>1. dial'[p].is = "open" /\ sock'[Line(p)'].far = "in" /\ sock'[Line(p)'].room = sock'[Line(Tv)].room
    BY <1>1, <1>6, HearsIs
  <2>2. /\ dial'[p] = dial[p] /\ sock[Line(p)].far = "in"
        /\ sock[Line(p)].room = sock'[Line(p)].room /\ phone'[p].seen = phone[p].seen
    BY <2>1
  <2>3. Line(p)' = Line(p)
    BY <2>2 DEF Line
  <2>4. QED BY <1>1, <1>3, <1>6, <2>1, <2>2, <2>3, HearsIs, LiveLine
<1>7. QED BY <1>2, <1>4, <1>5, <1>6, SeesSame

LEMMA SeesCalm ==
  ASSUME RoomInv, TypeInv', PhoneSeesGame,
         \/ EnterMultiplayer \/ MintFails \/ TvHostgone \/ TvRefused \/ UNCHANGED vars
         \/ \E c \in Code : ClaimMint(c) \/ RivalHosts(c) \/ RivalLeaves(c) \/ (ConnectHost(c) /\ ~party)
  PROVE  PhoneSeesGame'
<1>1. dial' = dial /\ phone' = phone /\ dial \in Dials
  <2>1. CASE UNCHANGED vars
    BY <2>1, TypeGroups DEF vars, RoomInv
  <2>2. CASE ~UNCHANGED vars
    BY <2>2, TypeGroups DEF EnterMultiplayer, MintFails, ClaimMint, ConnectHost, RivalHosts, RivalLeaves,
       TvHostgone, TvRefused, RoomInv
  <2>3. QED BY <2>1, <2>2
<1>2. \A w \in Screen : Line(w)' = Line(w) /\ Line(w) \in Sock
  BY <1>1, LiveLine DEF Line
<1>3. CASE TvHostgone \/ TvRefused
  <2>1. TvReads /\ sock[Line(Tv)].wire # <<>> /\ Head(sock[Line(Tv)].wire).op \in {"hostgone", "err"}
    BY <1>3 DEF TvReads, TvHostgone, TvRefused, TvHears
  <2>2. \A x \in Sock : sock'[x].far = sock[x].far /\ sock'[x].room = sock[x].room
    BY <2>1, WaitsRead
  <2>3. /\ sock'[Line(Tv)].wire = Tail(sock[Line(Tv)].wire)
        /\ Frames(sock[Line(Tv)].wire) = {Head(sock[Line(Tv)].wire)} \cup Frames(Tail(sock[Line(Tv)].wire))
    <3>1. dial \in Dials /\ sock \in Socks /\ sock' = Read(Tv)
      BY <1>3, TypeGroups DEF TvHostgone, TvRefused, RoomInv
    <3>2. QED BY <2>1, <3>1, ReadSock
  <2>4. \A f \in Frames(sock[Line(Tv)].wire) :
          f.op \in {"welcome", "joined"} => f \in Frames(sock'[Line(Tv)].wire)
    BY <2>1, <2>3
  <2>5. QED BY <1>1, <1>2, <2>2, <2>4, SeesStill, Places
<1>4. CASE ~(TvHostgone \/ TvRefused)
  <2>1. sock' = sock
    <3>1. CASE UNCHANGED vars
      BY <3>1 DEF vars
    <3>2. CASE ~UNCHANGED vars
      BY <1>4, <3>2 DEF EnterMultiplayer, MintFails, ClaimMint, ConnectHost, RivalHosts, RivalLeaves
    <3>3. QED BY <3>1, <3>2
  <2>2. QED BY <1>1, <1>2, <2>1, SeesStill, Places
<1>5. QED BY <1>3, <1>4

\* A phone's page hangs up, asks or dials: its socket is in no room.
LEMMA SeesPhonePage ==
  ASSUME RoomInv, TypeInv', PhoneSeesGame, NEW p \in Phone,
         \/ DoJoin(p) \/ Looked(p) \/ ClosePage(p) \/ Cut(p)
         \/ \E s \in Slot : Dial(p, s)
         \/ \E x \in Sock : x[1] = p /\ HelloPhone(x) /\ Empty(sock[x].room)
  PROVE  PhoneSeesGame'
<1>1. /\ dial \in Dials /\ sock \in Socks /\ dial' \in Dials /\ phone \in Phones
      /\ p \in Screen /\ p # Tv
  BY TypeGroups, Places, SessionAssumption DEF RoomInv
<1>2. /\ \A v \in Screen : v # p => dial'[v] = dial[v]
      /\ \A x \in Sock : x[1] # p => sock'[x] = sock[x]
      /\ dial'[p].is = "open" => sock'[Line(p)'].far = "new" \/ (dial'[p] = dial[p] /\ sock' = sock)
      /\ \A q \in Phone : phone'[q].seen = phone[q].seen \/ q = p
      /\ dial'[p].is = "open" => phone'[p].seen = phone[p].seen
  <2>1. CASE DoJoin(p)
    BY <1>1, <2>1, LetSock DEF DoJoin, Drop, Dials, Phones
  <2>2. CASE Looked(p)
    <3>1. sock' = sock /\ (dial' = dial \/ dial' = [dial EXCEPT ![p].is = "wait"])
      BY <2>2 DEF Looked
    <3>2. \A q \in Phone : phone'[q].seen = phone[q].seen
      BY <1>1, <2>2 DEF Looked, Phones
    <3>3. QED BY <1>1, <3>1, <3>2 DEF Dials
  <2>3. CASE ClosePage(p) \/ Cut(p)
    <3>1. sock' = Let(sock, p) /\ (dial' = Down(p, "off") \/ dial' = Down(p, "wait"))
      BY <2>3 DEF ClosePage, Cut, OnClose, Hangs, Drop
    <3>2. \A q \in Phone : phone'[q].seen = phone[q].seen \/ q = p
      BY <1>1, <2>3 DEF ClosePage, Cut, OnClose, Phones
    <3>3. QED BY <1>1, <3>1, <3>2, LetSock, DownDial
  <2>4. ASSUME NEW x \in Sock, x[1] = p, HelloPhone(x), Empty(sock[x].room)
        PROVE  /\ sock' = Let(sock, p) /\ dial' = Down(p, "wait")
               /\ \A q \in Phone : phone'[q].seen = phone[q].seen
    BY <1>1, <2>4 DEF HelloPhone, Refuse, Drop, Turned, Phones
  <2>5. CASE \E x \in Sock : x[1] = p /\ HelloPhone(x) /\ Empty(sock[x].room)
    BY <1>1, <2>4, <2>5, LetSock, DownDial
  <2>6. ASSUME NEW s \in Slot, Dial(p, s)
        PROVE  /\ \A v \in Screen : v # p => dial'[v] = dial[v]
               /\ \A x \in Sock : x[1] # p => sock'[x] = sock[x]
               /\ sock'[Line(p)'].far = "new" /\ phone' = phone
    <3> DEFINE r == [Free EXCEPT !.far = "new", !.room = dial[p].room]
    <3>1. dial' = Opened(p, s) /\ sock' = [sock EXCEPT ![<<p, s>>] = r] /\ phone' = phone
      BY <2>6 DEF Dial, Opened
    <3>2. r.far = "new" /\ <<p, s>> \in Sock /\ <<p, s>>[1] = p
      BY <1>1, FreeSock DEF Free, Sock
    <3> HIDE DEF r
    <3>3. Line(p)' = <<p, s>>
      BY <1>1, <3>1, OpenDial DEF Line
    <3>4. sock'[<<p, s>>] = r /\ \A x \in Sock : x # <<p, s>> => sock'[x] = sock[x]
      BY <1>1, <3>1, <3>2 DEF Socks
    <3>5. QED BY <1>1, <3>1, <3>2, <3>3, <3>4, OpenDial
  <2>7. CASE \E s \in Slot : Dial(p, s)
    BY <2>6, <2>7
  <2>8. QED BY <2>1, <2>2, <2>3, <2>5, <2>7
<1>3. Line(Tv) \in Sock /\ Line(Tv)[1] = Tv /\ \A q \in Phone : q \in Screen /\ Line(q) \in Sock /\ Line(q)[1] = q
  BY <1>1, LiveLine, Places
<1>4. dial'[Tv] = dial[Tv] /\ sock'[Line(Tv)] = sock[Line(Tv)]
  BY <1>1, <1>2, <1>3, Places
<1>5. ASSUME NEW q \in Phone, dial'[q].is = "open", sock'[Line(q)'].far = "in"
      PROVE  /\ dial'[q] = dial[q] /\ sock[Line(q)].far = "in"
             /\ sock[Line(q)].room = sock'[Line(q)].room /\ phone'[q].seen = phone[q].seen
  <2>1. CASE q = p
    <3>1. dial'[p] = dial[p] /\ sock' = sock /\ phone'[p].seen = phone[p].seen
      BY <1>2, <1>5, <2>1
    <3>2. Line(q)' = Line(q)
      BY <2>1, <3>1 DEF Line
    <3>3. QED BY <1>5, <2>1, <3>1, <3>2
  <2>2. CASE q # p
    <3>1. dial'[q] = dial[q] /\ sock'[Line(q)] = sock[Line(q)] /\ phone'[q].seen = phone[q].seen
      BY <1>2, <1>3, <2>2
    <3>2. Line(q)' = Line(q)
      BY <3>1 DEF Line
    <3>3. QED BY <1>5, <3>1, <3>2
  <2>3. QED BY <2>1, <2>2
<1>6. QED BY <1>4, <1>5, SeesStill

\* The TV's page has no socket in a room, or a welcome is on its way to it.
LEMMA SeesTv ==
  ASSUME RoomInv, TypeInv',
         \/ LeaveMultiplayer \/ Back \/ Reload \/ OnClose(Tv)
         \/ \E c \in Code : ConnectHost(c) /\ party
         \/ \E s \in Slot : Dial(Tv, s)
         \/ \E x \in Sock : HelloHost(x)
  PROVE  PhoneSeesGame'
<1>1. TypeInv /\ dial \in Dials /\ dial' \in Dials /\ sock \in Socks /\ Tv \in Screen
  BY TypeGroups, Places DEF RoomInv
<1>2. CASE LeaveMultiplayer \/ Back \/ Reload \/ OnClose(Tv) \/ \E c \in Code : ConnectHost(c) /\ party
  <2>1. CASE LeaveMultiplayer \/ Back \/ Reload \/ OnClose(Tv)
    BY <1>1, <2>1, DownDial, TvIsLive, SeesNothing
       DEF LeaveMultiplayer, Back, Reload, OnClose, CloseTvLink, Hangs
  <2>2. CASE \E c \in Code : ConnectHost(c) /\ party
    <3>1. dial'[Tv].is = "wait"
      BY <1>1, <2>2 DEF ConnectHost, Dials
    <3>2. QED BY <1>1, <3>1, TvIsLive, SeesNothing
  <2>3. QED BY <1>2, <2>1, <2>2
<1>3. ASSUME NEW s \in Slot, Dial(Tv, s) PROVE PhoneSeesGame'
  <2> DEFINE r == [Free EXCEPT !.far = "new", !.room = dial[Tv].room]
  <2>1. dial' = Opened(Tv, s) /\ sock' = [sock EXCEPT ![<<Tv, s>>] = r]
    BY <1>3 DEF Dial, Opened
  <2>2. r.far = "new" /\ <<Tv, s>> \in Sock
    BY <1>1, FreeSock DEF Free, Sock
  <2> HIDE DEF r
  <2>3. Line(Tv)' = <<Tv, s>>
    BY <1>1, <2>1, OpenDial DEF Line
  <2>4. sock'[<<Tv, s>>].far = "new"
    BY <1>1, <2>1, <2>2 DEF Socks
  <2>5. QED BY <1>1, <2>3, <2>4, TvIsLive, SeesNothing
<1>4. ASSUME NEW x \in Sock, HelloHost(x) PROVE PhoneSeesGame'
  <2>1. dial' = dial
    BY <1>4 DEF HelloHost
  <2>2. /\ Line(Tv)' = x
        /\ sock'[x].far = "none" \/ Op("welcome") \in Frames(sock'[x].wire)
    BY <1>1, <1>4, <2>1, HelloHostSock DEF Line
  <2>3. QED BY <1>1, <2>2, TvIsLive, GreetedFrames, SeesNothing
<1>5. QED BY <1>2, <1>3, <1>4

\* A phone is let in: the TV is told, or it is not the TV's room.
LEMMA SeesHello ==
  ASSUME RoomInv, TypeInv', PhoneSeesGame, NEW x \in Sock, HelloPhone(x), ~Empty(sock[x].room)
  PROVE  PhoneSeesGame'
<1> DEFINE c == sock[x].room
<1>1. /\ TypeInv /\ TvSide /\ dial \in Dials /\ sock \in Socks /\ phone \in Phones /\ dial' = dial
      /\ Live(x) /\ sock[x].far = "new"
  BY TypeGroups DEF RoomInv, HelloPhone
<1>2. /\ x \in PhoneSock /\ sock'[x].far = "in" /\ sock'[x].room = c
      /\ \A y \in Sock : sock'[y].room = sock[y].room /\ (y # x => sock'[y].far = sock[y].far)
      /\ \A y \in Hosts(c) : Live(y) =>
           Frames(sock'[y].wire) = Frames(sock[y].wire) \cup {Of("joined", x)}
      /\ \A y \in Sock : ~(y \in Hosts(c) /\ Live(y)) => sock'[y].wire = sock[y].wire
  BY <1>1, HelloPhoneSock
<1> HIDE DEF c
<1>3. /\ \A w \in Screen : Line(w)' = Line(w) /\ Line(w) \in Sock
      /\ Line(Tv) # x /\ Line(Tv) \in {Tv} \X Slot
      /\ \A p \in Phone : Line(p) = x => p = x[1]
      /\ Line(x[1]) = x /\ \A p \in Phone : Line(p) \in PhoneSock
  BY <1>1, <1>2, LiveLine, Places DEF Line, Sock
<1>4. \A p \in Phone : phone'[p].seen = phone[p].seen
  BY <1>1 DEF HelloPhone, Phones
<1>5. TvLive' <=> TvLive
  BY <1>1, <1>2, <1>3, TvIsLive, Places
<1>6. TvLive => Live(Line(Tv)) /\ (sock[Line(Tv)].room = c => Line(Tv) \in Hosts(c))
  BY <1>3 DEF TvLive, Hosts
<1>7. Frames(sock[Line(Tv)].wire) \subseteq Frames(sock'[Line(Tv)].wire)
  BY <1>2, <1>3, Places
<1>8. SUFFICES ASSUME TvLive', ~Greeted', NEW p \in Phone, Hears(p)'
               PROVE  phone'[p].seen = "now" \/ Waits("joined", Line(p))'
  BY DEF PhoneSeesGame, Greeted
<1>9. Waits("joined", Line(p))' <=> Of("joined", Line(p)) \in Frames(sock'[Line(Tv)].wire)
  BY <1>3, Places DEF Waits, Frames
<1>10. CASE Line(p) = x
  <2>1. sock'[Line(Tv)].room = c
    BY <1>1, <1>2, <1>3, <1>8, <1>10, HearsIs, Places
  <2>2. Line(Tv) \in Hosts(c) /\ Live(Line(Tv))
    BY <1>2, <1>3, <1>5, <1>6, <1>8, <2>1, Places
  <2>3. QED BY <1>2, <1>9, <1>10, <2>2
<1>11. CASE Line(p) # x
  <2>1. Hears(p)
    BY <1>1, <1>2, <1>3, <1>8, <1>11, HearsIs, Places
  <2>2. ~Greeted
    BY <1>3, <1>7, <1>8, GreetedFrames, Places
  <2>3. phone[p].seen = "now" \/ Waits("joined", Line(p))
    BY <1>5, <1>8, <2>1, <2>2 DEF PhoneSeesGame, Greeted
  <2>4. QED BY <1>4, <1>7, <1>9, <2>3, WaitsFrames
<1>12. QED BY <1>10, <1>11

\* A socket's end: nobody else's.
LEMMA SeesClose ==
  ASSUME RoomInv, TypeInv', PhoneSeesGame, NEW x \in Sock, WebSocketClose(x)
  PROVE  PhoneSeesGame'
<1> DEFINE c == sock[x].room
<1>1. /\ TypeInv /\ TvSide /\ dial \in Dials /\ sock \in Socks /\ dial' = dial /\ phone' = phone
      /\ sock[x].far = "closing" \/ ~Live(x)
  BY TypeGroups DEF RoomInv, WebSocketClose
<1>2. /\ sock'[x].far = "none"
      /\ \A y \in Sock : y # x => sock'[y].room = sock[y].room /\ sock'[y].far = sock[y].far
      /\ x \in PhoneSock => \A y \in Hosts(c) : Live(y) =>
           Frames(sock'[y].wire) = Frames(sock[y].wire) \cup {Of("left", x)}
      /\ \A y \in Sock : y # x /\ ~(x \in PhoneSock /\ y \in Hosts(c) /\ Live(y)) =>
           sock'[y].wire = sock[y].wire
  BY <1>1, CloseSock
<1> HIDE DEF c
<1>3. /\ \A w \in Screen : Line(w)' = Line(w) /\ Line(w) \in Sock
      /\ dial[Tv].is = "open" => Line(Tv) # x
  <2>1. \A w \in Screen : Line(w)' = Line(w) /\ Line(w) \in Sock
    BY <1>1, LiveLine DEF Line
  <2>2. ASSUME dial[Tv].is = "open", Line(Tv) = x PROVE FALSE
    <3>1. Live(x)
      BY <1>1, <2>2, LiveLine, Places
    <3>2. sock[x].far # "closing"
      BY <1>1, <2>2, Places DEF TvSide, Line, Dials
    <3>3. QED BY <1>1, <3>1, <3>2
  <2>3. QED BY <2>1, <2>2
<1>4. dial[Tv].is = "open" =>
        Frames(sock[Line(Tv)].wire) \subseteq Frames(sock'[Line(Tv)].wire)
  BY <1>2, <1>3, Places
<1>5. ASSUME NEW p \in Phone, sock'[Line(p)'].far = "in"
      PROVE  sock[Line(p)].far = "in" /\ sock[Line(p)].room = sock'[Line(p)].room
  BY <1>2, <1>3, <1>5, Places
<1>6. /\ dial'[Tv] = dial[Tv]
      /\ dial[Tv].is = "open" =>
           /\ sock'[Line(Tv)].far = sock[Line(Tv)].far /\ sock'[Line(Tv)].room = sock[Line(Tv)].room
           /\ \A f \in Frames(sock[Line(Tv)].wire) :
                f.op \in {"welcome", "joined"} => f \in Frames(sock'[Line(Tv)].wire)
  BY <1>1, <1>2, <1>3, <1>4, Places
<1>7. \A p \in Phone : dial'[p].is = "open" /\ sock'[Line(p)'].far = "in" =>
           /\ dial'[p] = dial[p] /\ sock[Line(p)].far = "in"
           /\ sock[Line(p)].room = sock'[Line(p)].room /\ phone'[p].seen = phone[p].seen
  BY <1>1, <1>3, <1>5, Places
<1>8. QED BY <1>6, <1>7, SeesStill

LEMMA SeesAlarm ==
  ASSUME RoomInv, TypeInv', PhoneSeesGame, NEW c \in Code, Alarm(c)
  PROVE  PhoneSeesGame'
<1>1. /\ TypeInv /\ TvSide /\ OneHost /\ dial \in Dials /\ sock \in Socks /\ dial' \in Dials
  BY TypeGroups DEF RoomInv
<1>2. /\ \A x \in Sock : ~(sock[x].room = c /\ sock[x].far \in {"new", "in"}) => sock'[x] = sock[x]
      /\ \A x \in Sock : sock[x].room = c /\ sock[x].far \in {"new", "in"} /\ x[1] = Tv =>
           sock'[x].far = "none"
      /\ dial'[Tv] = dial[Tv]
      /\ \A p \in Phone :
           IF Live(Line(p)) /\ sock[Line(p)].room = c /\ sock[Line(p)].far \in {"new", "in"}
           THEN dial'[p].is = "wait"
           ELSE dial'[p] = dial[p] /\ phone'[p] = phone[p]
  BY <1>1, AlarmSock
<1>3. /\ Line(Tv)' = Line(Tv) /\ Line(Tv) \in Sock /\ Line(Tv)[1] = Tv
      /\ \A p \in Phone : Line(p) \in Sock /\ (Live(Line(p)) <=> dial[p].is = "open")
  BY <1>1, <1>2, LiveLine, Places DEF Line
<1>4. CASE sock[Line(Tv)].room = c /\ sock[Line(Tv)].far \in {"new", "in"}
  <2>1. sock'[Line(Tv)].far = "none"
    BY <1>2, <1>3, <1>4
  <2>2. QED BY <1>1, <1>3, <2>1, TvIsLive, SeesNothing
<1>5. CASE ~(sock[Line(Tv)].room = c /\ sock[Line(Tv)].far \in {"new", "in"})
  <2>1. sock'[Line(Tv)] = sock[Line(Tv)]
    BY <1>2, <1>3, <1>5
  <2>2. ASSUME NEW p \in Phone, dial'[p].is = "open", sock'[Line(p)'].far = "in"
        PROVE  /\ dial'[p] = dial[p] /\ sock[Line(p)].far = "in"
               /\ sock[Line(p)].room = sock'[Line(p)].room /\ phone'[p].seen = phone[p].seen
    <3>1. ~(Live(Line(p)) /\ sock[Line(p)].room = c /\ sock[Line(p)].far \in {"new", "in"})
      BY <1>2, <2>2
    <3>2. dial'[p] = dial[p] /\ phone'[p] = phone[p]
      BY <1>2, <3>1
    <3>3. sock'[Line(p)] = sock[Line(p)] /\ Line(p)' = Line(p)
      BY <1>2, <1>3, <2>2, <3>1, <3>2 DEF Line
    <3>4. QED BY <2>2, <3>2, <3>3
  <2>3. QED BY <1>2, <2>1, <2>2, SeesStill
<1>6. QED BY <1>4, <1>5

LEMMA SeesStep ==
  ASSUME RoomInv, PhoneSeesGame, [Next]_vars
  PROVE  PhoneSeesGame'
<1>1. TypeInv'
  BY TypeStep DEF RoomInv
<1>2. CASE UNCHANGED vars
  BY <1>1, <1>2, SeesCalm
<1>3. CASE EnterMultiplayer \/ LeaveMultiplayer \/ Back \/ Reload \/ MintFails \/ NextRound
  BY <1>1, <1>3, SeesCalm, SeesTv, SeesPush
<1>4. CASE TvReads
  BY <1>1, <1>4, SeesCalm, SeesPush DEF TvReads
<1>5. ASSUME NEW c \in Code, ClaimMint(c) \/ ConnectHost(c) \/ Alarm(c) \/ RivalHosts(c) \/ RivalLeaves(c)
      PROVE  PhoneSeesGame'
  BY <1>1, <1>5, SeesCalm, SeesTv, SeesAlarm
<1>6. CASE Closed
  BY <1>1, <1>6, SeesTv DEF Closed
<1>7. ASSUME NEW w \in Screen, Cut(w) \/ \E s \in Slot : Dial(w, s) PROVE PhoneSeesGame'
  <2>1. CASE w = Tv
    BY <1>1, <1>7, <2>1, SeesTv DEF Cut
  <2>2. CASE w # Tv
    <3>1. w \in Phone
      BY <2>2 DEF Screen
    <3>2. QED BY <1>1, <1>7, <3>1, SeesPhonePage
  <2>3. QED BY <2>1, <2>2
<1>8. ASSUME NEW x \in Sock, HelloHost(x) \/ HelloPhone(x) \/ WebSocketClose(x) PROVE PhoneSeesGame'
  <2>1. CASE HelloPhone(x) /\ Empty(sock[x].room)
    <3>1. x[1] \in Phone
      BY <2>1, Places DEF HelloPhone
    <3>2. QED BY <1>1, <2>1, <3>1, SeesPhonePage
  <2>2. CASE ~(HelloPhone(x) /\ Empty(sock[x].room))
    BY <1>1, <1>8, <2>2, SeesTv, SeesHello, SeesClose
  <2>3. QED BY <2>1, <2>2
<1>9. CASE \E p \in Phone : DoJoin(p) \/ Looked(p) \/ ClosePage(p)
  BY <1>1, <1>9, SeesPhonePage
<1>10. QED BY <1>2, <1>3, <1>4, <1>5, <1>6, <1>7, <1>8, <1>9 DEF Next

\* Between two frames of the relay, every phone that is in the room of the TV
\* shows the game of now, or the frame that will push it is on its way.
THEOREM PhonesKeepUp == Spec => []PhoneSeesGame
<1>1. Init => PhoneSeesGame
  <2> SUFFICES ASSUME Init PROVE ~TvLive
    BY DEF PhoneSeesGame
  <2>1. dial \in Dials /\ dial[Tv].is = "off"
    BY TypeInit, TypeGroups, Places DEF Init
  <2>2. QED BY <2>1, TvIsLive
<1>2. RoomInv /\ PhoneSeesGame /\ [Next]_vars => PhoneSeesGame'
  BY SeesStep
<1>3. QED BY <1>1, <1>2, RoomInvariant, PTL DEF Spec

=============================================================================
