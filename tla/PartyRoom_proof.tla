-------------------------- MODULE PartyRoom_proof --------------------------
(***************************************************************************)
(* Proofs about PartyRoom, for any number of sockets and any caps.         *)
(***************************************************************************)
EXTENDS PartyRoom, FiniteSetTheorems, TLAPS

LEMMA TypeInit == Init => TypeOK
BY DEF Init, TypeOK, Link

LEMMA TypeStep ==
  ASSUME TypeOK, [Next]_vars
  PROVE  TypeOK'
<1>1. CASE UNCHANGED vars
  BY <1>1 DEF vars, timers, TypeOK
<1>2. ASSUME NEW c \in Link, Accept(c) \/ HelloTimeout(c) \/ Breaks(c)
      PROVE  TypeOK'
  BY <1>2 DEF Accept, HelloTimeout, Breaks, Close, timers, TypeOK
<1>3. ASSUME NEW c \in Link, CloseEvent(c)
      PROVE  TypeOK'
  BY <1>3 DEF CloseEvent, Gone, TypeOK
<1>4. ASSUME NEW t \in Tv, HelloHost(t)
      PROVE  TypeOK'
  BY <1>4 DEF HelloHost, Close, timers, TypeOK, Link
<1>5. ASSUME NEW p \in Phone, NEW asked \in {"player", "audience"}, HelloPhone(p, asked)
      PROVE  TypeOK'
  <2>1. Demoted(asked) \in {"player", "audience"}
    BY DEF Demoted
  <2>2. QED BY <1>5, <2>1 DEF HelloPhone, Close, TypeOK, Link
<1>6. ASSUME NEW p \in Phone, Act(p)
      PROVE  TypeOK'
  BY <1>6 DEF Act, timers, TypeOK
<1>7. CASE Alarm
  BY <1>7 DEF Alarm, TypeOK
<1>8. CASE Restart
  BY <1>8 DEF Restart, TypeOK
<1>9. QED
  BY <1>1, <1>2, <1>3, <1>4, <1>5, <1>6, <1>7, <1>8 DEF Next

\* Every reachable state is well typed.
THEOREM TypeCorrect == Spec => []TypeOK
BY TypeInit, TypeStep, PTL DEF Spec

-----------------------------------------------------------------------------
(* Who is let in, and the grace period. *)

\* A socket is let in once, as what it said hello as; one TV at a time; the
\* stored grace period and its alarm come and go together.
Admitted ==
  /\ \A c \in Link : socket[c] = "none" => att[c] = "new"
  /\ \A c \in Link : att[c] = "host" => c \in Tv
  /\ \A c \in Link : att[c] \in {"player", "audience"} => c \in Phone
  /\ \A t, u \in Open("host") : t = u
  /\ grace <=> alarm

RoomInv == TypeOK /\ Admitted /\ GraceIsWhole /\ GraceCoversPhones

LEMMA RoomInit == Init => RoomInv
BY TypeInit DEF Init, RoomInv, Admitted, GraceIsWhole, GraceCoversPhones, Open

LEMMA AdmittedStep ==
  ASSUME RoomInv, [Next]_vars
  PROVE  Admitted' /\ GraceIsWhole'
<1> USE DEF RoomInv, Admitted, GraceIsWhole, TypeOK, Open
<1>1. CASE UNCHANGED vars
  BY <1>1 DEF vars, timers
<1>2. ASSUME NEW c \in Link, Accept(c) \/ HelloTimeout(c) \/ Breaks(c)
      PROVE  Admitted' /\ GraceIsWhole'
  BY <1>2 DEF Accept, HelloTimeout, Breaks, Close, timers
<1>3. ASSUME NEW c \in Link, CloseEvent(c)
      PROVE  Admitted' /\ GraceIsWhole'
  <2>1. socket' = [socket EXCEPT ![c] = "gone"] /\ att' = att /\ socket[c] = "closing"
    BY <1>3 DEF CloseEvent, Gone
  <2>2. \A r : Open(r)' = Open(r)
    BY <2>1
  <2>3. CASE att[c] = "host" /\ Open("host") = {}
    <3>1. grace' /\ alarm'
      BY <1>3, <2>3 DEF CloseEvent
    <3>2. QED BY <2>1, <2>2, <2>3, <3>1
  <2>4. CASE ~(att[c] = "host" /\ Open("host") = {})
    <3>1. UNCHANGED <<grace, alarm>>
      BY <1>3, <2>4 DEF CloseEvent
    <3>2. QED BY <2>1, <2>2, <3>1
  <2>5. QED BY <2>3, <2>4
<1>4. ASSUME NEW t \in Tv, HelloHost(t)
      PROVE  Admitted' /\ GraceIsWhole'
  BY <1>4, RoomAssumption DEF HelloHost, Close, timers, Link, Sockets
<1>5. ASSUME NEW p \in Phone, NEW asked \in {"player", "audience"}, HelloPhone(p, asked)
      PROVE  Admitted' /\ GraceIsWhole'
  <2>1. Demoted(asked) \in {"player", "audience"}
    BY DEF Demoted
  <2>2. QED BY <1>5, <2>1, RoomAssumption DEF HelloPhone, Close, Link, Sockets
<1>6. ASSUME NEW p \in Phone, Act(p)
      PROVE  Admitted' /\ GraceIsWhole'
  BY <1>6 DEF Act, timers
<1>7. CASE Alarm
  BY <1>7 DEF Alarm
<1>8. CASE Restart
  BY <1>8 DEF Restart, Sockets
<1>9. QED
  BY <1>1, <1>2, <1>3, <1>4, <1>5, <1>6, <1>7, <1>8 DEF Next

LEMMA CoverStep ==
  ASSUME RoomInv, [Next]_vars
  PROVE  GraceCoversPhones'
<1> SUFFICES ASSUME (Open("host") = {})', (Open("player") \cup Open("audience") # {})'
             PROVE  \/ grace' /\ alarm'
                    \/ \E t \in Tv : socket'[t] = "closing" /\ att'[t] = "host"
  BY DEF GraceCoversPhones
<1> DEFINE Covered == \/ grace /\ alarm
                      \/ \E t \in Tv : socket[t] = "closing" /\ att[t] = "host"
<1>0. Open("host") = {} /\ Open("player") \cup Open("audience") # {} => Covered
  BY DEF RoomInv, GraceCoversPhones
<1> USE DEF Open
<1>1. CASE UNCHANGED vars
  BY <1>0, <1>1 DEF vars, timers
<1>2. ASSUME NEW c \in Link, Accept(c) \/ HelloTimeout(c) \/ Breaks(c)
      PROVE  Covered'
  <2>1. UNCHANGED <<att, grace, alarm>>
    BY <1>2 DEF Accept, HelloTimeout, Breaks, timers
  <2>2. \A d \in Link : socket'[d] = "open" => socket[d] = "open" \/ att[d] = "new"
    BY <1>2 DEF Accept, HelloTimeout, Breaks, Close, RoomInv, Admitted, TypeOK
  <2>3. \A d \in Link : socket[d] = "open" => socket'[d] \in {"open", "closing"}
    BY <1>2 DEF Accept, HelloTimeout, Breaks, Close, RoomInv, TypeOK
  <2>4. \A d \in Link : socket[d] = "closing" => socket'[d] = "closing"
    BY <1>2 DEF Accept, HelloTimeout, Breaks, Close, RoomInv, TypeOK
  <2>5. CASE Open("host") = {}
    <3>1. Covered
      BY <1>0, <2>1, <2>2, <2>5
    <3>2. QED BY <2>1, <2>4, <3>1 DEF Link
  <2>6. CASE Open("host") # {}
    <3>1. PICK t \in Link : socket[t] = "open" /\ att[t] = "host"
      BY <2>6
    <3>2. t \in Tv /\ socket'[t] = "closing"
      BY <2>1, <2>3, <3>1 DEF RoomInv, Admitted
    <3>3. QED BY <2>1, <3>1, <3>2
  <2>7. QED BY <2>5, <2>6
<1>3. ASSUME NEW c \in Link, CloseEvent(c)
      PROVE  Covered'
  BY <1>0, <1>3 DEF CloseEvent, Gone, RoomInv, Admitted, TypeOK
<1>4. ASSUME NEW t \in Tv, HelloHost(t)
      PROVE  Covered'
  BY <1>0, <1>4 DEF HelloHost, Close, timers, Sockets, RoomInv, Admitted, TypeOK, Link
<1>5. ASSUME NEW p \in Phone, NEW asked \in {"player", "audience"}, HelloPhone(p, asked)
      PROVE  Covered'
  <2>1. Demoted(asked) \in {"player", "audience"}
    BY DEF Demoted
  <2>2. CASE Refused(asked)
    BY <1>0, <1>5, <2>2 DEF HelloPhone, Close, RoomInv, TypeOK, Link
  <2>3. CASE ~Refused(asked)
    BY <1>5, <2>1, <2>3 DEF HelloPhone, Refused, RoomInv, Admitted, TypeOK, Link
  <2>4. QED BY <2>2, <2>3
<1>6. ASSUME NEW p \in Phone, Act(p)
      PROVE  Covered'
  BY <1>6 DEF Act
<1>7. CASE Alarm
  BY <1>7 DEF Alarm, RoomInv, Admitted
<1>8. CASE Restart
  BY <1>8 DEF Restart, Sockets
<1>9. QED
  BY <1>1, <1>2, <1>3, <1>4, <1>5, <1>6, <1>7, <1>8 DEF Next

LEMMA RoomStep ==
  ASSUME RoomInv, [Next]_vars
  PROVE  RoomInv'
BY TypeStep, AdmittedStep, CoverStep DEF RoomInv

\* index.ts, webSocketClose: phones without a TV have an alarm set for them,
\* or the close event that sets it is still to come.
THEOREM GraceAlwaysCovers == Spec => []GraceCoversPhones
<1>1. RoomInv => GraceCoversPhones
  BY DEF RoomInv
<1>2. QED BY <1>1, RoomInit, RoomStep, PTL DEF Spec

\* index.ts, clearHostGrace: no grace period outlives the TV's return, so an
\* alarm never ends a later absence early.
THEOREM GraceIsNeverOld == Spec => []GraceIsWhole
<1>1. RoomInv => GraceIsWhole
  BY DEF RoomInv
<1>2. QED BY <1>1, RoomInit, RoomStep, PTL DEF Spec

-----------------------------------------------------------------------------
(* What the TV is told. *)

Telling ==
  /\ \A p \in Phone : att[p] = "new" <=> told[p] = "nothing"
  /\ \A p \in Phone : told[p] = "left" => socket[p] = "gone"

ToldInv == TypeOK /\ Telling

LEMMA TellingStep ==
  ASSUME ToldInv, [Next]_vars
  PROVE  /\ Telling'
         /\ [ \A p \in Phone :
                \/ told'[p] = told[p] /\ ~Act(p)
                \/ told[p] = "nothing" /\ told'[p] = "joined"
                \/ told[p] \in {"joined", "act"} /\ told'[p] \in {"act", "left"} ]_vars
<1> DEFINE Heard(p) == \/ told'[p] = told[p]
                       \/ told[p] = "nothing" /\ told'[p] = "joined"
                       \/ told[p] \in {"joined", "act"} /\ told'[p] \in {"act", "left"}
<1> USE DEF ToldInv, Telling, TypeOK, Link
<1>1. ASSUME UNCHANGED vars
      PROVE  Telling'
  BY <1>1 DEF vars, timers
<1>2. ASSUME NEW c \in Link, Accept(c) \/ HelloTimeout(c) \/ Breaks(c)
      PROVE  Telling' /\ \A p \in Phone : Heard(p)
  BY <1>2 DEF Accept, HelloTimeout, Breaks, Close, timers
<1>3. ASSUME NEW c \in Link, CloseEvent(c)
      PROVE  Telling' /\ \A p \in Phone : Heard(p)
  BY <1>3 DEF CloseEvent, Gone
<1>4. ASSUME NEW t \in Tv, HelloHost(t)
      PROVE  Telling' /\ \A p \in Phone : Heard(p)
  BY <1>4, RoomAssumption DEF HelloHost, Close, timers, Sockets
<1>5. ASSUME NEW q \in Phone, NEW asked \in {"player", "audience"}, HelloPhone(q, asked)
      PROVE  Telling' /\ \A p \in Phone : Heard(p)
  <2>1. Demoted(asked) \in {"player", "audience"}
    BY DEF Demoted
  <2>2. QED BY <1>5, <2>1 DEF HelloPhone, Close, Sockets
<1>6. ASSUME NEW q \in Phone, Act(q)
      PROVE  Telling' /\ \A p \in Phone : Heard(p)
  BY <1>6 DEF Act, timers, Sockets
<1>7. ASSUME Alarm \/ Restart
      PROVE  Telling' /\ \A p \in Phone : Heard(p)
  <2>1. UNCHANGED <<att, told>>
    BY <1>7 DEF Alarm, Restart
  <2>2. \A p \in Phone : socket[p] = "gone" => socket'[p] = "gone"
    <3>1. CASE Alarm
      BY <3>1 DEF Alarm
    <3>2. CASE Restart
      BY <3>2 DEF Restart, Sockets
    <3>3. QED BY <1>7, <3>1, <3>2
  <2>3. QED BY <2>1, <2>2
<1> DEFINE Fine == Telling' /\ \A p \in Phone : Heard(p)
<1> HIDE DEF Fine
<1>9. Next => Fine
  BY <1>2, <1>3, <1>4, <1>5, <1>6, <1>7 DEF Next, Fine
<1>10. \A p \in Phone : Act(p) => told[p] \in {"joined", "act"} /\ told'[p] = "act"
  BY DEF Act, Sockets, Telling
<1>11. UNCHANGED vars => Telling'
  BY <1>1
<1>12. QED
  BY <1>9, <1>10, <1>11 DEF Fine

\* index.ts, relayToHost and onClose: whoever hosts, what TVs hear of a phone
\* is its joined, then its acts, then its left.
THEOREM TvHearsInOrder == Spec => ToldInOrder
<1>1. Init => ToldInv
  BY TypeInit DEF Init, ToldInv, Telling, Link
<1>2. ToldInv /\ [Next]_vars => ToldInv'
  BY TypeStep, TellingStep DEF ToldInv
<1>3. QED
  BY <1>1, <1>2, TellingStep, PTL DEF Spec, ToldInOrder

-----------------------------------------------------------------------------
(* The room implements the room code. *)

LEMMA SameCardinality == \A S : Code!Cardinality(S) = Cardinality(S)
BY DEF Cardinality, Code!Cardinality

\* A TV that hosts is Hosting; nobody else is.
LEMMA HostingIs ==
  ASSUME RoomInv
  PROVE  /\ \A t \in Open("host") : Hosting = t /\ t \in Tv /\ t # NoHost
         /\ Hosting # NoHost => Hosting \in Open("host")
<1>1. \A t \in Open("host") : t \in Tv /\ \A u \in Open("host") : t = u
  BY DEF RoomInv, Admitted, Open
<1>2. QED BY <1>1, RoomAssumption DEF Hosting, OneOf

\* Sockets that are not open any more are out of the room, and only they leave.
LEMMA ClosingLeaves ==
  ASSUME RoomInv, NEW c \in Link, UNCHANGED att,
         socket' = [socket EXCEPT ![c] = "closing"]
  PROVE  Code!Leave(c) \/ UNCHANGED <<Hosting, RoleOf>>
<1>1. RoleOf' = [RoleOf EXCEPT ![c] = "out"]
  BY DEF RoleOf, RoomInv, TypeOK
<1>2. Open("host")' = Open("host") \ {c}
  BY DEF Open, RoomInv, TypeOK
<1>3. CASE RoleOf[c] = "out"
  <2>1. RoleOf' = RoleOf
    BY <1>1, <1>3 DEF RoleOf
  <2>2. c \notin Open("host")
    BY <1>3 DEF RoleOf, Open, RoomInv, TypeOK
  <2>3. Hosting' = Hosting
    BY <1>2, <2>2 DEF Hosting
  <2>4. QED BY <2>1, <2>3
<1>4. CASE RoleOf[c] # "out"
  <2>1. Hosting' = IF Hosting = c THEN NoHost ELSE Hosting
    <3>1. CASE c \in Open("host")
      <4>1. Hosting = c /\ Open("host")' = {}
        BY <1>2, <3>1, HostingIs DEF RoomInv, Admitted
      <4>2. QED BY <4>1 DEF Hosting, OneOf
    <3>2. CASE c \notin Open("host")
      <4>1. Open("host")' = Open("host")
        BY <1>2, <3>2
      <4>2. Hosting' = Hosting
        BY <4>1 DEF Hosting
      <4>3. Hosting # c
        BY <3>2, HostingIs, RoomAssumption DEF Link
      <4>4. QED BY <4>2, <4>3
    <3>3. QED BY <3>1, <3>2
  <2>2. QED BY <1>1, <1>4, <2>1 DEF Code!Leave
<1>5. QED BY <1>3, <1>4

\* A step that gives nobody a place and takes nobody's leaves the room as it is.
Placed(c) == socket[c] = "open" /\ att[c] # "new"
Still(c) == (Placed(c)' <=> Placed(c)) /\ (Placed(c) => att'[c] = att[c])

LEMMA NobodyMoves ==
  ASSUME TypeOK, TypeOK', \A c \in Link : Still(c)
  PROVE  UNCHANGED <<Hosting, RoleOf>>
<1>1. RoleOf' = RoleOf
  BY DEF RoleOf, Still, Placed
<1>2. Open("host")' = Open("host")
  BY DEF Open, Still, Placed
<1>3. QED BY <1>1, <1>2 DEF Hosting

LEMMA HelloHostImplements ==
  ASSUME RoomInv, RoomInv', NEW t \in Tv, HelloHost(t)
  PROVE  Code!Claim(t) \/ Code!Leave(t) \/ UNCHANGED <<Hosting, RoleOf>>
<1>1. CASE Open("host") # {}
  <2>1. socket' = [socket EXCEPT ![t] = "closing"] /\ UNCHANGED att
    BY <1>1 DEF HelloHost, Close
  <2>2. QED BY <2>1, ClosingLeaves DEF Link
<1>2. CASE Open("host") = {}
  <2>1. att' = [att EXCEPT ![t] = "host"] /\ socket' = socket
    BY <1>2 DEF HelloHost
  <2>2. t \in Link /\ att[t] = "new" /\ socket[t] \in {"open", "closing"}
    BY DEF HelloHost, Sockets, Link
  <2>3. CASE socket[t] = "closing"
    <3>1. \A c \in Link : Still(c)
      BY <2>1, <2>2, <2>3 DEF Still, Placed, RoomInv, TypeOK
    <3>2. QED BY <3>1, NobodyMoves DEF RoomInv
  <2>4. CASE socket[t] = "open"
    <3>1. Hosting = NoHost
      BY <1>2 DEF Hosting, OneOf
    <3>2. Open("host")' = {t}
      BY <1>2, <2>1, <2>2, <2>4 DEF Open, RoomInv, TypeOK
    <3>3. Hosting' = t
      BY <3>2 DEF Hosting, OneOf
    <3>4. RoleOf' = [RoleOf EXCEPT ![t] = "host"]
      BY <2>1, <2>2, <2>4 DEF RoleOf, RoomInv, TypeOK
    <3>5. QED BY <3>1, <3>3, <3>4 DEF Code!Claim
  <2>5. QED BY <2>2, <2>3, <2>4
<1>3. QED BY <1>1, <1>2

LEMMA HelloPhoneImplements ==
  ASSUME RoomInv, RoomInv', NEW p \in Phone, NEW asked \in {"player", "audience"}, HelloPhone(p, asked)
  PROVE  Code!Join(p) \/ Code!Leave(p) \/ UNCHANGED <<Hosting, RoleOf>>
<1>1. CASE Refused(asked)
  <2>1. socket' = [socket EXCEPT ![p] = "closing"] /\ UNCHANGED att
    BY <1>1 DEF HelloPhone, Close
  <2>2. QED BY <2>1, ClosingLeaves DEF Link
<1>2. CASE ~Refused(asked)
  <2> DEFINE r == Demoted(asked)
  <2>1. att' = [att EXCEPT ![p] = r] /\ socket' = socket
    BY <1>2 DEF HelloPhone
  <2>2. p \in Link /\ att[p] = "new" /\ socket[p] \in {"open", "closing"}
    BY DEF HelloPhone, Sockets, Link
  <2>3. CASE socket[p] = "closing"
    <3>1. \A c \in Link : Still(c)
      BY <2>1, <2>2, <2>3 DEF Still, Placed, RoomInv, TypeOK
    <3>2. QED BY <3>1, NobodyMoves DEF RoomInv
  <2>4. CASE socket[p] = "open"
    <3>1. PICK t \in Open("host") : TRUE
      BY <1>2 DEF Refused
    <3>2. Hosting # NoHost
      BY <3>1, HostingIs
    <3>3. r \in {"player", "audience"}
      BY DEF Demoted
    <3>4. RoleOf[p] = "out" /\ RoleOf' = [RoleOf EXCEPT ![p] = r]
      BY <2>1, <2>2, <2>4, <3>3 DEF RoleOf, RoomInv, TypeOK
    <3>5. Open("host")' = Open("host")
      BY <2>1, <2>2, <3>3 DEF Open, RoomInv, TypeOK
    <3>6. Hosting' = Hosting
      BY <3>5 DEF Hosting
    <3>7. Code!Playing = Open("player")
      BY DEF Code!Playing, RoleOf, Open, RoomInv, Admitted, Link
    <3>8. Cardinality(Open("player")) \in Nat
      <4>1. Open("player") \subseteq Phone
        BY <3>7 DEF Code!Playing
      <4>2. QED BY <4>1, RoomAssumption, FS_Subset, FS_CardinalityType
    <3>9. r = "player" => Code!Cardinality(Code!Playing) < Cap
      BY <3>7, <3>8, SameCardinality, RoomAssumption DEF Demoted
    <3> HIDE DEF r
    <3>10. QED BY <3>2, <3>3, <3>4, <3>6, <3>9 DEF Code!Join
  <2>5. QED BY <2>2, <2>3, <2>4
<1>3. QED BY <1>1, <1>2

LEMMA AlarmImplements ==
  ASSUME RoomInv, RoomInv', Alarm
  PROVE  Code!SendHome \/ UNCHANGED <<Hosting, RoleOf>>
<1>1. UNCHANGED att
  BY DEF Alarm
<1>2. CASE Open("host") = {} /\ grace
  <2>1. \A c \in Link : socket'[c] # "open"
    BY <1>2 DEF Alarm
  <2>2. RoleOf' = [c \in Link |-> "out"]
    BY <2>1 DEF RoleOf
  <2>3. Hosting = NoHost
    BY <1>2 DEF Hosting, OneOf
  <2>4. Open("host")' = {}
    BY <2>1 DEF Open
  <2>5. Hosting' = NoHost
    BY <2>4 DEF Hosting, OneOf
  <2>6. CASE Code!Guests # {}
    BY <2>2, <2>3, <2>5, <2>6 DEF Code!SendHome, Code!Link, Link
  <2>7. CASE Code!Guests = {}
    <3>1. \A c \in Link : RoleOf[c] = "out"
      <4>1. \A p \in Phone : RoleOf[p] = "out"
        BY <2>7 DEF Code!Guests
      <4>2. \A t \in Tv : RoleOf[t] = "out"
        BY <1>2, RoomAssumption DEF RoleOf, Open, RoomInv, Admitted, TypeOK, Link
      <4>3. QED BY <4>1, <4>2 DEF Link
    <3>2. RoleOf' = RoleOf
      BY <2>2, <3>1 DEF RoleOf
    <3>3. QED BY <2>3, <2>5, <3>2
  <2>8. QED BY <2>6, <2>7
<1>3. CASE ~(Open("host") = {} /\ grace)
  <2>1. socket' = socket
    BY <1>3 DEF Alarm
  <2>2. \A c \in Link : Still(c)
    BY <1>1, <2>1 DEF Still, Placed
  <2>3. QED BY <2>2, NobodyMoves DEF RoomInv
<1>4. QED BY <1>2, <1>3

LEMMA StepImplements ==
  ASSUME RoomInv, RoomInv', [Next]_vars
  PROVE  [Code!Next]_(Code!vars)
<1>1. UNCHANGED <<Hosting, RoleOf>> => UNCHANGED Code!vars
  BY DEF Code!vars
<1>2. UNCHANGED vars => UNCHANGED <<Hosting, RoleOf>>
  <2>1. UNCHANGED vars => UNCHANGED <<socket, att>>
    BY DEF vars
  <2>2. ASSUME UNCHANGED <<socket, att>> PROVE \A c \in Link : Still(c)
    BY <2>2 DEF Still, Placed
  <2>3. QED BY <2>1, <2>2, NobodyMoves DEF RoomInv
<1>3. ASSUME NEW c \in Link, Accept(c)
      PROVE  UNCHANGED <<Hosting, RoleOf>>
  <2>1. att' = att /\ att[c] = "new" /\ socket' = [socket EXCEPT ![c] = "open"]
    BY <1>3 DEF Accept, RoomInv, Admitted
  <2>2. \A d \in Link : Still(d)
    BY <2>1 DEF Still, Placed, RoomInv, TypeOK
  <2>3. QED BY <2>2, NobodyMoves DEF RoomInv
<1>4. ASSUME NEW c \in Link, HelloTimeout(c) \/ Breaks(c)
      PROVE  Code!Leave(c) \/ UNCHANGED <<Hosting, RoleOf>>
  <2>1. UNCHANGED att /\ (socket' = [socket EXCEPT ![c] = "closing"] \/ UNCHANGED socket)
    BY <1>4 DEF HelloTimeout, Breaks, Close, timers
  <2>2. UNCHANGED <<socket, att>> => \A d \in Link : Still(d)
    BY DEF Still, Placed
  <2>3. QED BY <2>1, <2>2, ClosingLeaves, NobodyMoves DEF RoomInv
<1>5. ASSUME NEW c \in Link, CloseEvent(c)
      PROVE  UNCHANGED <<Hosting, RoleOf>>
  <2>1. att' = att /\ socket[c] = "closing" /\ socket' = [socket EXCEPT ![c] = "gone"]
    BY <1>5 DEF CloseEvent, Gone
  <2>2. \A d \in Link : Still(d)
    BY <2>1 DEF Still, Placed, RoomInv, TypeOK
  <2>3. QED BY <2>2, NobodyMoves DEF RoomInv
<1>6. ASSUME NEW p \in Phone, Act(p)
      PROVE  UNCHANGED <<Hosting, RoleOf>>
  <2>1. \A d \in Link : Still(d)
    BY <1>6 DEF Act, Still, Placed
  <2>2. QED BY <2>1, NobodyMoves DEF RoomInv
<1>7. ASSUME Restart
      PROVE  Code!Restart
  <2>1. \A c \in Link : socket'[c] # "open"
    BY <1>7 DEF Restart, Sockets
  <2>2. RoleOf' = [c \in Link |-> "out"] /\ Open("host")' = {}
    BY <2>1 DEF RoleOf, Open
  <2>3. Hosting' = NoHost
    BY <2>2 DEF Hosting, OneOf
  <2>4. QED BY <2>2, <2>3 DEF Code!Restart, Code!Link, Link
<1>8. Link = Code!Link
  BY DEF Link, Code!Link
<1>9. Tv \subseteq Link /\ Phone \subseteq Link
  BY DEF Link
<1>10. ASSUME Next
       PROVE  Code!Next \/ UNCHANGED <<Hosting, RoleOf>>
  BY <1>3, <1>4, <1>5, <1>6, <1>7, <1>8, <1>9, <1>10, HelloHostImplements, HelloPhoneImplements,
     AlarmImplements DEF Next, Code!Next
<1>11. QED BY <1>1, <1>2, <1>10

\* However sockets open, break and close, and whenever the platform restarts
\* the object, a room code of the hosted relay keeps its promises.
THEOREM RoomKeepsTheCode == Spec => Code!Spec
<1>1. Init => Code!Init
  <2> SUFFICES ASSUME Init PROVE Code!Init
    OBVIOUS
  <2>1. RoleOf = [c \in Link |-> "out"] /\ Open("host") = {}
    BY DEF Init, RoleOf, Open
  <2>2. Hosting = NoHost
    BY <2>1 DEF Hosting, OneOf
  <2>3. QED BY <2>1, <2>2 DEF Code!Init, Code!Link, Link
<1>2. QED BY <1>1, RoomInit, RoomStep, StepImplements, PTL DEF Spec, Code!Spec
=============================================================================
