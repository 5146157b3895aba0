--------------------------- MODULE LanRelay_proof ---------------------------
(***************************************************************************)
(* Proofs about LanRelay, for any number of links and any cap.             *)
(***************************************************************************)
EXTENDS LanRelay, FiniteSetTheorems, TLAPS

LEMMA TypeInit == Init => TypeOK
BY LanAssumption DEF Init, TypeOK, Link, Timer, NoTimer

LEMMA TypeStep ==
  ASSUME TypeOK, [Next]_vars
  PROVE  TypeOK'
<1>1. CASE UNCHANGED vars
  BY <1>1 DEF vars, room, grace, TypeOK
<1>2. ASSUME NEW c \in Link, Connect(c) \/ NoHello(c) \/ Refuse(c) \/ Welcome(c) \/ WelcomeFails(c)
                            \/ SendHome(c) \/ PeerGone(c)
      PROVE  TypeOK'
  BY <1>2 DEF Connect, NoHello, Refuse, Welcome, WelcomeFails, SendHome, PeerGone, End,
              room, grace, TypeOK
<1>3. ASSUME NEW t \in Tv, ClaimHost(t)
      PROVE  TypeOK'
  BY <1>3 DEF ClaimHost, TypeOK, Link, Timer, NoTimer
<1>4. ASSUME NEW p \in Phone, NEW asked \in {"player", "audience"}, Join(p, asked)
      PROVE  TypeOK'
  BY <1>4 DEF Join, grace, TypeOK, Link
<1>5. ASSUME NEW p \in Phone, Act(p)
      PROVE  TypeOK'
  BY <1>5 DEF Act, room, grace, TypeOK
<1>6. ASSUME NEW c \in Link, Drop(c)
      PROVE  TypeOK'
  BY <1>6 DEF Drop, BeginAbsence, End, TypeOK, Timer
<1>7. CASE TimerFires
  BY <1>7 DEF TimerFires, room, TypeOK, Timer, NoTimer
<1>8. ASSUME NEW k \in fired, Expire(k)
      PROVE  TypeOK'
  BY <1>8 DEF Expire, Clients, TypeOK
<1>9. QED
  BY <1>1, <1>2, <1>3, <1>4, <1>5, <1>6, <1>7, <1>8 DEF Next, Accept, Serve, ExpireSome

\* Every reachable state is well typed.
THEOREM TypeCorrect == Spec => []TypeOK
BY TypeInit, TypeStep, PTL DEF Spec

-----------------------------------------------------------------------------
(* The grace timer. *)

GraceInv == TypeOK /\ GraceCoversPhones

LEMMA GraceStep ==
  ASSUME GraceInv, [Next]_vars
  PROVE  GraceInv'
<1>1. TypeOK'
  BY TypeStep DEF GraceInv
<1> SUFFICES ASSUME host' = NoHost, Clients' # {}
             PROVE  \E k \in {armed'} \cup fired' : k.token = token'
  BY <1>1 DEF GraceInv, GraceCoversPhones
<1>2. CASE UNCHANGED <<host, role, token, armed, fired>>
  BY <1>2 DEF GraceInv, GraceCoversPhones, Clients
<1>3. ASSUME NEW t \in Tv, ClaimHost(t)
      PROVE  FALSE
  BY <1>3, LanAssumption DEF ClaimHost
<1>4. ASSUME NEW p \in Phone, NEW asked \in {"player", "audience"}, Join(p, asked)
      PROVE  FALSE
  BY <1>4 DEF Join
<1>5. ASSUME NEW c \in Link, Drop(c)
      PROVE  \E j \in {armed'} \cup fired' : j.token = token'
  <2>1. CASE host = c
    BY <1>5, <2>1 DEF Drop, BeginAbsence
  <2>2. CASE host # c
    <3>1. UNCHANGED <<host, token, armed, fired>> /\ role' = [role EXCEPT ![c] = "out"]
      BY <1>5, <2>2 DEF Drop
    <3>2. Clients # {}
      BY <3>1 DEF Clients, GraceInv, TypeOK
    <3>3. QED BY <3>1, <3>2 DEF GraceInv, GraceCoversPhones
  <2>3. QED BY <2>1, <2>2
<1>6. CASE TimerFires
  BY <1>6 DEF TimerFires, room, GraceInv, GraceCoversPhones, Clients
<1>7. ASSUME NEW k \in fired, Expire(k)
      PROVE  \E j \in {armed'} \cup fired' : j.token = token'
  <2>1. host = NoHost
    BY <1>7 DEF Expire
  <2>2. k.token # token
    BY <1>7, <2>1 DEF Expire, Clients
  <2>3. UNCHANGED <<role, token, armed>> /\ fired' = fired \ {k}
    BY <1>7, <2>2 DEF Expire
  <2>4. QED BY <2>1, <2>2, <2>3 DEF GraceInv, GraceCoversPhones, Clients
<1>8. ASSUME NEW c \in Link, Connect(c) \/ NoHello(c) \/ Refuse(c) \/ Welcome(c) \/ WelcomeFails(c)
                            \/ SendHome(c) \/ PeerGone(c)
      PROVE  UNCHANGED <<host, role, token, armed, fired>>
  BY <1>8 DEF Connect, NoHello, Refuse, Welcome, WelcomeFails, SendHome, PeerGone, room, grace
<1>9. ASSUME NEW p \in Phone, Act(p)
      PROVE  UNCHANGED <<host, role, token, armed, fired>>
  BY <1>9 DEF Act, room, grace
<1>10. UNCHANGED vars => UNCHANGED <<host, role, token, armed, fired>>
  BY DEF vars, room, grace
<1>11. QED
  BY <1>2, <1>3, <1>4, <1>5, <1>6, <1>7, <1>8, <1>9, <1>10 DEF Next, Accept, Serve, ExpireSome

\* Phones without a TV always have a timer that will let them go.
THEOREM GraceAlwaysCovers == Spec => []GraceCoversPhones
<1>1. Init => GraceInv
  BY TypeInit DEF Init, GraceInv, GraceCoversPhones, Clients
<1>2. GraceInv => GraceCoversPhones
  BY DEF GraceInv
<1>3. QED BY <1>1, <1>2, GraceStep, PTL DEF Spec

-----------------------------------------------------------------------------
(* The relay implements the room code. *)

\* Who is registered, and as what, agrees with room["host"]; a link that has
\* not been let in is not in the room.
Registered ==
  /\ host # NoHost => role[host] = "host"
  /\ \A t \in Tv : role[t] # "out" => host = t /\ role[t] = "host"
  /\ \A p \in Phone : role[p] # "host"
  /\ \A c \in Link : thread[c] \in {"none", "hello"} => role[c] = "out"

RoomInv == TypeOK /\ Registered

LEMMA SameCardinality == \A S : Code!Cardinality(S) = Cardinality(S)
BY DEF Cardinality, Code!Cardinality

LEMMA RegisteredStep ==
  ASSUME RoomInv, [Next]_vars
  PROVE  RoomInv'
<1>1. TypeOK'
  BY TypeStep DEF RoomInv
<1> SUFFICES Registered'
  BY <1>1 DEF RoomInv
<1>2. CASE UNCHANGED vars
  BY <1>2 DEF vars, room, RoomInv, Registered
<1>3. ASSUME NEW c \in Link, Connect(c) \/ NoHello(c) \/ Refuse(c) \/ Welcome(c) \/ WelcomeFails(c)
                            \/ SendHome(c) \/ PeerGone(c)
      PROVE  Registered'
  BY <1>3 DEF Connect, NoHello, Refuse, Welcome, WelcomeFails, SendHome, PeerGone, End, room,
              RoomInv, Registered, TypeOK
<1>4. ASSUME NEW t \in Tv, ClaimHost(t)
      PROVE  Registered'
  BY <1>4, LanAssumption DEF ClaimHost, RoomInv, Registered, TypeOK, Link
<1>5. ASSUME NEW p \in Phone, NEW asked \in {"player", "audience"}, Join(p, asked)
      PROVE  Registered'
  BY <1>5, LanAssumption DEF Join, RoomInv, Registered, TypeOK, Link
<1>6. ASSUME NEW p \in Phone, Act(p)
      PROVE  Registered'
  BY <1>6 DEF Act, room, RoomInv, Registered
<1>7. ASSUME NEW c \in Link, Drop(c)
      PROVE  Registered'
  BY <1>7, LanAssumption DEF Drop, BeginAbsence, End, RoomInv, Registered, TypeOK, Link
<1>8. CASE TimerFires
  BY <1>8 DEF TimerFires, room, RoomInv, Registered
<1>9. ASSUME NEW k \in fired, Expire(k)
      PROVE  Registered'
  BY <1>9 DEF Expire, RoomInv, Registered, TypeOK, Link
<1>10. QED
  BY <1>2, <1>3, <1>4, <1>5, <1>6, <1>7, <1>8, <1>9 DEF Next, Accept, Serve, ExpireSome

LEMMA StepImplements ==
  ASSUME RoomInv, [Next]_vars
  PROVE  [Code!Next]_(Code!vars)
<1>1. UNCHANGED <<host, role>> => UNCHANGED Code!vars
  BY DEF Code!vars
<1>2. ASSUME NEW c \in Link, Connect(c) \/ NoHello(c) \/ Refuse(c) \/ Welcome(c) \/ WelcomeFails(c)
                            \/ SendHome(c) \/ PeerGone(c)
      PROVE  UNCHANGED <<host, role>>
  BY <1>2 DEF Connect, NoHello, Refuse, Welcome, WelcomeFails, SendHome, PeerGone, room
<1>3. ASSUME NEW t \in Tv, ClaimHost(t)
      PROVE  Code!Claim(t)
  BY <1>3 DEF ClaimHost, Code!Claim
<1>4. ASSUME NEW p \in Phone, NEW asked \in {"player", "audience"}, Join(p, asked)
      PROVE  Code!Join(p)
  <2> DEFINE r == IF Cardinality(Playing) >= Cap THEN "audience" ELSE asked
  <2>1. Code!Playing = Playing
    BY DEF Code!Playing, Playing
  <2>2. Cardinality(Playing) \in Nat
    BY LanAssumption, FS_Subset, FS_CardinalityType DEF Playing
  <2>3. r \in {"player", "audience"} /\ (r = "player" => Code!Cardinality(Code!Playing) < Cap)
    BY <2>1, <2>2, SameCardinality, LanAssumption
  <2>4. role' = [role EXCEPT ![p] = r] /\ host # NoHost /\ host' = host
    BY <1>4 DEF Join
  <2>5. role[p] = "out"
    BY <1>4 DEF Join, RoomInv, Registered, Link
  <2> HIDE DEF r
  <2>6. QED BY <2>3, <2>4, <2>5 DEF Code!Join
<1>5. ASSUME NEW c \in Link, Drop(c)
      PROVE  Code!Leave(c) \/ UNCHANGED <<host, role>>
  <2>1. role' = [role EXCEPT ![c] = "out"] /\ host' = IF host = c THEN NoHost ELSE host
    BY <1>5 DEF Drop, BeginAbsence
  <2>2. CASE role[c] # "out"
    BY <2>1, <2>2 DEF Code!Leave
  <2>3. CASE role[c] = "out"
    <3>1. host # c
      BY <2>3, LanAssumption DEF RoomInv, Registered, Link
    <3>2. QED BY <2>1, <2>3, <3>1 DEF RoomInv, TypeOK
  <2>4. QED BY <2>2, <2>3
<1>6. ASSUME NEW k \in fired, Expire(k)
      PROVE  Code!SendHome \/ UNCHANGED <<host, role>>
  <2>1. CASE k.token = token /\ host = NoHost
    <3>1. role' = [c \in Link |-> "out"] /\ host' = host
      BY <1>6, <2>1 DEF Expire
    <3>2. CASE Code!Guests # {}
      BY <2>1, <3>1, <3>2 DEF Code!SendHome, Code!Link, Link
    <3>3. CASE Code!Guests = {}
      <4>1. \A c \in Link : role[c] = "out"
        BY <2>1, <3>3, LanAssumption DEF Code!Guests, RoomInv, Registered, Link
      <4>2. QED BY <3>1, <4>1 DEF RoomInv, TypeOK
    <3>4. QED BY <3>2, <3>3
  <2>2. CASE ~(k.token = token /\ host = NoHost)
    BY <1>6, <2>2 DEF Expire
  <2>3. QED BY <2>1, <2>2
<1>7. ASSUME NEW p \in Phone, Act(p)
      PROVE  UNCHANGED <<host, role>>
  BY <1>7 DEF Act, room
<1>8. TimerFires \/ UNCHANGED vars => UNCHANGED <<host, role>>
  BY DEF TimerFires, vars, room
<1>9. Link = Code!Link
  BY DEF Link, Code!Link
<1>10. ASSUME Next
       PROVE  Code!Next \/ UNCHANGED <<host, role>>
  <2>1. CASE Accept
    BY <1>2, <1>3, <1>4, <2>1 DEF Accept, Code!Next
  <2>2. CASE \E c \in Link : Serve(c) \/ SendHome(c) \/ PeerGone(c)
    BY <1>2, <1>5, <1>9, <2>2 DEF Serve, Code!Next
  <2>3. CASE ExpireSome
    BY <1>6, <2>3 DEF ExpireSome, Code!Next
  <2>4. QED BY <1>7, <1>8, <1>10, <2>1, <2>2, <2>3 DEF Next
<1>11. QED BY <1>1, <1>8, <1>10

\* However threads, drops and timers interleave, a room code of the LAN
\* server keeps its promises.
THEOREM RelayKeepsTheCode == Spec => Code!Spec
<1>1. Init => RoomInv /\ Code!Init
  BY TypeInit, LanAssumption DEF Init, RoomInv, Registered, Code!Init, Link, Code!Link
<1>2. QED BY <1>1, RegisteredStep, StepImplements, PTL DEF Spec, Code!Spec
-----------------------------------------------------------------------------
(* Who is sent home, and what the TV hears. *)

\* Tokens only grow, so the timer with the room's own token is the one that was
\* started for the present absence.
Timed ==
  /\ \A k \in {armed} \cup fired :
       k.token <= token /\ (k.token = token => k.since = absence)
  /\ token = 0 => absence = 0

WholeInv == TypeOK /\ Timed

LEMMA TimedStep ==
  ASSUME WholeInv, [Next]_vars
  PROVE  WholeInv'
<1>1. TypeOK'
  BY TypeStep DEF WholeInv
<1> SUFFICES Timed'
  BY <1>1 DEF WholeInv
<1>2. CASE UNCHANGED grace
  BY <1>2 DEF grace, WholeInv, Timed
<1>3. ASSUME NEW t \in Tv, ClaimHost(t)
      PROVE  Timed'
  BY <1>3 DEF ClaimHost, WholeInv, Timed, TypeOK, Timer, NoTimer
<1>4. ASSUME NEW c \in Link, Drop(c)
      PROVE  Timed'
  <2>1. CASE host = c
    <3>1. /\ token' = token + 1 /\ absence' = absence + 1 /\ fired' = fired
          /\ armed' = [token |-> token + 1, since |-> absence + 1]
      BY <1>4, <2>1 DEF Drop, BeginAbsence
    <3>2. \A k \in fired : k.token \in Nat /\ k.token <= token
      BY DEF WholeInv, Timed, TypeOK, Timer
    <3>3. token \in Nat
      BY DEF WholeInv, TypeOK
    <3>4. QED BY <3>1, <3>2, <3>3 DEF Timed
  <2>2. CASE host # c
    BY <1>4, <2>2 DEF Drop, WholeInv, Timed
  <2>3. QED BY <2>1, <2>2
<1>5. CASE TimerFires
  BY <1>5 DEF TimerFires, WholeInv, Timed, TypeOK, Timer, NoTimer
<1>6. ASSUME NEW k \in fired, Expire(k)
      PROVE  Timed'
  BY <1>6 DEF Expire, WholeInv, Timed
<1>7. ASSUME NEW c \in Link, Connect(c) \/ NoHello(c) \/ Refuse(c) \/ Welcome(c) \/ WelcomeFails(c)
                            \/ SendHome(c) \/ PeerGone(c)
      PROVE  UNCHANGED grace
  BY <1>7 DEF Connect, NoHello, Refuse, Welcome, WelcomeFails, SendHome, PeerGone
<1>8. ASSUME NEW p \in Phone, Act(p) \/ \E asked \in {"player", "audience"} : Join(p, asked)
      PROVE  UNCHANGED grace
  BY <1>8 DEF Act, Join
<1>9. UNCHANGED vars => UNCHANGED grace
  BY DEF vars
<1>10. QED
  BY <1>2, <1>3, <1>4, <1>5, <1>6, <1>7, <1>8, <1>9 DEF Next, Accept, Serve, ExpireSome

\* Phones are sent home only by the timer that measured the present absence.
THEOREM GraceIsAlwaysWhole == Spec => GraceIsWhole
<1> DEFINE Whole(p) == p \in victims' \ victims => \E k \in fired \ fired' : k.since = absence
<1>1. ASSUME WholeInv, [Next]_vars, NEW p \in Phone, p \in victims' \ victims
      PROVE  \E k \in fired \ fired' : k.since = absence
  <2>1. ASSUME NEW k \in fired, Expire(k)
        PROVE  k \in fired \ fired' /\ k.since = absence
    <3>1. k.token = token /\ fired' = fired \ {k}
      BY <1>1, <2>1 DEF Expire
    <3>2. QED BY <1>1, <3>1 DEF WholeInv, Timed
  <2>2. ASSUME NEW c \in Link, SendHome(c)
        PROVE  FALSE
    BY <1>1, <2>2 DEF SendHome
  <2>3. ASSUME NEW c \in Link, Connect(c) \/ NoHello(c) \/ Refuse(c) \/ Serve(c) \/ PeerGone(c)
        PROVE  victims' = victims
    BY <2>3 DEF Connect, NoHello, Refuse, Serve, Welcome, WelcomeFails, Drop, PeerGone
  <2>4. ASSUME NEW t \in Tv, ClaimHost(t)
        PROVE  victims' = victims
    BY <2>4 DEF ClaimHost
  <2>5. ASSUME NEW q \in Phone, Act(q) \/ \E asked \in {"player", "audience"} : Join(q, asked)
        PROVE  victims' = victims
    BY <2>5 DEF Act, Join
  <2>6. TimerFires \/ UNCHANGED vars => victims' = victims
    BY DEF TimerFires, vars
  <2>7. QED
    BY <1>1, <2>1, <2>2, <2>3, <2>4, <2>5, <2>6 DEF Next, Accept, ExpireSome
<1>2. WholeInv /\ [Next]_vars => [\A p \in Phone : Whole(p)]_vars
  BY <1>1
<1>3. Init => WholeInv
  BY TypeInit DEF Init, WholeInv, Timed, NoTimer
<1>4. WholeInv /\ [Next]_vars => WholeInv'
  BY TimedStep
<1>5. QED BY <1>2, <1>3, <1>4, PTL DEF Spec, GraceIsWhole

\* What the TV last heard of a phone fits where that phone's thread is.
Heard ==
  \A p \in Phone :
    /\ thread[p] \in {"none", "hello"} => told[p] = "nothing"
    /\ thread[p] \in {"greet", "serving"} => told[p] \in {"joined", "act"}

ToldInv == TypeOK /\ Heard

\* What one step tells the TV of one phone.
Told(p) ==
  \/ told'[p] = told[p] /\ ~Act(p)
  \/ told[p] = "nothing" /\ told'[p] = "joined"
  \/ told[p] \in {"joined", "act"} /\ told'[p] \in {"act", "left"}

LEMMA ActsAreHeard ==
  ASSUME ToldInv, NEW p \in Phone, Act(p)
  PROVE  told[p] \in {"joined", "act"} /\ told'[p] = "act"
BY DEF ToldInv, Heard, TypeOK, Act

\* The steps that leave threads and what was told alone.
SendHomeOrTimers ==
  (\E c \in Link : SendHome(c) \/ PeerGone(c)) \/ TimerFires \/ ExpireSome

LEMMA ToldStep ==
  ASSUME ToldInv, [Next]_vars
  PROVE  ToldInv' /\ \A p \in Phone : Told(p)
<1>1. TypeOK'
  BY TypeStep DEF ToldInv
<1> SUFFICES Heard' /\ \A p \in Phone : Act(p) \/ Told(p)
  BY <1>1, ActsAreHeard DEF ToldInv, Told
<1>2. ASSUME UNCHANGED <<thread, told>>
      PROVE  Heard' /\ \A p \in Phone : Act(p) \/ Told(p)
  BY <1>2 DEF ToldInv, Heard, Told
<1>3. ASSUME NEW c \in Link, Connect(c) \/ NoHello(c) \/ Refuse(c) \/ Welcome(c) \/ WelcomeFails(c)
      PROVE  Heard' /\ \A p \in Phone : Act(p) \/ Told(p)
  BY <1>3 DEF Connect, NoHello, Refuse, Welcome, WelcomeFails, End, ToldInv, Heard, Told, TypeOK, Link
<1>4. ASSUME NEW t \in Tv, ClaimHost(t)
      PROVE  Heard' /\ \A p \in Phone : Act(p) \/ Told(p)
  BY <1>4, LanAssumption DEF ClaimHost, ToldInv, Heard, Told, TypeOK, Link
<1>5. ASSUME NEW q \in Phone, NEW asked \in {"player", "audience"}, Join(q, asked)
      PROVE  Heard' /\ \A p \in Phone : Act(p) \/ Told(p)
  BY <1>5 DEF Join, ToldInv, Heard, Told, TypeOK, Link
<1>6. ASSUME NEW q \in Phone, Act(q)
      PROVE  Heard' /\ \A p \in Phone : Act(p) \/ Told(p)
  BY <1>6 DEF Act, ToldInv, Heard, Told, TypeOK, Link
<1>7. ASSUME NEW c \in Link, Drop(c)
      PROVE  Heard' /\ \A p \in Phone : Act(p) \/ Told(p)
  BY <1>7 DEF Drop, End, ToldInv, Heard, Told, TypeOK, Link
<1>8. ASSUME SendHomeOrTimers \/ UNCHANGED vars
      PROVE  UNCHANGED <<thread, told>>
  BY <1>8 DEF SendHomeOrTimers, SendHome, PeerGone, TimerFires, ExpireSome, Expire, vars
<1>9. QED
  BY <1>2, <1>3, <1>4, <1>5, <1>6, <1>7, <1>8 DEF Next, Accept, Serve, SendHomeOrTimers

\* The TV hears of a phone as joined, then acts, then left, whatever the
\* interleaving of its thread with the others.
THEOREM TvHearsInOrder == Spec => ToldInOrder
<1>1. Init => ToldInv
  BY TypeInit, LanAssumption DEF Init, ToldInv, Heard, Link
<1>2. ToldInv /\ [Next]_vars => ToldInv'
  BY ToldStep
<1>3. ToldInv /\ [Next]_vars => [\A p \in Phone : Told(p)]_vars
  BY ToldStep
<1>4. QED BY <1>1, <1>2, <1>3, PTL DEF Spec, ToldInOrder, Told
=============================================================================
