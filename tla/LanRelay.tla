------------------------------ MODULE LanRelay ------------------------------
(***************************************************************************)
(* The room relay of server.py: one room code, the thread that serves each *)
(* WebSocket, ROOMS_LOCK, and the 12 second timer that sends the phones    *)
(* home when their TV does not come back.                                  *)
(*                                                                         *)
(* A step is what one thread does while it holds ROOMS_LOCK, or one send   *)
(* outside it.  A link is one WebSocket with its own client id; a screen   *)
(* that reconnects does so with a fresh link.  Frames are reduced to what  *)
(* the TV is told about each phone.                                        *)
(***************************************************************************)
EXTENDS Integers, FiniteSets

CONSTANTS
  Tv,       \* links that say hello as host
  Phone,    \* links that say hello as player or audience
  NoHost,
  Cap       \* the ninth player becomes audience

ASSUME LanAssumption ==
  /\ IsFiniteSet(Tv) /\ IsFiniteSet(Phone) /\ Tv \cap Phone = {}
  /\ NoHost \notin Tv \cup Phone
  /\ Cap \in Nat \ {0}

Link == Tv \cup Phone

\* A threading.Timer is known by its token; since only records the absence of
\* the TV it was started for.
Timer == [token : Nat, since : Nat]
NoTimer == [token |-> 0, since |-> 0]

VARIABLES
  thread,   \* where the thread that serves a link is
  socket,   \* open, broken (the peer is gone), or closed by the server
  host,     \* room["host"]
  role,     \* room["clients"], "out" for a link that is not in it
  token,    \* room["host_token"]
  armed,    \* the timer in room["host_grace"] while it may still fire
  fired,    \* timers that fired and wait for ROOMS_LOCK
  absence,  \* how often a TV has been dropped, only to state a property
  victims,  \* links _expire_host took out of the room and has yet to close
  told      \* the last thing a TV was sent about a phone

room == <<host, role>>
grace == <<token, armed, fired, absence>>
vars == <<thread, socket, room, grace, victims, told>>

Clients == {c \in Link : role[c] # "out"}
Playing == {p \in Phone : role[p] = "player"}

Init ==
  /\ thread = [c \in Link |-> "none"] /\ socket = [c \in Link |-> "closed"]
  /\ host = NoHost /\ role = [c \in Link |-> "out"]
  /\ token = 0 /\ armed = NoTimer /\ fired = {} /\ absence = 0
  /\ victims = {} /\ told = [p \in Phone |-> "nothing"]

-----------------------------------------------------------------------------
(* accept_ws *)

\* A screen opens the socket; accept_ws waits for its hello.
Connect(c) ==
  /\ thread[c] = "none"
  /\ thread' = [thread EXCEPT ![c] = "hello"]
  /\ socket' = [socket EXCEPT ![c] = "open"]
  /\ UNCHANGED <<room, grace, victims, told>>

End(c) ==
  /\ thread' = [thread EXCEPT ![c] = "done"]
  /\ socket' = [socket EXCEPT ![c] = "closed"]

\* No hello in time, or not one: the socket is closed.
NoHello(c) ==
  /\ thread[c] = "hello"
  /\ End(c)
  /\ UNCHANGED <<room, grace, victims, told>>

\* "That room already has a host." / "No host is waiting on that code."
Refuse(c) ==
  /\ thread[c] = "hello"
  /\ IF c \in Tv THEN host # NoHost ELSE host = NoHost
  /\ End(c)
  /\ UNCHANGED <<room, grace, victims, told>>

\* _claim_host: the running grace timer is cancelled, if it has not fired.
ClaimHost(t) ==
  /\ thread[t] = "hello" /\ host = NoHost
  /\ host' = t /\ role' = [role EXCEPT ![t] = "host"]
  /\ token' = token + 1 /\ armed' = NoTimer
  /\ thread' = [thread EXCEPT ![t] = "greet"]
  /\ UNCHANGED <<socket, fired, absence, victims, told>>

JoinOneOver(p, asked) ==  \* mutant: > for >= in the cap
  /\ thread[p] = "hello" /\ host # NoHost
  /\ role' = [role EXCEPT ![p] = IF Cardinality(Playing) > Cap THEN "audience" ELSE asked]
  /\ told' = [told EXCEPT ![p] = "joined"]
  /\ thread' = [thread EXCEPT ![p] = "greet"]
  /\ UNCHANGED <<socket, host, grace, victims>>

\* A phone comes in and the TV is told, all under ROOMS_LOCK.
Join(p, asked) ==
  /\ thread[p] = "hello" /\ host # NoHost
  /\ role' = [role EXCEPT ![p] = IF Cardinality(Playing) >= Cap THEN "audience" ELSE asked]
  /\ told' = [told EXCEPT ![p] = "joined"]
  /\ thread' = [thread EXCEPT ![p] = "greet"]
  /\ UNCHANGED <<socket, host, grace, victims>>

\* The lock is released; the welcome is sent and ClientThread started.  A send
\* to a peer that is gone may still be buffered.
Welcome(c) ==
  /\ thread[c] = "greet" /\ socket[c] # "closed"
  /\ c \in Tv \/ role[c] # "out"
  /\ thread' = [thread EXCEPT ![c] = "serving"]
  /\ UNCHANGED <<socket, room, grace, victims, told>>

\* The send raises, or the phone's entry is gone (KeyError): client_thread
\* closes the socket, and no ClientThread is there to call drop_client.
WelcomeFails(c) ==
  /\ thread[c] = "greet"
  /\ socket[c] # "open" \/ (c \in Phone /\ role[c] = "out")
  /\ End(c)
  /\ UNCHANGED <<room, grace, victims, told>>

-----------------------------------------------------------------------------
(* ClientThread *)

\* An act of a phone goes to the TV, if there is one.
Act(p) ==
  /\ thread[p] = "serving" /\ socket[p] = "open" /\ host # NoHost
  /\ told' = [told EXCEPT ![p] = "act"]
  /\ UNCHANGED <<thread, socket, room, grace, victims>>

\* drop_client of the TV's link: _schedule_host_expiry starts a new timer.
BeginAbsence ==
  /\ host' = NoHost
  /\ token' = token + 1 /\ absence' = absence + 1
  /\ armed' = [token |-> token + 1, since |-> absence + 1]

DropKeepsServing(c) ==  \* mutant: the loop goes on after a failed ping
  /\ thread[c] = "serving" /\ role[c] # "out"
  /\ role' = [role EXCEPT ![c] = "out"]
  /\ IF host = c THEN BeginAbsence ELSE UNCHANGED <<host, token, armed, absence>>
  /\ told' = IF c \in Phone /\ host # NoHost THEN [told EXCEPT ![c] = "left"] ELSE told
  /\ UNCHANGED <<thread, socket, fired, victims>>

DropNoTimer(c) ==  \* mutant: off by one, no timer for a room with one guest
  /\ thread[c] = "serving" /\ socket[c] # "open"
  /\ End(c)
  /\ role' = [role EXCEPT ![c] = "out"]
  /\ IF host = c /\ Cardinality(Clients) > 2
     THEN BeginAbsence
     ELSE host' = (IF host = c THEN NoHost ELSE host) /\ UNCHANGED <<token, armed, absence>>
  /\ told' = IF c \in Phone /\ host # NoHost THEN [told EXCEPT ![c] = "left"] ELSE told
  /\ UNCHANGED <<fired, victims>>

DropForgetsToken(c) ==  \* mutant: the new token is not stored in the room
  /\ thread[c] = "serving" /\ socket[c] # "open"
  /\ End(c)
  /\ role' = [role EXCEPT ![c] = "out"]
  /\ IF host = c
     THEN /\ host' = NoHost /\ absence' = absence + 1
          /\ armed' = [token |-> token + 1, since |-> absence + 1]
          /\ UNCHANGED token
     ELSE UNCHANGED <<host, token, armed, absence>>
  /\ told' = IF c \in Phone /\ host # NoHost THEN [told EXCEPT ![c] = "left"] ELSE told
  /\ UNCHANGED <<fired, victims>>

\* run's read or ping fails and drop_client runs: the TV's link arms the
\* grace timer, a phone's is reported to the TV.
Drop(c) ==
  /\ thread[c] = "serving" /\ socket[c] # "open"
  /\ End(c)
  /\ role' = [role EXCEPT ![c] = "out"]
  /\ IF host = c THEN BeginAbsence ELSE UNCHANGED <<host, token, armed, absence>>
  /\ told' = IF c \in Phone /\ host # NoHost THEN [told EXCEPT ![c] = "left"] ELSE told
  /\ UNCHANGED <<fired, victims>>

-----------------------------------------------------------------------------
(* The grace timer. *)

TimerFires ==
  /\ armed # NoTimer
  /\ fired' = fired \cup {armed} /\ armed' = NoTimer
  /\ UNCHANGED <<thread, socket, room, token, absence, victims, told>>

ExpirePlayersOnly(k) ==  \* mutant: the audience is forgotten, not closed
  /\ k \in fired
  /\ fired' = fired \ {k}
  /\ IF k.token = token /\ host = NoHost
     THEN victims' = victims \cup Playing /\ role' = [c \in Link |-> "out"]
     ELSE UNCHANGED <<victims, role>>
  /\ UNCHANGED <<thread, socket, host, token, armed, absence, told>>

\* _expire_host, under ROOMS_LOCK: a timer that was overtaken does nothing.
Expire(k) ==
  /\ k \in fired
  /\ fired' = fired \ {k}
  /\ IF k.token = token /\ host = NoHost
     THEN victims' = victims \cup Clients /\ role' = [c \in Link |-> "out"]
     ELSE UNCHANGED <<victims, role>>
  /\ UNCHANGED <<thread, socket, host, token, armed, absence, told>>

\* _expire_host, after the lock: hostgone is sent and the socket closed.
SendHome(c) ==
  /\ c \in victims
  /\ victims' = victims \ {c}
  /\ socket' = [socket EXCEPT ![c] = "closed"]
  /\ UNCHANGED <<thread, room, grace, told>>

\* The screen at the other end closes, sleeps or loses the network.
PeerGone(c) ==
  /\ socket[c] = "open"
  /\ socket' = [socket EXCEPT ![c] = "broken"]
  /\ UNCHANGED <<thread, room, grace, victims, told>>

-----------------------------------------------------------------------------
Accept ==
  \/ \E c \in Link : Connect(c) \/ NoHello(c) \/ Refuse(c)
  \/ \E t \in Tv : ClaimHost(t)
  \/ \E p \in Phone, asked \in {"player", "audience"} : Join(p, asked)

Serve(c) == Welcome(c) \/ WelcomeFails(c) \/ Drop(c)
ExpireSome == \E k \in fired : Expire(k)

Next ==
  \/ Accept
  \/ \E c \in Link : Serve(c) \/ SendHome(c) \/ PeerGone(c)
  \/ \E p \in Phone : Act(p)
  \/ TimerFires
  \/ ExpireSome

\* Threads are scheduled and timers run out; nobody has to connect or leave.
Fairness ==
  /\ \A c \in Link : WF_vars(Serve(c)) /\ WF_vars(SendHome(c))
  /\ WF_vars(TimerFires) /\ WF_vars(ExpireSome)

Spec == Init /\ [][Next]_vars
FairSpec == Spec /\ Fairness

-----------------------------------------------------------------------------
(* Properties. *)

\* Every variable has its type.
TypeOK ==
  /\ thread \in [Link -> {"none", "hello", "greet", "serving", "done"}]
  /\ socket \in [Link -> {"open", "broken", "closed"}]
  /\ host \in Tv \cup {NoHost}
  /\ role \in [Link -> {"out", "host", "player", "audience"}]
  /\ token \in Nat /\ armed \in Timer /\ fired \subseteq Timer /\ absence \in Nat
  /\ victims \subseteq Link
  /\ told \in [Phone -> {"nothing", "joined", "act", "left"}]

\* Phones without a TV always have a timer running for them: no order of
\* drops, claims and late timers leaves them in a room nobody will empty.
GraceCoversPhones ==
  host = NoHost /\ Clients # {} => \E k \in {armed} \cup fired : k.token = token

\* Phones are sent home only by a timer that was started when the present
\* absence of the TV began: the grace is always a whole one, though timers of
\* earlier absences may have fired and still wait for the lock.
GraceIsWhole ==
  [][ \A p \in Phone : p \in victims' \ victims =>
        \E k \in fired \ fired' : k.since = absence ]_vars

\* What TVs hear of a phone is its joined, then its acts, then its left;
\* nothing more, however its thread and the room's other threads interleave.
ToldInOrder ==
  [][ \A p \in Phone :
        \/ told'[p] = told[p] /\ ~Act(p)
        \/ told[p] = "nothing" /\ told'[p] = "joined"
        \/ told[p] \in {"joined", "act"} /\ told'[p] \in {"act", "left"} ]_vars

\* A phone whose TV went away is let go: the TV returns or its socket closes.
NoPhoneStranded ==
  \A p \in Phone :
    (host = NoHost /\ role[p] # "out") ~> (host # NoHost \/ socket[p] = "closed")

\* The relay keeps the promises of a room code.
Code == INSTANCE RoomCode
RoomCodeKept == Code!FairSpec
=============================================================================
