----------------------------- MODULE PartyRoom -----------------------------
(***************************************************************************)
(* The hosted relay, relay/src/index.ts: the Durable Object of one room    *)
(* code, its WebSockets, and the grace period it keeps in storage.         *)
(*                                                                         *)
(* The object is single threaded and only awaits storage; the platform     *)
(* delivers no event to it meanwhile.  So each event handler is one step,  *)
(* and the second look for a host after each await finds what the first    *)
(* found.  A socket that either side has closed takes no more sends and is *)
(* not counted, but frames already on their way may still arrive before    *)
(* its close event does.                                                   *)
(***************************************************************************)
EXTENDS Integers, FiniteSets

CONSTANTS
  Tv,           \* sockets that say hello as host
  Phone,        \* sockets that say hello as player or audience
  NoHost,
  Cap,          \* MAX_PLAYERS
  AudienceCap   \* MAX_AUDIENCE

ASSUME RoomAssumption ==
  /\ IsFiniteSet(Tv) /\ IsFiniteSet(Phone) /\ Tv \cap Phone = {}
  /\ NoHost \notin Tv \cup Phone
  /\ Cap \in Nat \ {0} /\ AudienceCap \in Nat

VARIABLES
  socket,      \* none, open, closing (close event to come) or gone
  att,         \* the attachment: "new" before the welcome, then the role
  helloTimer,  \* sockets with a hello timeout running
  grace,       \* storage has hostGrace
  alarm,       \* an alarm is set
  told         \* the last thing a TV was sent about a phone

timers == <<helloTimer, grace, alarm>>
vars == <<socket, att, timers, told>>

Link == Tv \cup Phone
MaxSockets == 1 + Cap + AudienceCap
Sockets == {c \in Link : socket[c] \in {"open", "closing"}}
Open(r) == {c \in Link : socket[c] = "open" /\ att[c] = r}

Init ==
  /\ socket = [c \in Link |-> "none"] /\ att = [c \in Link |-> "new"]
  /\ helloTimer = {} /\ grace = FALSE /\ alarm = FALSE
  /\ told = [p \in Phone |-> "nothing"]

-----------------------------------------------------------------------------
\* fetch: a socket is accepted while the room has one to spare.
Accept(c) ==
  /\ socket[c] = "none" /\ Cardinality(Sockets) < MaxSockets
  /\ socket' = [socket EXCEPT ![c] = "open"]
  /\ helloTimer' = helloTimer \cup {c}
  /\ UNCHANGED <<att, grace, alarm, told>>

\* reject: an error frame, then close.
Close(c) == socket' = [socket EXCEPT ![c] = "closing"]

HelloTimeout(c) ==
  /\ c \in helloTimer
  /\ helloTimer' = helloTimer \ {c}
  /\ IF att[c] = "new" /\ socket[c] = "open" THEN Close(c) ELSE UNCHANGED socket
  /\ UNCHANGED <<att, grace, alarm, told>>

\* A frame the room does not take (not text, too large, not JSON, one too
\* many in the window, no valid hello), an error, or the peer closing.
Breaks(c) ==
  /\ socket[c] = "open"
  /\ Close(c)
  /\ UNCHANGED <<att, timers, told>>

HelloHostNoClear(t) ==  \* mutant: the claim does not call clearHostGrace
  /\ t \in Sockets /\ att[t] = "new"
  /\ IF Open("host") # {}
     THEN Close(t) /\ UNCHANGED <<att, timers>>
     ELSE /\ att' = [att EXCEPT ![t] = "host"]
          /\ helloTimer' = helloTimer \ {t}
          /\ UNCHANGED <<socket, grace, alarm>>
  /\ UNCHANGED told

\* hello of a TV: the first one hosts, and ends the grace period.
HelloHost(t) ==
  /\ t \in Sockets /\ att[t] = "new"
  /\ IF Open("host") # {}
     THEN Close(t) /\ UNCHANGED <<att, timers>>
     ELSE /\ att' = [att EXCEPT ![t] = "host"]
          /\ helloTimer' = helloTimer \ {t}
          /\ grace' = FALSE /\ alarm' = FALSE
          /\ UNCHANGED socket
  /\ UNCHANGED told

Demoted(asked) ==
  IF asked = "player" /\ Cardinality(Open("player")) >= Cap THEN "audience" ELSE asked
Refused(asked) ==
  \/ Open("host") = {}
  \/ Demoted(asked) = "audience" /\ Cardinality(Open("audience")) >= AudienceCap

HelloPhoneOneOver(p, asked) ==  \* mutant: > for >= in the cap
  /\ p \in Sockets /\ att[p] = "new"
  /\ LET r == IF asked = "player" /\ Cardinality(Open("player")) > Cap THEN "audience" ELSE asked
     IN IF Open("host") = {} \/ (r = "audience" /\ Cardinality(Open("audience")) >= AudienceCap)
        THEN Close(p) /\ UNCHANGED <<att, helloTimer, told>>
        ELSE /\ att' = [att EXCEPT ![p] = r]
             /\ helloTimer' = helloTimer \ {p}
             /\ told' = [told EXCEPT ![p] = "joined"]
             /\ UNCHANGED socket
  /\ UNCHANGED <<grace, alarm>>

HelloPhoneEarly(p, asked) ==  \* mutant: welcomed before the room is found full
  /\ p \in Sockets /\ att[p] = "new"
  /\ att' = [att EXCEPT ![p] = Demoted(asked)]
  /\ helloTimer' = helloTimer \ {p}
  /\ IF Refused(asked)
     THEN Close(p) /\ UNCHANGED told
     ELSE told' = [told EXCEPT ![p] = "joined"] /\ UNCHANGED socket
  /\ UNCHANGED <<grace, alarm>>

\* hello of a phone: the TV is told, unless the room has no TV or no place.
HelloPhone(p, asked) ==
  /\ p \in Sockets /\ att[p] = "new"
  /\ IF Refused(asked)
     THEN Close(p) /\ UNCHANGED <<att, helloTimer, told>>
     ELSE /\ att' = [att EXCEPT ![p] = Demoted(asked)]
          /\ helloTimer' = helloTimer \ {p}
          /\ told' = [told EXCEPT ![p] = "joined"]
          /\ UNCHANGED socket
  /\ UNCHANGED <<grace, alarm>>

\* relayToHost: an act or meta of a welcomed phone.
Act(p) ==
  /\ p \in Sockets /\ att[p] # "new" /\ Open("host") # {}
  /\ told' = [told EXCEPT ![p] = "act"]
  /\ UNCHANGED <<socket, att, timers>>

Gone(c) ==
  /\ socket[c] = "closing"
  /\ socket' = [socket EXCEPT ![c] = "gone"]
  /\ helloTimer' = helloTimer \ {c}
  /\ told' = IF c \in Phone /\ att[c] # "new" /\ Open("host") # {}
             THEN [told EXCEPT ![c] = "left"] ELSE told
  /\ UNCHANGED att

CloseEventClean(c) ==  \* mutant: an unclean close of the TV starts no grace
  /\ Gone(c)
  /\ \E wasClean \in BOOLEAN :
       IF att[c] = "host" /\ Open("host") = {} /\ wasClean
       THEN grace' = TRUE /\ alarm' = TRUE
       ELSE UNCHANGED <<grace, alarm>>

\* webSocketClose: the last TV to go starts the grace period; a phone's going
\* is reported.
CloseEvent(c) ==
  /\ Gone(c)
  /\ IF att[c] = "host" /\ Open("host") = {}
     THEN grace' = TRUE /\ alarm' = TRUE
     ELSE UNCHANGED <<grace, alarm>>

\* alarm: without a TV everybody gets hostgone.
Alarm ==
  /\ alarm /\ alarm' = FALSE /\ grace' = FALSE
  /\ socket' = IF Open("host") = {} /\ grace
               THEN [c \in Link |-> IF socket[c] = "open" THEN "closing" ELSE socket[c]]
               ELSE socket
  /\ UNCHANGED <<att, helloTimer, told>>

\* The platform restarts the object: sockets and in-memory timers are lost,
\* storage and the alarm are not.
Restart ==
  /\ socket' = [c \in Link |-> IF c \in Sockets THEN "gone" ELSE socket[c]]
  /\ helloTimer' = {}
  /\ UNCHANGED <<att, grace, alarm, told>>

-----------------------------------------------------------------------------
Next ==
  \/ \E c \in Link : Accept(c) \/ HelloTimeout(c) \/ Breaks(c) \/ CloseEvent(c)
  \/ \E t \in Tv : HelloHost(t)
  \/ \E p \in Phone :
       \/ \E asked \in {"player", "audience"} : HelloPhone(p, asked)
       \/ Act(p)
  \/ Alarm
  \/ Restart

\* The platform delivers close events and alarms.
Fairness == WF_vars(Alarm) /\ \A c \in Link : WF_vars(CloseEvent(c))

Spec == Init /\ [][Next]_vars
FairSpec == Spec /\ Fairness

-----------------------------------------------------------------------------
(* Properties. *)

\* Every variable has its type.
TypeOK ==
  /\ socket \in [Link -> {"none", "open", "closing", "gone"}]
  /\ att \in [Link -> {"new", "host", "player", "audience"}]
  /\ helloTimer \subseteq Link
  /\ grace \in BOOLEAN /\ alarm \in BOOLEAN
  /\ told \in [Phone -> {"nothing", "joined", "act", "left"}]

\* Phones without a TV have an alarm set for them, or the close event that
\* will set it is still to come.
GraceCoversPhones ==
  (Open("host") = {} /\ Open("player") \cup Open("audience") # {}) =>
    \/ grace /\ alarm
    \/ \E t \in Tv : socket[t] = "closing" /\ att[t] = "host"

\* Storage holds no grace period while a TV hosts: an alarm that goes off was
\* set when the present absence began.
GraceIsWhole == grace \/ alarm => Open("host") = {}

\* What TVs hear of a phone is its joined, then its acts, then its left.
ToldInOrder ==
  [][ \A p \in Phone :
        \/ told'[p] = told[p] /\ ~Act(p)
        \/ told[p] = "nothing" /\ told'[p] = "joined"
        \/ told[p] \in {"joined", "act"} /\ told'[p] \in {"act", "left"} ]_vars

\* The hosted room keeps the promises of a room code.
OneOf(tvs) == IF tvs = {} THEN NoHost ELSE CHOOSE t \in Tv : t \in tvs
Hosting == OneOf(Open("host"))
RoleOf == [c \in Link |-> IF socket[c] = "open" /\ att[c] # "new" THEN att[c] ELSE "out"]
Code == INSTANCE RoomCode WITH host <- Hosting, role <- RoleOf
RoomCodeKept == Code!FairSpec
=============================================================================
