---------------------------- MODULE PartySession ----------------------------
(***************************************************************************)
(* A party on the hosted relay from end to end: the TV's page (web/js/     *)
(* host.js), the phones' pages (player.js), the link all of them use       *)
(* (ws.js), and the rooms of relay/src/index.ts with the code mint in      *)
(* front of them.  A screen dials, is cut off, and dials again on a new    *)
(* socket, while the relay may not have noticed the end of the old one.    *)
(*                                                                         *)
(* A path that dies is noticed by the page first and by the relay at any   *)
(* time later.  Frames to the relay and to a phone arrive at once; frames  *)
(* to the TV wait in its socket's wire.  PartyRoom has what is left out of *)
(* the relay (seats, hello timeouts, where the grace period is stored) and *)
(* PartyGame the rounds: here a phone shows the game of now, an old one or *)
(* none.                                                                   *)
(***************************************************************************)
EXTENDS Integers, Sequences

CONSTANTS
  Tv, Phone,   \* the screens
  Code,        \* room codes
  Slot,        \* sockets a screen may have had at once
  MaxMints,    \* bound on the codes asked for at once
  MaxFaults    \* bound on cuts, failed calls, reloads and other desks

ASSUME SessionAssumption ==
  Tv \notin Phone /\ Slot # {} /\ MaxMints \in Nat /\ MaxFaults \in Nat

VARIABLES
  party,     \* ui.party
  code,      \* game.room
  asked,     \* POST /rooms under way
  picked,    \* codes claimMint found free and the TV has not read yet
  welcomed,  \* connectHost's flag
  roster,    \* game.players that are connected, by socket
  phone,     \* linked, the game it shows, lookup under way
  dial,      \* PDG.connect: off, wait or open; the socket; the room
  sock,      \* the relay's side and the wire back to the page
  grace,     \* codes whose host is gone and whose phones still wait
  rival,     \* codes another desk hosts
  faults,
  missed     \* history: sockets that came or went unseen by the TV

tvVars == <<party, code, asked, picked, welcomed, roster>>
vars == <<tvVars, phone, dial, sock, grace, rival, faults, missed>>

Screen == {Tv} \cup Phone
Sock == Screen \X Slot
PhoneSock == Phone \X Slot
Line(w) == <<w, dial[w].slot>>
Live(x) == dial[x[1]].is = "open" /\ dial[x[1]].slot = x[2]
Hosts(c) == {x \in {Tv} \X Slot : sock[x].far = "in" /\ sock[x].room = c}
InRoom(c) == {x \in PhoneSock : sock[x].far = "in" /\ sock[x].room = c}
Free == [far |-> "none", room |-> "", wire |-> <<>>]
Slot0 == CHOOSE s \in Slot : TRUE

(* Every variable has its type; calls, faults and sockets stay in bounds. *)
TypeOK ==
  /\ party \in BOOLEAN /\ welcomed \in BOOLEAN /\ code \in Code
  /\ asked \in 0..MaxMints /\ picked \subseteq Code /\ rival \subseteq Code /\ grace \subseteq Code
  /\ faults \in 0..MaxFaults
  /\ roster \subseteq PhoneSock /\ missed \subseteq PhoneSock
  /\ phone \in [Phone -> [linked : BOOLEAN, seen : {"none", "old", "now"}, asking : BOOLEAN]]
  /\ dial \in [Screen -> [is : {"off", "wait", "open"}, slot : Slot, room : Code]]
  /\ \A x \in Sock : sock[x].far \in {"none", "new", "in", "closing"}

Init ==
  /\ party = FALSE /\ code \in Code /\ asked = 0 /\ picked = {} /\ welcomed = FALSE
  /\ roster = {}
  /\ phone = [p \in Phone |-> [linked |-> FALSE, seen |-> "none", asking |-> FALSE]]
  /\ dial = [w \in Screen |-> [is |-> "off", slot |-> Slot0, room |-> code]]
  /\ sock = [x \in Sock |-> Free]
  /\ grace = {} /\ rival = {} /\ faults = 0 /\ missed = {}

-----------------------------------------------------------------------------
(* Frames *)

Op(op) == [op |-> op]
Of(op, x) == [op |-> op, id |-> x]

(* send to a TV: a frame that finds the page gone from its socket is lost. *)
ToHost(S, X, frames) ==
  [x \in Sock |-> IF x \in X /\ Live(x) THEN [S[x] EXCEPT !.wire = @ \o frames] ELSE S[x]]

(* relayState, to every phone in the room of the TV's socket. *)
Hears(p) ==
  LET x == Line(p) IN Live(x) /\ sock[x].far = "in" /\ sock[x].room = sock[Line(Tv)].room
Shown(was) == [p \in Phone |-> IF Hears(p) THEN [was[p] EXCEPT !.seen = "now"] ELSE was[p]]

PushNothing(was) == phone' = was  \* mutant: a TV that is back does not push

(* pushState *)
PushState(was) ==
  phone' = IF party /\ Live(Line(Tv)) /\ sock[Line(Tv)].far = "in" THEN Shown(was) ELSE was

Named(wire) == {wire[i].id : i \in {j \in 1..Len(wire) : wire[j].op \in {"joined", "left"}}}

(* The page lets go of its socket: what was on the wire is never read, and *)
(* a socket the relay has not welcomed is nothing to it.                   *)
Let(S, w) ==
  [x \in Sock |-> IF x[1] # w THEN S[x]
                  ELSE IF S[x].far \in {"none", "new"} THEN Free ELSE [S[x] EXCEPT !.wire = <<>>]]
Drop(w) == sock' = Let(sock, w)
Down(w, is) == [dial EXCEPT ![w].is = is, ![w].slot = Slot0]
Hangs(w, is) == dial' = Down(w, is) /\ Drop(w)
Unread == IF dial[Tv].is = "open" THEN Named(sock[Line(Tv)].wire) ELSE {}

-----------------------------------------------------------------------------
(* The TV's page *)

CloseTvLink == Hangs(Tv, "off")

EnterMultiplayer ==
  /\ ~party /\ asked < MaxMints
  /\ party' = TRUE /\ asked' = asked + 1
  /\ UNCHANGED <<code, picked, welcomed, roster, phone, dial, sock, grace, rival, faults, missed>>

LeaveMultiplayer ==
  /\ party
  /\ party' = FALSE /\ roster' = {}
  /\ CloseTvLink
  /\ missed' = missed \cup Unread \cup UNION {InRoom(c) : c \in Code}
  /\ UNCHANGED <<code, asked, picked, welcomed, phone, grace, rival, faults>>

(* Back to the title: the link goes and the game keeps its players. *)
Back ==
  /\ party
  /\ party' = FALSE
  /\ CloseTvLink
  /\ missed' = missed \cup Unread
  /\ UNCHANGED <<code, asked, picked, welcomed, roster, phone, grace, rival, faults>>

(* A reload loses the page: players, pending codes, everything. *)
Reload ==
  /\ faults < MaxFaults /\ faults' = faults + 1
  /\ party' = FALSE /\ asked' = 0 /\ picked' = {} /\ welcomed' = FALSE /\ roster' = {}
  /\ CloseTvLink
  /\ missed' = missed \cup Unread \cup UNION {InRoom(c) : c \in Code}
  /\ UNCHANGED <<code, phone, grace, rival>>

(* claimMint: the code has no host now. *)
ClaimMint(c) ==
  /\ asked > 0 /\ Hosts(c) = {} /\ c \notin rival /\ c \notin picked
  /\ asked' = asked - 1 /\ picked' = picked \cup {c}
  /\ UNCHANGED <<party, code, welcomed, roster, phone, dial, sock, grace, rival, faults, missed>>

MintFailsTwice ==  \* mutant: a failure counts against a call that was answered
  /\ faults < MaxFaults
  /\ asked' = asked - 1 /\ faults' = faults + 1
  /\ UNCHANGED <<party, code, picked, welcomed, roster, phone, dial, sock, grace, rival, missed>>

MintFails ==
  /\ asked > 0 /\ faults < MaxFaults
  /\ asked' = asked - 1 /\ faults' = faults + 1
  /\ UNCHANGED <<party, code, picked, welcomed, roster, phone, dial, sock, grace, rival, missed>>

(* The code arrives; only ui.party is looked at, not which request it is.  *)
(* connectHost closes the link of the code before it.                      *)
ConnectHost(c) ==
  /\ c \in picked /\ picked' = picked \ {c}
  /\ IF party
     THEN /\ code' = c /\ welcomed' = FALSE
          /\ dial' = [dial EXCEPT ![Tv] = [is |-> "wait", slot |-> Slot0, room |-> c]] /\ Drop(Tv)
          /\ missed' = missed \cup Unread \cup roster
                         \cup (IF dial[Tv].is = "off" THEN {} ELSE InRoom(code))
     ELSE UNCHANGED <<code, welcomed, dial, sock, missed>>
  /\ UNCHANGED <<party, asked, roster, phone, grace, rival, faults>>

(* The game moves on: what every phone shows is old until it is pushed. *)
NextRound ==
  /\ PushState([p \in Phone |-> [phone[p] EXCEPT !.seen = IF @ = "now" THEN "old" ELSE @]])
  /\ UNCHANGED <<tvVars, dial, sock, grace, rival, faults, missed>>

TvHears(op) ==
  /\ dial[Tv].is = "open" /\ sock[Line(Tv)].wire # <<>>
  /\ Head(sock[Line(Tv)].wire).op = op
Read(w) == [sock EXCEPT ![Line(w)].wire = Tail(@)]

TvWelcomed ==
  /\ TvHears("welcome")
  /\ welcomed' = TRUE /\ sock' = Read(Tv) /\ PushState(phone)
  /\ UNCHANGED <<party, code, asked, picked, roster, dial, grace, rival, faults, missed>>

TvRoster ==
  /\ TvHears("joined") \/ TvHears("left")
  /\ LET m == Head(sock[Line(Tv)].wire) IN
     roster' = IF m.op = "joined" THEN roster \cup {m.id} ELSE roster \ {m.id}
  /\ sock' = Read(Tv) /\ PushState(phone)
  /\ UNCHANGED <<party, code, asked, picked, welcomed, dial, grace, rival, faults, missed>>

(* The TV has no handler for hostgone: the close frame follows. *)
TvHostgone ==
  /\ TvHears("hostgone") /\ sock' = Read(Tv)
  /\ UNCHANGED <<tvVars, phone, dial, grace, rival, faults, missed>>

(* "That room already has a host": a first hello asks for another code. *)
TvRefused ==
  /\ TvHears("err")
  /\ IF welcomed THEN UNCHANGED asked ELSE asked < MaxMints /\ asked' = asked + 1
  /\ sock' = Read(Tv)
  /\ UNCHANGED <<party, code, picked, welcomed, roster, phone, dial, grace, rival, faults, missed>>

-----------------------------------------------------------------------------
(* The link *)

(* startWs: at once, after the backoff, or when the browser is online.  A  *)
(* socket of the model is used again when nothing remembers it.            *)
Dial(w, s) ==
  /\ dial[w].is = "wait" /\ sock[<<w, s>>].far = "none" /\ <<w, s>> \notin roster
  /\ <<w, s>> \notin Unread
  /\ dial' = [dial EXCEPT ![w].is = "open", ![w].slot = s]
  /\ sock' = [sock EXCEPT ![<<w, s>>] = [Free EXCEPT !.far = "new", !.room = dial[w].room]]
  /\ missed' = missed \ {<<w, s>>}
  /\ UNCHANGED <<tvVars, phone, grace, rival, faults>>

(* onclose, then the backoff: the relay closed the socket, or the path     *)
(* died and the relay has not noticed.                                     *)
OnClose(w) ==
  /\ dial[w].is = "open" /\ Hangs(w, "wait")
  /\ phone' = IF w = Tv THEN phone ELSE [phone EXCEPT ![w].linked = FALSE]
  /\ missed' = IF w = Tv THEN missed \cup Unread ELSE missed
  /\ UNCHANGED <<tvVars, grace, rival>>

ClosedUnheard ==  \* mutant: a close does not make the link dial again
  /\ TvHears("bye") /\ sock' = Read(Tv)
  /\ UNCHANGED <<tvVars, phone, dial, grace, rival, faults, missed>>

Closed == TvHears("bye") /\ OnClose(Tv) /\ UNCHANGED faults
Cut(w) == faults < MaxFaults /\ faults' = faults + 1 /\ OnClose(w)

-----------------------------------------------------------------------------
(* The relay *)

Empty(c) == Hosts(c) = {} /\ c \notin rival

HelloHost(x) ==
  /\ x[1] = Tv /\ sock[x].far = "new" /\ Live(x)
  /\ LET c == sock[x].room IN
     IF Empty(c)
     THEN /\ sock' = ToHost([sock EXCEPT ![x].far = "in"], {x}, <<Op("welcome")>>)
          /\ grace' = grace \ {c}
     ELSE /\ sock' = ToHost([sock EXCEPT ![x].far = "none"], {x}, <<Op("err"), Op("bye")>>)
          /\ UNCHANGED grace
  /\ UNCHANGED <<tvVars, phone, dial, rival, faults, missed>>

Turned(p) == [phone EXCEPT ![p].linked = FALSE]

(* reject: an err frame and a close, on which the phone dials again. *)
Refuse(p) == phone' = Turned(p) /\ dial' = Down(p, "wait") /\ Drop(p)

HelloUntold(x) ==  \* mutant: the host is not told
  /\ x \in PhoneSock /\ sock[x].far = "new" /\ Live(x)
  /\ IF Empty(sock[x].room)
     THEN Refuse(x[1])
     ELSE /\ sock' = [sock EXCEPT ![x].far = "in"]
          /\ phone' = [phone EXCEPT ![x[1]].linked = TRUE] /\ UNCHANGED dial
  /\ UNCHANGED <<tvVars, grace, rival, faults, missed>>

HelloPhone(x) ==
  /\ x \in PhoneSock /\ sock[x].far = "new" /\ Live(x)
  /\ LET c == sock[x].room IN
     IF Empty(c) THEN Refuse(x[1]) /\ UNCHANGED missed
     ELSE /\ sock' = ToHost([sock EXCEPT ![x].far = "in"], Hosts(c), <<Of("joined", x)>>)
          /\ phone' = [phone EXCEPT ![x[1]].linked = TRUE] /\ UNCHANGED dial
          /\ missed' = IF \E h \in Hosts(c) : Live(h) THEN missed ELSE missed \cup {x}
  /\ UNCHANGED <<tvVars, grace, rival, faults>>

(* webSocketClose, some time after the page let go or the path died. *)
WebSocketClose(x) ==
  /\ sock[x].far = "closing" \/ (sock[x].far = "in" /\ ~Live(x))
  /\ LET c == sock[x].room
         shut == [sock EXCEPT ![x] = Free]
         heard == \E h \in Hosts(c) : Live(h)
     IN /\ sock' = IF x \in PhoneSock THEN ToHost(shut, Hosts(c), <<Of("left", x)>>) ELSE shut
        /\ missed' = IF x \in roster /\ ~heard THEN missed \cup {x} ELSE missed \ {x}
        /\ grace' = IF x \in Hosts(c) THEN grace \cup {c} ELSE grace
  /\ UNCHANGED <<tvVars, phone, dial, rival, faults>>

(* alarm: twelve seconds without a host, and every socket is sent home. *)
Alarm(c) ==
  /\ c \in grace /\ grace' = grace \ {c}
  /\ LET home == {x \in Sock : sock[x].room = c /\ sock[x].far \in {"new", "in"}}
         gone == {p \in Phone : Live(Line(p)) /\ Line(p) \in home}
     IN /\ phone' = [p \in Phone |-> IF p \in gone THEN [phone[p] EXCEPT !.linked = FALSE, !.seen = "none"]
                                     ELSE phone[p]]
        /\ dial' = [w \in Screen |-> IF w \in gone THEN Down(w, "wait")[w] ELSE dial[w]]
        /\ sock' = [x \in Sock |->
             IF x \notin home THEN sock[x]
             ELSE IF x[1] = Tv THEN [sock[x] EXCEPT !.far = "none", !.wire = <<Op("hostgone"), Op("bye")>>]
             ELSE IF sock[x].far = "in" THEN [sock[x] EXCEPT !.far = "closing"] ELSE Free]
  /\ UNCHANGED <<tvVars, rival, faults, missed>>

RivalHosts(c) ==
  /\ faults < MaxFaults /\ faults' = faults + 1
  /\ Hosts(c) = {} /\ c \notin rival
  /\ rival' = rival \cup {c} /\ grace' = grace \ {c}
  /\ UNCHANGED <<tvVars, phone, dial, sock, missed>>

RivalLeaves(c) ==
  /\ c \in rival /\ rival' = rival \ {c} /\ grace' = grace \cup {c}
  /\ UNCHANGED <<tvVars, phone, dial, sock, faults, missed>>

-----------------------------------------------------------------------------
(* A phone's page.  The join form is up unless a linked phone has a game. *)

DoJoin(p) ==
  /\ ~phone[p].asking /\ ~(phone[p].linked /\ phone[p].seen # "none")
  /\ phone' = [phone EXCEPT ![p].asking = TRUE]
  /\ dial' = [dial EXCEPT ![p] = [is |-> "off", slot |-> Slot0, room |-> code]] /\ Drop(p)
  /\ UNCHANGED <<tvVars, grace, rival, faults, missed>>

(* lookupRoom; a call that fails does not stop the join. *)
Looked(p) ==
  /\ phone[p].asking
  /\ LET c == dial[p].room
         hosted == Hosts(c) # {} \/ c \in rival
     IN \/ ~hosted /\ UNCHANGED <<dial, faults>>
           /\ phone' = [phone EXCEPT ![p].asking = FALSE, ![p].linked = FALSE]
        \/ /\ hosted \/ faults < MaxFaults
           /\ faults' = IF hosted THEN faults ELSE faults + 1
           /\ dial' = [dial EXCEPT ![p].is = "wait"]
           /\ phone' = [phone EXCEPT ![p].asking = FALSE]
  /\ UNCHANGED <<tvVars, sock, grace, rival, missed>>

ClosePage(p) ==
  /\ phone' = [phone EXCEPT ![p] = [linked |-> FALSE, seen |-> "none", asking |-> FALSE]]
  /\ Hangs(p, "off")
  /\ UNCHANGED <<tvVars, grace, rival, faults, missed>>

-----------------------------------------------------------------------------

TvReads == TvWelcomed \/ TvRoster \/ TvHostgone \/ TvRefused

Next ==
  \/ EnterMultiplayer \/ LeaveMultiplayer \/ Back \/ Reload \/ MintFails \/ NextRound \/ TvReads
  \/ \E c \in Code : ClaimMint(c) \/ ConnectHost(c) \/ Alarm(c) \/ RivalHosts(c) \/ RivalLeaves(c)
  \/ Closed
  \/ \E w \in Screen : Cut(w) \/ \E s \in Slot : Dial(w, s)
  \/ \E x \in Sock : HelloHost(x) \/ HelloPhone(x) \/ WebSocketClose(x)
  \/ \E p \in Phone : DoJoin(p) \/ Looked(p) \/ ClosePage(p)

(* The TV's calls return, its frames are read, its backoff ends, and the   *)
(* relay answers its hello and notices its dead sockets.  Phones, people   *)
(* and other desks owe nothing.                                            *)
Fairness ==
  /\ WF_vars(TvReads) /\ WF_vars(Closed) /\ WF_vars(\E s \in Slot : Dial(Tv, s))
  /\ \A c \in Code : WF_vars(ClaimMint(c)) /\ WF_vars(ConnectHost(c))
  /\ \A x \in {Tv} \X Slot : WF_vars(HelloHost(x)) /\ WF_vars(WebSocketClose(x))

Spec == Init /\ [][Next]_vars /\ Fairness

-----------------------------------------------------------------------------

Waits(op, x) == \E i \in 1..Len(sock[Line(Tv)].wire) : sock[Line(Tv)].wire[i] = Of(op, x)
TvLive == Live(Line(Tv)) /\ sock[Line(Tv)].far = "in"

(* What host.js lists as connected and what the relay counts in the room   *)
(* are the same phones, but for joined and left frames on their way, a     *)
(* socket whose end the relay has not noticed, and the sockets that came   *)
(* or went while no TV's page could hear of it: reconnects, refusals,      *)
(* reloads and a new room leave no other difference.                       *)
RosterIsRoom ==
  /\ \A x \in roster : \/ x \in InRoom(dial[Tv].room) \/ sock[x].far = "closing"
                       \/ (TvLive /\ Waits("left", x)) \/ x \in missed
  /\ TvLive => \A x \in InRoom(sock[Line(Tv)].room) :
       x \in roster \/ Waits("joined", x) \/ x \in missed

Hosting == party /\ TvLive /\ sock[Line(Tv)].room = code
(* A TV that was welcomed and loses its socket gets its room back: through  *)
(* the old socket that the relay still counts as its host and the refusals *)
(* this brings, the alarm and the calls for a code still under way, unless *)
(* the desk leaves the party or another desk has the code by then.  That   *)
(* TV dials and is refused for as long as the other plays: only a first    *)
(* hello that is refused asks for another code.                            *)
TvGetsItsRoomBack ==
  party /\ welcomed /\ dial[Tv].is # "off" ~> Hosting \/ ~party \/ ~welcomed \/ code \in rival

(* Between two frames of the relay a phone whose socket is in the room of  *)
(* the TV shows the game of now, whichever of the two was cut off, refused *)
(* or reloaded before: pushState follows every welcome, every joined and   *)
(* every step of the game, so no phone is left on the join form or in an   *)
(* old round.                                                              *)
PhoneSeesGame ==
  TvLive /\ ~(\E i \in 1..Len(sock[Line(Tv)].wire) : sock[Line(Tv)].wire[i] = Op("welcome")) =>
    \A p \in Phone : Hears(p) => phone[p].seen = "now" \/ Waits("joined", Line(p))
=============================================================================
