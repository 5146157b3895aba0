------------------------------ MODULE RoomCode ------------------------------
(***************************************************************************)
(* What a room code promises to the screens that use it, whichever relay   *)
(* serves it: one TV hosts at a time, phones come in only while it does,   *)
(* at most Cap of them to play, and phones whose TV went away are sent     *)
(* home together unless a TV comes back.                                   *)
(***************************************************************************)
EXTENDS Integers, FiniteSets

CONSTANTS Tv, Phone, NoHost, Cap

VARIABLES
  host,   \* the link that hosts, or NoHost
  role    \* what each link is in the room

vars == <<host, role>>

Link == Tv \cup Phone
Playing == {p \in Phone : role[p] = "player"}
Guests == {p \in Phone : role[p] # "out"}

Init == host = NoHost /\ role = [c \in Link |-> "out"]

Claim(t) ==
  /\ host = NoHost
  /\ host' = t /\ role' = [role EXCEPT ![t] = "host"]

Join(p) ==
  /\ host # NoHost /\ role[p] = "out"
  /\ \E r \in {"player", "audience"} :
       /\ r = "player" => Cardinality(Playing) < Cap
       /\ role' = [role EXCEPT ![p] = r]
  /\ UNCHANGED host

Leave(c) ==
  /\ role[c] # "out"
  /\ role' = [role EXCEPT ![c] = "out"]
  /\ host' = IF host = c THEN NoHost ELSE host

SendHome ==
  /\ host = NoHost /\ Guests # {}
  /\ role' = [c \in Link |-> "out"]
  /\ UNCHANGED host

\* The relay itself goes down and every link with it.
Restart ==
  /\ host' = NoHost /\ role' = [c \in Link |-> "out"]

Next ==
  \/ \E t \in Tv : Claim(t)
  \/ \E p \in Phone : Join(p)
  \/ \E c \in Link : Leave(c)
  \/ SendHome
  \/ Restart

Spec == Init /\ [][Next]_vars

\* Guests without a TV do not wait for ever.
FairSpec == Spec /\ WF_vars(SendHome)
=============================================================================
