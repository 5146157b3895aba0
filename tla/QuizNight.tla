------------------------------ MODULE QuizNight ------------------------------
(***************************************************************************)
(* What a room full of players may rely on, whatever the mode: the items   *)
(* of a game are asked one after the other, the answer of each is shown    *)
(* exactly once before the next is asked, and points are won and lost only *)
(* then.  A start, wherever it comes, may clear the board; one that finds  *)
(* no items spoils the game it came over, whose next item is never asked   *)
(* and whose answer may never be shown.                                    *)
(***************************************************************************)
EXTENDS Integers

CONSTANTS
  Phone,
  Gain     \* the units an item may pay one phone, or take from it

VARIABLES
  stage,   \* idle, asked, shown or over
  item,    \* items asked so far in this game
  points,  \* units paid to each phone
  spoiled  \* a start was refused over the game under way

vars == <<stage, item, points, spoiled>>

NoPoints == [p \in Phone |-> 0]

Init == stage = "idle" /\ item = 0 /\ points = NoPoints /\ spoiled = FALSE

\* A game starts with its first item, keeping the points or not.
Begin ==
  /\ stage' = "asked" /\ item' = 1 /\ spoiled' = FALSE
  /\ points' \in {points, NoPoints}

\* A start that finds no items.
Refuse ==
  /\ points' \in {points, NoPoints}
  /\ spoiled' = (stage \in {"asked", "shown"})
  /\ UNCHANGED <<stage, item>>

Show ==
  /\ stage = "asked" /\ stage' = "shown"
  /\ \E gain \in [Phone -> Gain] :
       points' = [p \in Phone |-> points[p] + gain[p]]
  /\ UNCHANGED <<item, spoiled>>

Ask ==
  /\ stage = "shown" /\ stage' = "asked" /\ item' = item + 1
  /\ ~spoiled
  /\ UNCHANGED <<points, spoiled>>

Close ==
  /\ stage = "shown" /\ stage' = "over" /\ spoiled' = FALSE
  /\ UNCHANGED <<item, points>>

\* The host takes the room back to the lobby.
Abandon ==
  /\ stage # "idle" /\ stage' = "idle" /\ item' = 0 /\ spoiled' = FALSE
  /\ UNCHANGED points

Next == Begin \/ Refuse \/ Show \/ Ask \/ Close \/ Abandon

Spec == Init /\ [][Next]_vars

\* An item that is asked is answered unless the game is abandoned or spoiled.
FairSpec == Spec /\ WF_vars(Show /\ ~spoiled)
=============================================================================
