------------------------------ MODULE PartyGame ------------------------------
(***************************************************************************)
(* The authoritative party state of web/js/game.js and the rules of the    *)
(* modes under web/js/modes: who is seated, which prompt is open, whose    *)
(* answers count, who is paid, which timer is armed.                       *)
(*                                                                         *)
(* The TV's JavaScript is single threaded, so one event handler (a relay   *)
(* message, a host button, a timer callback) is one action.  The order in  *)
(* which handlers run is free.                                             *)
(*                                                                         *)
(* Data is reduced to what the rules tell apart.  Every item of a deck has *)
(* the same options, Truth being the handbook line.  A score counts units: *)
(* a speed bonus or a wager multiplies the unit a hit pays, and a wager    *)
(* turns the nothing a miss pays into a unit lost.  settings.flights is    *)
(* chosen when a game starts, as the lobby form does.                      *)
(*                                                                         *)
(* start() asks for players, never for a phase: a late reply to a mint     *)
(* puts the lobby page over a running game, and its buttons start another. *)
(***************************************************************************)
EXTENDS Integers, FiniteSets

CONSTANTS
  Phone,       \* connection ids, each minted once by the relay
  Mode,        \* the modes on the lobby screen
  Option,      \* the lines of an item
  Truth,       \* the handbook line
  NoOption,    \* an absent answer
  Blank,       \* a flight's answer when the clock ran out without one
  Cap,         \* eight players can score
  FlightMax,   \* four flights at most
  BreakEvery,  \* lightning breaks every five prompts
  DeckMax,     \* bound on the deck length
  MaxStarts    \* bound on the games played in one room

Individual == {"boards", "hotwash", "lightning", "sjt"}
Quiz == {"boards", "hotwash", "lightning", "teams"}  \* the modes that deal bank.questions

ASSUME PartyAssumption ==
  /\ IsFiniteSet(Phone)
  /\ Mode \subseteq Individual \cup {"decoy", "teams"}
  /\ Truth \in Option
  /\ {NoOption, Blank} \cap Option = {}
  /\ NoOption # Blank
  /\ Cap \in Nat \ {0}
  /\ FlightMax \in Nat \ {0, 1}
  /\ BreakEvery \in Nat \ {0}
  /\ DeckMax \in Nat
  /\ MaxStarts \in Nat

VARIABLES
  seat,      \* position in game.players, 0 before the phone joins
  here,      \* phones with connected !== false
  audience,  \* phones flagged audience
  team,      \* p.team
  captain,   \* phones with p.captain
  score,     \* paid units
  combo,     \* lightning combo
  phase,
  mode,      \* modeId
  current,   \* the mode that dealt the item on show
  deck,      \* deck.length
  index,
  ask,       \* view.subphase, the subphase openCollect enters
  answers,   \* answers[player id]
  lock,      \* answers["team-" + flight]
  suggests,
  sponsors,  \* decoySponsors
  turn,      \* turnTeam
  result,    \* teamResult, unset until a first teams prompt
  timer,     \* the callback armed by _arm
  card,      \* interstitial; a start leaves a stale one behind
  starts     \* games started, for MaxStarts

roster == <<seat, here, audience>>
flights == <<team, captain>>
tally == <<score, combo>>
round == <<ask, answers, lock, suggests, sponsors, turn, result>>
clock == <<phase, timer, card>>
game == <<mode, current, deck, index, starts>>
vars == <<roster, flights, tally, round, clock, game>>

Flight == 0 .. FlightMax - 1
NoTeam == -1                    \* null on a player, undefined as turnTeam
Team == Flight \cup {NoTeam}
NoAnswers == [p \in Phone |-> NoOption]

-----------------------------------------------------------------------------
(* The roster. *)

Players == {p \in Phone : seat[p] # 0}
Active == {p \in here : p \notin audience}

\* The member of S that comes first in game.players.
First(S) == CHOOSE p \in S : \A q \in S : seat[p] <= seat[q]

\* ensureCaptains over the active players act: every flight with an active
\* member and no active captain gets its first member.
Members(act, tm, f) == {p \in act : tm[p] = f}
EnsureCaptains(act, tm, cap) ==
  LET bare == {f \in Flight : /\ Members(act, tm, f) # {}
                              /\ Members(act, tm, f) \cap cap = {}}
  IN cap \cup {First(Members(act, tm, f)) : f \in bare}

\* teamIds: the flights that still have an active member.
TeamIds == {f \in Flight : Members(Active, team, f) # {}}
LowestOf(S) == IF S = {} THEN NoTeam ELSE CHOOSE f \in S : \A g \in S : f <= g

Init ==
  /\ seat = [p \in Phone |-> 0] /\ here = {} /\ audience = {}
  /\ team = [p \in Phone |-> NoTeam] /\ captain = {}
  /\ score = [p \in Phone |-> 0] /\ combo = [p \in Phone |-> 0]
  /\ phase = "lobby" /\ timer = "none" /\ card = "none"
  /\ mode = "none" /\ current = "none" /\ deck = 0 /\ index = -1 /\ starts = 0
  /\ ask = "none" /\ answers = NoAnswers /\ suggests = NoAnswers
  /\ lock = [f \in Team |-> NoOption] /\ sponsors = NoAnswers
  /\ turn = 0 /\ result = [f \in Team |-> "unset"]

AddPlayerOneOver(p, wantsAudience) ==  \* mutant: > for >= in the cap
  /\ seat[p] = 0
  /\ seat' = [seat EXCEPT ![p] = Cardinality(Players) + 1]
  /\ here' = here \cup {p}
  /\ audience' = IF wantsAudience \/ phase # "lobby" \/ Cardinality(Active) > Cap
                 THEN audience \cup {p} ELSE audience
  /\ UNCHANGED <<flights, tally, round, clock, game>>

\* joined(p): a phone's first hello.  It watches if it asked to, if the game
\* is under way, or if Cap players already score.
AddPlayer(p, wantsAudience) ==
  /\ seat[p] = 0
  /\ seat' = [seat EXCEPT ![p] = Cardinality(Players) + 1]
  /\ here' = here \cup {p}
  /\ audience' = IF \/ wantsAudience
                    \/ phase # "lobby"
                    \/ Cardinality(Active) >= Cap
                 THEN audience \cup {p} ELSE audience
  /\ UNCHANGED <<flights, tally, round, clock, game>>

DropPlayerLeaderless(p) ==  \* mutant: ensureCaptains is not called
  /\ p \in here
  /\ here' = here \ {p}
  /\ UNCHANGED <<captain, seat, audience, team, tally, round, clock, game>>

\* left(p): the flight may need a new captain; completeness is not re-checked.
DropPlayer(p) ==
  /\ p \in here
  /\ here' = here \ {p}
  /\ captain' = EnsureCaptains(Active \ {p}, team, captain)
  /\ UNCHANGED <<seat, audience, team, tally, round, clock, game>>

-----------------------------------------------------------------------------
(* Opening a prompt. *)

\* What openPrompt clears before the mode presents the item.
Clear == answers' = NoAnswers /\ suggests' = NoAnswers /\ lock' = [f \in Team |-> NoOption]

\* present in teams: the first flight goes first.
FirstTurn(tm) ==
  /\ turn' = LowestOf({f \in Flight : Members(Active, tm, f) # {}})
  /\ result' = [f \in Team |-> "none"]

\* openPrompt in mode m with the flights tm; present chooses the subphase.
OpenPrompt(m, tm) ==
  /\ phase' = "prompt" /\ timer' = "open" /\ current' = m
  /\ Clear
  /\ ask' = CASE m = "teams" -> "huddle"
              [] m = "sjt" -> "rank"
              [] m = "decoy" /\ Cardinality(Active) > 1 -> "sponsor"
              [] OTHER -> "answer"
  /\ sponsors' = IF m = "decoy" THEN NoAnswers ELSE sponsors
  /\ IF m = "teams" THEN FirstTurn(tm) ELSE UNCHANGED <<turn, result>>

\* openPrompt after a break whose deck a refused start has emptied: present
\* throws on the missing item, before any timer is armed.
OpenNothing ==
  /\ phase' = "prompt" /\ timer' = "none" /\ current' = "none"
  /\ Clear
  /\ IF mode = "teams" THEN FirstTurn(team) ELSE UNCHANGED <<turn, result>>
  /\ UNCHANGED <<ask, sponsors>>

Finish ==
  /\ phase' = "results" /\ timer' = "none" /\ card' = "none"
  /\ UNCHANGED <<round, current>>

Break ==
  /\ phase' = "interstitial" /\ timer' = "break" /\ card' = "break"
  /\ UNCHANGED <<round, current>>

\* nextRound, the interstitial being c: the deck may be over, or lightning
\* may be due a break.
NextRound(c) ==
  /\ index' = index + 1
  /\ IF index' >= deck
     THEN Finish
     ELSE IF mode = "lightning" /\ index' > 0 /\ index' % BreakEvery = 0
     THEN Break
     ELSE OpenPrompt(mode, team) /\ card' = c

DealtFromOne(n) ==  \* mutant: flights counted from one
  [p \in Phone |-> IF p \in Active
     THEN (Cardinality({q \in Active : seat[q] < seat[p]}) % n) + 1
     ELSE team[p]]

\* assignTeams deals the active players round the flights in seat order.
Dealt(n) ==
  [p \in Phone |-> IF p \in Active
     THEN Cardinality({q \in Active : seat[q] < seat[p]}) % n
     ELSE team[p]]

\* start, up to buildDeck, in whatever phase; only a hot wash keeps the scores.
Prepare(m, n) ==
  /\ starts < MaxStarts
  /\ Cardinality(Active) >= IF m = "teams" THEN 2 ELSE 1
  /\ starts' = starts + 1
  /\ mode' = m
  /\ IF m = "hotwash"
     THEN UNCHANGED tally
     ELSE score' = [p \in Phone |-> 0] /\ combo' = [p \in Phone |-> 0]
  /\ IF m = "teams"
     THEN /\ team' = Dealt(IF n < Cardinality(Active) THEN n ELSE Cardinality(Active))
          /\ captain' = EnsureCaptains(Active, team', captain \ Active)
     ELSE /\ team' = [p \in Phone |-> IF p \in Active THEN NoTeam ELSE team[p]]
          /\ captain' = captain \ Active

\* start: nextRound opens prompt 0, no break is due there.
Start(m, n, d) ==
  /\ Prepare(m, n)
  /\ d \in 1 .. DeckMax
  /\ deck' = d /\ index' = 0
  /\ OpenPrompt(m, team')
  /\ UNCHANGED <<roster, card>>

\* start refused after buildDeck found no question on this track: what was set
\* stays set, and the prompt on show goes on with it.  begin() turns a decoy
\* game without items away itself, and sjt falls back on the whole bank.
StartEmpty(m, n) ==
  /\ m \in Quiz
  /\ Prepare(m, n)
  /\ deck' = 0
  /\ UNCHANGED <<roster, round, clock, index, current>>

ToLobbyTimerLeft ==  \* mutant: _clearTimer is not called
  /\ phase # "lobby"
  /\ phase' = "lobby" /\ card' = "none"
  /\ mode' = "none" /\ current' = "none" /\ deck' = 0 /\ index' = -1
  /\ ask' = "none"
  /\ UNCHANGED <<timer, roster, flights, tally, answers, lock, suggests, sponsors,
                 turn, result, starts>>

ToLobby ==
  /\ phase # "lobby"
  /\ phase' = "lobby" /\ timer' = "none" /\ card' = "none"
  /\ mode' = "none" /\ current' = "none" /\ deck' = 0 /\ index' = -1
  /\ ask' = "none"
  /\ UNCHANGED <<roster, flights, tally, answers, lock, suggests, sponsors,
                 turn, result, starts>>

\* openCollect, entering subphase s.
OpenCollect(s) == phase' = "collect" /\ timer' = "collect" /\ ask' = s

-----------------------------------------------------------------------------
(* Scoring.  Reveal pays every phone p by gain[p] units. *)

RevealWaits(gain) ==  \* mutant: the lightning reveal does not advance by itself
  /\ score' = [p \in Phone |-> score[p] + gain[p]]
  /\ phase' = "reveal" /\ timer' = "none"

Reveal(gain) ==
  /\ score' = [p \in Phone |-> score[p] + gain[p]]
  /\ phase' = "reveal"
  /\ timer' = IF mode = "lightning" THEN "auto" ELSE "none"

\* Is the choice o the handbook line?  A question mode finds the answer only
\* in an item of its own bank.
Right(o) == o = Truth /\ (mode \in Quiz => current \in Quiz)

\* What an active player's answer may pay.  Without one nothing is at stake; a
\* ranking can be half right; any other miss costs what was wagered with it.
Pay(a, p) ==
  CASE p \notin Active \/ a[p] = NoOption -> {0}
    [] p \in Active /\ a[p] # NoOption /\ Right(a[p]) -> {1}
    [] OTHER -> IF mode = "sjt" THEN {0, 1} ELSE {-1, 0}
Payments(a) == {pay \in [Phone -> {-1, 0, 1}] : \A p \in Phone : pay[p] \in Pay(a, p)}

\* boards, hotwash, lightning, sjt.
ScoreIndividual(a) ==
  LET hit == {p \in Active : Right(a[p])}
  IN /\ \E pay \in Payments(a) : Reveal(pay)
     /\ combo' = IF mode = "lightning"
                 THEN [p \in Phone |-> CASE p \in hit -> combo[p] + 1
                                         [] p \in Active \ hit -> 0
                                         [] OTHER -> combo[p]]
                 ELSE combo
     /\ answers' = a
     /\ UNCHANGED <<ask, lock, suggests, sponsors, turn, result>>

\* decoy: the vote, and one unit per other voter a sponsor fooled.  A sponsor
\* who has left is still paid, as deltas go to every entry of players.
Fooled(a, p) == {v \in Active \ {p} : sponsors[p] # NoOption /\ a[v] = sponsors[p]}

ScoreDecoy(a) ==
  /\ \E pay \in Payments(a) : Reveal([p \in Phone |-> pay[p] + Cardinality(Fooled(a, p))])
  /\ answers' = a
  /\ UNCHANGED <<combo, ask, lock, suggests, sponsors, turn, result>>

ScoreTeamsBackwards(l) ==  \* mutant: any other flight may steal
  LET ok == Right(l[turn])
      others == TeamIds \ {turn}
      steal == ~ok /\ turn \in TeamIds /\ others # {}
  IN /\ result' = [result EXCEPT ![turn] = IF ok THEN "hit" ELSE "miss"]
     /\ lock' = l
     /\ IF steal
        THEN turn' = LowestOf(others) /\ OpenCollect("steal") /\ UNCHANGED score
        ELSE /\ Reveal([p \in Phone |->
                          IF ok /\ p \in Active /\ team[p] = turn THEN 1 ELSE 0])
             /\ UNCHANGED <<turn, ask>>
     /\ UNCHANGED <<combo, answers, suggests, sponsors>>

\* Before the page's first teams prompt there is no teamResult to write to:
\* score throws, after scoreRound has cleared the timer.
ScoreTeamsThrows(l) ==
  /\ lock' = l /\ timer' = "none"
  /\ UNCHANGED <<tally, phase, ask, answers, suggests, sponsors, turn, result>>

\* teams: a hit pays the flight at turn; a miss passes the turn to the next
\* flight that still has a player, if the flight at turn still has one too.
ScoreTeams(l) ==
  LET ok == Right(l[turn])
      later == {f \in TeamIds : f > turn}
      steal == ~ok /\ turn \in TeamIds /\ later # {}
  IN IF result[turn] = "unset" THEN ScoreTeamsThrows(l)
     ELSE
     /\ result' = [result EXCEPT ![turn] = IF ok THEN "hit" ELSE "miss"]
     /\ lock' = l
     /\ IF steal
        THEN /\ turn' = LowestOf(later)
             /\ OpenCollect("steal")
             /\ UNCHANGED score
        ELSE /\ Reveal([p \in Phone |->
                          IF ok /\ p \in Active /\ team[p] = turn THEN 1 ELSE 0])
             /\ UNCHANGED <<turn, ask>>
     /\ UNCHANGED <<combo, answers, suggests, sponsors>>

EnterVoteKeepsTaps(a) ==  \* mutant: answers are not cleared for the vote
  /\ sponsors' = [p \in Phone |-> IF p \in Active THEN a[p] ELSE NoOption]
  /\ answers' = a
  /\ OpenCollect("vote")
  /\ UNCHANGED <<tally, lock, suggests, turn, result>>

\* enterVote: the sponsored decoys are set aside and the vote opens.
EnterVote(a) ==
  /\ sponsors' = [p \in Phone |-> IF p \in Active THEN a[p] ELSE NoOption]
  /\ answers' = NoAnswers
  /\ OpenCollect("vote")
  /\ UNCHANGED <<tally, lock, suggests, turn, result>>

-----------------------------------------------------------------------------
(* receive: ingest one act, then ask the mode whether everyone is in.  An   *)
(* act the mode rejects still runs that second half.                        *)

Collecting(p) ==
  /\ phase = "collect" /\ p \in here
  /\ UNCHANGED <<roster, flights, card, game>>

AllIn(a) == Active # {} /\ \A p \in Active : a[p] # NoOption

\* Stay in collect with the answers a.
Wait(a) ==
  /\ answers' = a
  /\ UNCHANGED <<tally, phase, timer, ask, lock, suggests, sponsors, turn, result>>

\* A first choice sticks, except in sjt where a ranking may be replaced.
Choose(p, o) ==
  /\ Collecting(p) /\ mode \in Individual
  /\ LET a == IF p \in Active /\ (mode = "sjt" \/ answers[p] = NoOption)
              THEN [answers EXCEPT ![p] = o] ELSE answers
     IN IF AllIn(a) THEN ScoreIndividual(a) ELSE Wait(a)

Sponsor(p, o) ==
  /\ Collecting(p) /\ mode = "decoy" /\ ask = "sponsor"
  /\ LET a == IF p \in Active /\ answers[p] = NoOption /\ o # Truth
              THEN [answers EXCEPT ![p] = o] ELSE answers
     IN IF AllIn(a) THEN EnterVote(a) ELSE Wait(a)

\* A vote for one's own sponsored decoy is refused.
Vote(p, o) ==
  /\ Collecting(p) /\ mode = "decoy" /\ ask \in {"vote", "answer"}
  /\ LET a == IF p \in Active /\ answers[p] = NoOption /\ o # sponsors[p]
              THEN [answers EXCEPT ![p] = o] ELSE answers
     IN IF AllIn(a) THEN ScoreDecoy(a) ELSE Wait(a)

OnTurn(p) == p \in Active /\ team[p] = turn

\* Anyone of the flight at turn suggests; nothing completes, for a lock is
\* scored in the step that makes it, or cannot be.
Suggest(p, o) ==
  /\ Collecting(p) /\ mode = "teams" /\ OnTurn(p)
  /\ suggests' = [suggests EXCEPT ![p] = o]
  /\ UNCHANGED <<tally, phase, timer, ask, answers, lock, sponsors, turn, result>>

LockAnswer(p, o) ==
  /\ Collecting(p) /\ mode = "teams" /\ OnTurn(p) /\ p \in captain
  /\ lock[turn] = NoOption
  /\ ScoreTeams([lock EXCEPT ![turn] = o])

-----------------------------------------------------------------------------
(* Timers. *)

\* suggestionsFor: the option most of the flight suggests; among equals, the
\* one suggested by the member seated first.
Backers(o) == {p \in Members(Active, team, turn) : suggests[p] = o}
Suggested ==
  LET best == {o \in Option : /\ Backers(o) # {}
                              /\ \A x \in Option : Cardinality(Backers(x)) <= Cardinality(Backers(o))}
  IN IF best = {} \/ turn = NoTeam THEN Blank
     ELSE CHOOSE o \in best : First(UNION {Backers(x) : x \in best}) \in Backers(o)

PromptRead ==
  /\ timer = "open"
  /\ OpenCollect(ask)
  /\ UNCHANGED <<roster, flights, tally, answers, lock, suggests, sponsors, turn,
                 result, card, game>>

TimeUp ==
  /\ timer = "collect" /\ phase = "collect"
  /\ CASE mode \in Individual -> ScoreIndividual(answers)
       [] mode = "decoy" -> IF ask = "sponsor" THEN EnterVote(answers)
                                               ELSE ScoreDecoy(answers)
       [] mode = "teams" -> ScoreTeams(IF lock[turn] = NoOption
                                       THEN [lock EXCEPT ![turn] = Suggested]
                                       ELSE lock)
  /\ UNCHANGED <<roster, flights, card, game>>

EndBreak ==
  /\ IF deck = 0 THEN OpenNothing ELSE OpenPrompt(mode, team)
  /\ card' = "none"
  /\ UNCHANGED <<roster, flights, tally, mode, deck, index, starts>>

BreakOver == timer = "break" /\ EndBreak

AutoAdvance ==
  /\ timer = "auto" /\ phase = "reveal"
  /\ NextRound(card)
  /\ UNCHANGED <<roster, flights, tally, mode, deck, starts>>

-----------------------------------------------------------------------------
(* advance: the host's Next and Skip. *)

SkipBreak == phase = "interstitial" /\ card = "break" /\ EndBreak

SkipDareRepeats ==  \* mutant: the prompt before the dare is opened again
  /\ phase = "interstitial" /\ card = "dare"
  /\ OpenPrompt(mode, team) /\ card' = "none"
  /\ UNCHANGED <<roster, flights, tally, mode, deck, index, starts>>

SkipDare ==
  /\ phase = "interstitial" /\ card = "dare"
  /\ NextRound("none")
  /\ UNCHANGED <<roster, flights, tally, mode, deck, starts>>

\* A dare may come up between two prompts, never in lightning.
DrawDare ==
  /\ phase = "reveal" /\ mode # "lightning" /\ index < deck - 1
  /\ phase' = "interstitial" /\ timer' = "none" /\ card' = "dare"
  /\ UNCHANGED <<roster, flights, tally, round, game>>

NextItem ==
  /\ phase = "reveal"
  /\ NextRound(card)
  /\ UNCHANGED <<roster, flights, tally, mode, deck, starts>>

-----------------------------------------------------------------------------
PhoneStep ==
  \E p \in Phone :
    \/ \E w \in BOOLEAN : AddPlayer(p, w)
    \/ DropPlayer(p)
    \/ \E o \in Option : \/ Choose(p, o)
                         \/ Sponsor(p, o)
                         \/ Vote(p, o)
                         \/ Suggest(p, o)
                         \/ LockAnswer(p, o)

HostStep ==
  \/ \E m \in Mode, n \in 2 .. FlightMax :
       \/ \E d \in 1 .. DeckMax : Start(m, n, d)
       \/ StartEmpty(m, n)
  \/ ToLobby
  \/ SkipBreak
  \/ SkipDare
  \/ DrawDare
  \/ NextItem

TimerStep == PromptRead \/ TimeUp \/ BreakOver \/ AutoAdvance

Next == PhoneStep \/ HostStep \/ TimerStep

\* setTimeout callbacks run while the TV's tab is open; nobody has to answer
\* and no host has to press a button.
Fairness == WF_vars(TimerStep)

Spec == Init /\ [][Next]_vars
FairSpec == Spec /\ Fairness
-----------------------------------------------------------------------------
(* Properties. *)

\* Every variable has its type.
TypeOK ==
  /\ seat \in [Phone -> Nat]
  /\ here \subseteq Phone /\ audience \subseteq Phone
  /\ team \in [Phone -> Team] /\ captain \subseteq Phone
  /\ score \in [Phone -> Int] /\ combo \in [Phone -> Nat]
  /\ phase \in {"lobby", "prompt", "collect", "reveal", "interstitial", "results"}
  /\ timer \in {"none", "open", "collect", "break", "auto"}
  /\ card \in {"none", "break", "dare"}
  /\ mode \in Mode \cup {"none"} /\ current \in Mode \cup {"none"}
  /\ deck \in Nat /\ index \in Int /\ starts \in Nat
  /\ ask \in {"none", "answer", "rank", "huddle", "steal", "sponsor", "vote"}
  /\ answers \in [Phone -> Option \cup {NoOption}]
  /\ suggests \in [Phone -> Option \cup {NoOption}]
  /\ sponsors \in [Phone -> Option \cup {NoOption}]
  /\ lock \in [Team -> Option \cup {NoOption, Blank}]
  /\ turn \in Team
  /\ result \in [Team -> {"unset", "none", "hit", "miss"}]

\* The one timer slot of _arm and _clearTimer never holds a callback for a
\* phase that is over, whatever was started over what.  As long as no start
\* was refused over a running game, a phase nobody has to click out of is not
\* left without its timer either, and the prompt on show is the mode's own.
TimerMatchesPhase ==
  /\ timer = "open" => phase = "prompt"
  /\ timer = "collect" => phase = "collect"
  /\ timer = "break" => phase = "interstitial" /\ card = "break"
  /\ timer = "auto" => phase = "reveal"
  /\ phase = "interstitial" => card # "none"
  /\ deck # 0 =>
       /\ phase = "prompt" => timer = "open"
       /\ phase = "collect" => timer = "collect"
       /\ phase = "interstitial" /\ card = "break" => timer = "break"
       /\ phase = "reveal" => (timer = "auto" <=> mode = "lightning")
       /\ phase # "results" => mode = current /\ index \in 0 .. deck - 1
  /\ phase \notin {"lobby", "results"} => mode # "none"

\* However phones come and go, a flight with a player in it has exactly one
\* captain among its players, so its answer can be locked and by one phone.
OneCaptain ==
  \A f \in Flight :
    Members(Active, team, f) # {} =>
      Cardinality(Members(Active, team, f) \cap captain) = 1

\* Nobody's vote ever rests on the decoy that player sponsored, whatever the
\* order in which sponsoring, the vote and late taps reach the host.
NoSelfVote ==
  mode = "decoy" /\ ask = "vote" =>
    \A p \in Phone : answers[p] # NoOption => answers[p] # sponsors[p]

\* Flights answer one prompt in turn: a flight gets its chance only after
\* every flight that answered before it missed, and at most one flight hits.
\* So it goes for every prompt that teams itself put up.
StealOrder ==
  (mode = "teams" /\ deck # 0 /\ phase \in {"prompt", "collect", "reveal"}) =>
    /\ \A f \in Team : result[f] # "none" => f <= turn
    /\ \A f \in Team : result[f] = "hit" => f = turn /\ phase = "reveal"
    /\ phase # "reveal" => result[turn] = "none" /\ lock[turn] = NoOption
    /\ (ask = "steal") => \E f \in Flight : f < turn /\ result[f] = "miss"

\* At most Cap phones score.  A phone flagged audience is never paid, never
\* answers and never leads a flight, in this game or a later one.
SpectatorsOnlyWatch ==
  /\ Cardinality(Active) <= Cap
  /\ \A p \in audience :
       /\ score[p] = 0 /\ team[p] = NoTeam /\ p \notin captain
       /\ answers[p] = NoOption /\ suggests[p] = NoOption /\ sponsors[p] = NoOption

\* Lightning plays itself: once a prompt of its deck is up, all of it is played to
\* the results without a button or an answer, unless the room goes to the
\* lobby or another game is started over it.
LightningRunsItself ==
  \A k \in 1 .. MaxStarts :
    (mode = "lightning" /\ deck # 0 /\ phase = "prompt" /\ starts = k)
      ~> (phase \in {"results", "lobby"} \/ starts # k)

(***************************************************************************)
(* What the game promises the room is QuizNight: the items of a game are   *)
(* asked in order, each is shown once, and an answer shown is the only     *)
(* thing that moves points, but for a start that clears them.              *)
(***************************************************************************)
running == phase \notin {"lobby", "results"}
stage == CASE phase = "lobby" -> "idle"
           [] phase \in {"prompt", "collect"} -> "asked"
           [] phase = "reveal" -> "shown"
           [] phase = "interstitial" -> IF card = "break" THEN "asked" ELSE "shown"
           [] OTHER -> "over"
item == IF phase = "results" THEN index ELSE index + 1

Night == INSTANCE QuizNight WITH points <- score, Gain <- -1 .. Cardinality(Phone),
                                 spoiled <- running /\ deck = 0

\* The game implements the quiz night, each question answered in the end.
QuizNightKept == Night!FairSpec
=============================================================================
