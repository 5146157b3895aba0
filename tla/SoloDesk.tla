------------------------------ MODULE SoloDesk ------------------------------
(***************************************************************************)
(* The big screen's page (web/js/host.js): Quiet Hours with its drills and *)
(* the mock test, the games played on this screen, the way into a party    *)
(* and back, and the study session (ui.session, ui.attempts) that all of   *)
(* them share and that finalizeSession rolls up.                           *)
(*                                                                         *)
(* Every handler ends in render(), and so does every change of the game    *)
(* (game.on): render collects a reveal's grades and closes the session     *)
(* when the game shows its results, whatever screen is up.  An answer is   *)
(* a number; a game's round is one answer.  Items, chapters, scores, SM-2  *)
(* grades and achievements are left out.                                   *)
(***************************************************************************)
EXTENDS Integers

CONSTANTS
  Relays,      \* where the page may come from: "lan" and "hosted"
  MaxAnswers,  \* bound on the answers given
  DeckSize,    \* cards in a drill: 15 in the code
  MockSlots,   \* items in a mock: 80 in the code
  MaxMints     \* bound on the room codes asked for and not answered

ASSUME DeskAssumption ==
  /\ Relays \subseteq {"lan", "hosted"}
  /\ MaxAnswers \in Nat /\ DeckSize \in Nat /\ MockSlots \in Nat /\ MaxMints \in Nat

VARIABLES
  relay,    \* hosted pages mint a room code and have accounts, LAN ones neither
  screen,   \* ui.screen
  party,    \* ui.party
  link,     \* the room's socket object is there
  minting,  \* room codes asked for and not answered
  drill,    \* ui.solo: cards left (0: no current card) and the side shown
  mock,     \* ui.mock: none, on or done, and its answers
  game,     \* the live game: phase, this round's answer, autoAdvance
  book,     \* ui.session, ui.attempts, ui.capturedKey, and what was rolled up
  demo,     \* PDG.account.demoOnly
  gate,     \* PDG.account.blocksPlay: the account page hides the desk
  phones,   \* somebody besides this screen's own seat can play
  given,    \* answers given so far
  covered   \* history: a room code came for a game that had begun without it

vars == <<relay, screen, party, link, minting, drill, mock, game, book,
          demo, gate, phones, given, covered>>

Answers == 1..MaxAnswers
Screens == {"attract", "about", "solo", "mock", "game", "lobby", "rollup", "decoy-empty"}
NoDrill == [left |-> 0, side |-> "front"]
NoMock == [is |-> "none", answers |-> 0]
Idle(phase) == [phase |-> phase, answer |-> 0, auto |-> FALSE]

-----------------------------------------------------------------------------
(* The session.  mode "none" is ui.session = null. *)

NoSession(b) == [b EXCEPT !.mode = "none", !.open = FALSE]
OpenSession(b, mode) ==
  [b EXCEPT !.mode = mode, !.open = TRUE, !.attempts = {}, !.captured = FALSE, !.cut = FALSE]

(* finalizeSession; a session is rolled up once. *)
Finalize(b) ==
  IF b.open
  THEN [b EXCEPT !.open = FALSE, !.stats = TRUE, !.rolled = @ \cup b.attempts]
  ELSE b

LeaveOpen(b) == b  \* mutant: work left behind is not rolled up

(* if (session && !closed && attempts.length) finalizeSession() *)
FinalizeWork(b) == IF b.open /\ b.attempts # {} THEN Finalize(b) ELSE b

(* An attempt is noted whether or not a session is there to hold it. *)
Attempt(b, a) ==
  [b EXCEPT !.attempts = @ \cup {a}, !.stray = IF b.open THEN @ ELSE @ \cup {a}]

CaptureReveal(b, g) ==
  IF g.phase = "reveal" /\ ~b.captured
  THEN [Attempt(b, g.answer) EXCEPT !.captured = TRUE]
  ELSE b

(* render(): behind the gate it returns before it looks at the game. *)
Redraw(b, g) ==
  LET seen == CaptureReveal(b, g) IN
  IF g.phase = "results"
  THEN [Finalize(seen) EXCEPT !.cut = @ \/ (seen.open /\ seen.mode # "game")]
  ELSE seen
Render(b, g) == IF gate THEN b ELSE Redraw(b, g)

-----------------------------------------------------------------------------
(* screen(): the page on show, and the buttons each page has *)

Shown ==
  CASE gate -> "gate"
    [] ~gate /\ screen = "solo" -> IF drill.left > 0 THEN "card" ELSE "desk"
    [] ~gate /\ screen = "mock" ->
         CASE mock.is = "on" -> "mock" [] mock.is = "done" -> "rollup" [] OTHER -> "no-mock"
    [] ~gate /\ screen \in {"about", "decoy-empty", "rollup"} -> screen
    [] ~gate /\ screen \in {"attract", "game", "lobby"} ->
         CASE screen = "attract" \/ game.phase = "attract" -> "attract"
           [] screen # "attract" /\ game.phase # "attract" /\ "lobby" \in {screen, game.phase} -> "lobby"
           [] screen = "game" /\ game.phase = "results" -> "results"
           [] OTHER -> "stage"

HeaderButtons == {"mode-solo", "mode-party", "about"}
AttractButtons == {"solo", "host"}
AboutButtons == {"back"}
DeskKeepsChoices ==  \* mutant: the last card's choices stay on the desk
  {"due", "drill", "missed", "mock", "solo-game", "back", "data-choice", "data-q"}
DeskButtons == {"due", "drill", "missed", "mock", "solo-game", "back"}
CardButtons == {"data-choice", "data-q", "solo-stop"}
MockButtons == {"data-mock", "data-sjt", "back-solo"}
NoMockButtons == {"back"}
DecoyEmptyButtons == {"back-desk", "back"}
RollupButtons == {"quiet-block", "hot", "back-desk"}
ResultsButtons == {"hot", "quiet-block", "lobby"}
LobbyButtons == {"go-game", "go-demo"}
StageButtons == {"next", "skip"}

Buttons(page) ==
  CASE page = "attract" -> AttractButtons [] page = "about" -> AboutButtons
    [] page = "desk" -> DeskButtons       [] page = "card" -> CardButtons
    [] page = "mock" -> MockButtons       [] page = "no-mock" -> NoMockButtons
    [] page = "rollup" -> RollupButtons   [] page = "decoy-empty" -> DecoyEmptyButtons
    [] page = "results" -> ResultsButtons [] page = "lobby" -> LobbyButtons
    [] page = "stage" -> StageButtons

Clicks(id) == ~gate /\ id \in HeaderButtons \cup Buttons(Shown)

Init ==
  /\ relay \in Relays
  /\ screen \in {"attract", "solo"} /\ party = FALSE /\ link = FALSE /\ minting = 0
  /\ drill = NoDrill /\ mock = NoMock /\ game = Idle("attract")
  /\ book = [mode |-> "none", open |-> FALSE, attempts |-> {}, captured |-> FALSE,
             stats |-> FALSE, rolled |-> {}, stray |-> {}, cut |-> FALSE]
  /\ demo = FALSE
  /\ gate \in BOOLEAN /\ (gate => relay = "hosted")
  /\ phones = FALSE /\ given = 0 /\ covered = FALSE

-----------------------------------------------------------------------------
(* Into a party and back *)

ClosePartyLink == party' = FALSE /\ link' = FALSE

(* While a room is minted ui.party holds and the old screen stays in use. *)
EnterMultiplayer ==
  /\ Clicks("mode-party") \/ Clicks("host")
  /\ ~demo /\ ~party /\ minting < MaxMints
  /\ book' = IF book.open /\ book.attempts = {} THEN NoSession(book) ELSE FinalizeWork(book)
  /\ party' = TRUE /\ game' = Idle("lobby")
  /\ IF relay = "hosted" THEN minting' = minting + 1 /\ UNCHANGED <<screen, link>>
     ELSE screen' = "lobby" /\ link' = TRUE /\ UNCHANGED minting
  /\ UNCHANGED <<relay, drill, mock, demo, gate, phones, given, covered>>

DemoStaysSolo ==
  /\ Clicks("mode-party") /\ demo
  /\ screen' = "solo"
  /\ book' = Render(book, game)
  /\ UNCHANGED <<relay, party, link, minting, drill, mock, game, demo, gate, phones, given, covered>>

(* The code, or the failure to get one: both go to the lobby. *)
MintSettles ==
  /\ minting > 0 /\ minting' = minting - 1
  /\ link' \in IF party THEN {link, TRUE} ELSE {link}
  /\ screen' = IF party THEN "lobby" ELSE screen
  /\ covered' = (covered \/ (party /\ game.phase # "lobby"))
  /\ UNCHANGED <<relay, party, drill, mock, game, book, demo, gate, phones, given>>

(* joined and left, from the room's socket *)
RosterChanges ==
  /\ link /\ phones' \in BOOLEAN
  /\ UNCHANGED <<relay, screen, party, link, minting, drill, mock, game, book, demo, gate, given, covered>>

(* What a party left behind on the desk: the mock, the drill, or neither. *)
Left == IF mock.is = "on" THEN "mock" ELSE IF drill.left > 0 THEN "quiet" ELSE "none"

(* landSolo: the mock or the drill resumes under a session of its own. *)
LandWithoutSession(b) == b  \* mutant: the drill resumes in the session it left

LandSolo(b) == IF Left = "none" \/ (b.open /\ b.mode = Left) THEN b ELSE OpenSession(b, Left)

(* configure() redraws before toLobby() has left the party's last phase. *)
LeaveMultiplayer ==
  /\ Clicks("mode-solo") /\ party
  /\ LET ofParty == book.open /\ book.mode = "game"
         rolls == ofParty /\ book.attempts # {}
         done == IF rolls THEN Finalize(book) ELSE IF ofParty THEN NoSession(book) ELSE book
     IN /\ book' = Render(LandSolo(done), game)
        /\ screen' = IF Left = "mock" THEN "mock"
                     ELSE IF Left = "none" /\ rolls THEN "rollup" ELSE "solo"
  /\ ClosePartyLink /\ phones' = FALSE /\ game' = Idle("lobby")
  /\ UNCHANGED <<relay, minting, drill, mock, demo, gate, given, covered>>

Solo ==
  /\ Clicks("solo") /\ ~party
  /\ ClosePartyLink /\ screen' = "solo" /\ drill' = NoDrill
  /\ game' = [game EXCEPT !.phase = "attract"]
  /\ UNCHANGED <<relay, minting, mock, book, demo, gate, phones, given, covered>>

About ==
  /\ Clicks("about") /\ screen' = "about"
  /\ UNCHANGED <<relay, party, link, minting, drill, mock, game, book, demo, gate, phones, given, covered>>

Back ==
  /\ Clicks("back")
  /\ ClosePartyLink /\ screen' = "attract" /\ game' = Idle("lobby")
  /\ UNCHANGED <<relay, minting, drill, mock, book, demo, gate, phones, given, covered>>

-----------------------------------------------------------------------------
(* Quiet Hours *)

StartDrill ==
  /\ \E id \in {"due", "drill", "missed", "quiet-block"} : Clicks(id)
  /\ UNCHANGED <<relay, minting, mock, game, demo, gate, phones, given, covered>>
  /\ \E cards \in 0..DeckSize :
       /\ drill' = [left |-> cards, side |-> "front"]
       /\ book' = LET done == FinalizeWork(book) IN
                  Render(IF cards > 0 THEN OpenSession(done, "quiet") ELSE done, game)
  /\ ClosePartyLink /\ screen' = "solo"

PickChoice ==
  /\ Clicks("data-choice") /\ drill.side = "front"
  /\ drill' = [drill EXCEPT !.side = "back"]
  /\ UNCHANGED <<relay, screen, party, link, minting, mock, game, book, demo, gate, phones, given, covered>>

AdvanceQuiet ==
  /\ Clicks("data-q") /\ drill.side = "back" /\ given < MaxAnswers
  /\ given' = given + 1
  /\ UNCHANGED <<relay, party, link, minting, mock, game, demo, gate, phones, covered>>
  /\ drill' = [left |-> drill.left - 1, side |-> "front"]
  /\ LET noted == Attempt(book, given') IN
     IF drill.left = 1
     THEN screen' = "rollup" /\ book' = Render(Finalize(noted), game)
     ELSE book' = Render(noted, game) /\ UNCHANGED screen

SoloStop ==
  /\ Clicks("solo-stop")
  /\ UNCHANGED <<relay, party, link, minting, mock, game, demo, gate, phones, given, covered>>
  /\ LET done == IF book.attempts # {} THEN Finalize(book) ELSE book IN
     /\ screen' = IF done.stats THEN "rollup" ELSE "solo"
     /\ book' = Render(done, game)
  /\ drill' = NoDrill

StartMock ==
  /\ Clicks("mock") /\ ~demo
  /\ UNCHANGED <<relay, minting, game, demo, gate, phones, given, covered>>
  /\ ClosePartyLink
  /\ \/ /\ mock' = [is |-> "on", answers |-> 0] /\ screen' = "mock"
        /\ book' = Render(OpenSession(FinalizeWork(book), "mock"), game)
        /\ UNCHANGED drill
     \/ /\ screen' = "solo" /\ drill' = NoDrill  \* no items for this rank
        /\ book' = Render(FinalizeWork(book), game)
        /\ UNCHANGED mock

(* Unanswered slots are filled with blanks, so there is something to roll up. *)
FinishMock(b) ==
  /\ mock' = [is |-> "done", answers |-> MockSlots]
  /\ screen' = "rollup"
  /\ book' = Render(Finalize(b), game)

AnswerMock ==
  /\ Clicks("data-mock") \/ Clicks("data-sjt")
  /\ given < MaxAnswers
  /\ given' = given + 1
  /\ UNCHANGED <<relay, party, link, minting, drill, game, demo, gate, phones, covered>>
  /\ LET noted == Attempt(book, given') IN
     \/ FinishMock(noted)  \* the last item, or time is up
     \/ /\ mock.answers + 1 < MockSlots
        /\ mock' = [mock EXCEPT !.answers = @ + 1]
        /\ book' = Render(noted, game) /\ UNCHANGED screen

(* The 250 ms tick does not look at the gate. *)
MockTimeUp ==
  /\ screen = "mock" /\ mock.is = "on"
  /\ FinishMock(book)
  /\ UNCHANGED <<relay, party, link, minting, drill, game, demo, gate, phones, given, covered>>

StopMock ==
  /\ Clicks("back-solo")
  /\ IF book.attempts # {} THEN FinishMock(book) /\ UNCHANGED drill
     ELSE screen' = "solo" /\ drill' = NoDrill /\ mock' = NoMock /\ UNCHANGED book
  /\ UNCHANGED <<relay, party, link, minting, game, demo, gate, phones, given, covered>>

ToDesk == screen' = "solo" /\ drill' = NoDrill /\ mock' = NoMock

GoDesk ==
  /\ Clicks("back-desk") \/ (Clicks("lobby") /\ ~party)
  /\ ToDesk
  /\ UNCHANGED <<relay, party, link, minting, game, book, demo, gate, phones, given, covered>>

BackToLobby ==
  /\ Clicks("lobby") /\ party
  /\ screen' = "lobby" /\ game' = Idle("lobby")
  /\ UNCHANGED <<relay, party, link, minting, drill, mock, book, demo, gate, phones, given, covered>>

-----------------------------------------------------------------------------
(* Games *)

(* Hot Wash, the game of the results and rollup pages, finds items in every *)
(* bank; the others may be refused, Decoy and Flights before openSession.   *)
Begin(b, from, players) ==
  \/ /\ players
     /\ book' = OpenSession(b, "game") /\ screen' = "game"
     /\ \E auto \in BOOLEAN : game' = [Idle("play") EXCEPT !.auto = auto]
  \/ /\ ~Clicks("hot") /\ game' = from
     /\ \/ /\ book' = NoSession([b EXCEPT !.attempts = {}, !.captured = FALSE, !.cut = FALSE])
           /\ screen' \in {"decoy-empty",
                           IF screen = "game" THEN IF party' THEN "lobby" ELSE "solo" ELSE screen}
        \/ book' = b /\ screen' \in {screen, "decoy-empty"}

PlaySolo ==
  /\ Clicks("solo-game") \/ (Clicks("hot") /\ ~(party /\ phones))
  /\ ClosePartyLink /\ phones' = FALSE
  /\ Begin(FinalizeWork(book), Idle("lobby"), TRUE)
  /\ UNCHANGED <<relay, minting, drill, mock, demo, gate, given, covered>>

BeginParty ==
  /\ Clicks("go-game") \/ (Clicks("hot") /\ party /\ phones)
  /\ UNCHANGED <<party, link>>
  /\ Begin(book, game, phones)
  /\ UNCHANGED <<relay, minting, drill, mock, demo, gate, phones, given, covered>>

(* PDG.enterDemo *)
EnterDemo(b, g) ==
  /\ demo' = TRUE /\ ClosePartyLink /\ screen' = "solo" /\ drill' = NoDrill
  /\ book' = Redraw(b, g)

(* "3-minute brief": host.js begins a game under the id go-demo, and the   *)
(* account's binding of the same id then starts the demo.                  *)
BriefClick ==
  /\ Clicks("go-demo")
  /\ UNCHANGED <<relay, minting, mock, gate, phones, given, covered>>
  /\ \/ phones /\ game' = Idle("play") /\ EnterDemo(OpenSession(book, "game"), game')
     \/ UNCHANGED game /\ EnterDemo(NoSession([book EXCEPT !.attempts = {}]), game)

(* A round closes when all have answered or its time is up. *)
Reveal ==
  /\ game.phase = "play" /\ given < MaxAnswers
  /\ given' = given + 1
  /\ game' = [game EXCEPT !.phase = "reveal", !.answer = given']
  /\ book' = Render([book EXCEPT !.captured = FALSE,
                                 !.stray = IF gate THEN @ \cup {given'} ELSE @], game')
  /\ UNCHANGED <<relay, screen, party, link, minting, drill, mock, demo, gate, phones, covered>>

Advance ==
  /\ game.phase = "reveal" /\ (game.auto \/ Clicks("next"))
  /\ \E phase \in {"play", "results"} : game' = [game EXCEPT !.phase = phase]
  /\ book' = Render(book, game')
  /\ UNCHANGED <<relay, screen, party, link, minting, drill, mock, demo, gate, phones, given, covered>>

-----------------------------------------------------------------------------
(* The account's page in front of the desk (hosted pages only) *)

LogOut ==
  /\ relay = "hosted" /\ ~gate
  /\ gate' = TRUE /\ demo' = FALSE
  /\ UNCHANGED <<relay, screen, party, link, minting, drill, mock, game, book, phones, given, covered>>

LogIn ==  \* render() clears ui.party here and leaves the link open
  /\ gate /\ gate' = FALSE
  /\ party' = FALSE /\ screen' = "attract" /\ drill' = NoDrill /\ game' = Idle("lobby")
  /\ UNCHANGED <<relay, link, minting, mock, book, demo, phones, given, covered>>

TryDemo ==
  /\ gate /\ gate' = FALSE
  /\ EnterDemo(book, game)
  /\ UNCHANGED <<relay, minting, mock, game, phones, given, covered>>

LeavePreview ==
  /\ relay = "hosted" /\ ~gate /\ demo
  /\ demo' = FALSE
  /\ UNCHANGED <<relay, screen, party, link, minting, drill, mock, game, book, gate, phones, given, covered>>

-----------------------------------------------------------------------------

Next ==
  \/ EnterMultiplayer \/ DemoStaysSolo \/ MintSettles \/ RosterChanges \/ LeaveMultiplayer
  \/ Solo \/ About \/ Back
  \/ StartDrill \/ PickChoice \/ AdvanceQuiet \/ SoloStop
  \/ StartMock \/ AnswerMock \/ MockTimeUp \/ StopMock \/ GoDesk \/ BackToLobby
  \/ PlaySolo \/ BeginParty \/ BriefClick \/ Reveal \/ Advance
  \/ LogOut \/ LogIn \/ TryDemo \/ LeavePreview

Spec == Init /\ [][Next]_vars

-----------------------------------------------------------------------------

(* The types of the desk's state. *)
TypeOK ==
  /\ relay \in Relays /\ screen \in Screens
  /\ party \in BOOLEAN /\ link \in BOOLEAN /\ demo \in BOOLEAN /\ gate \in BOOLEAN
  /\ phones \in BOOLEAN /\ covered \in BOOLEAN
  /\ minting \in 0..MaxMints /\ given \in 0..MaxAnswers
  /\ drill \in [left : 0..DeckSize, side : {"front", "back"}]
  /\ mock \in [is : {"none", "on", "done"}, answers : Nat]
  /\ game \in [phase : {"attract", "lobby", "play", "reveal", "results"},
               answer : 0..MaxAnswers, auto : BOOLEAN]
  /\ book \in [mode : {"none", "game", "quiet", "mock"}, open : BOOLEAN,
               attempts : SUBSET Answers, captured : BOOLEAN, stats : BOOLEAN,
               rolled : SUBSET Answers, stray : SUBSET Answers, cut : BOOLEAN]

(* Every answer given is in the open session's attempts or has been rolled *)
(* up, but for those given when no session was open (or behind the         *)
(* account's page): no way around the desk, through a game, a party, the   *)
(* demo or the title, throws a session's work away (finalizeSession before *)
(* each openSession).  A room code that comes after its game has begun     *)
(* puts the lobby over it, and the next game drops the work.               *)
EveryAnswerKept ==
  covered \/ \A a \in 1..given :
                \/ a \in book.stray \/ a \in book.rolled
                \/ book.open /\ a \in book.attempts

(* A card or a mock item is on show only under an open session of its      *)
(* kind, so that its answer counts: unless a room is being minted, or the  *)
(* last game's results have closed the session (render at host.js:336).    *)
DeskHasASession ==
  \/ party /\ minting > 0
  \/ book.cut
  \/ /\ Shown = "card" => book.open /\ book.mode = "quiet"
     /\ Shown = "mock" => book.open /\ book.mode = "mock"

(* "Finish a session to build the rollup." (rollupBlock): a block's cards  *)
(* are on show only under a session that will count them.                  *)
BlockCardsCount == Shown = "card" => book.open
=============================================================================
