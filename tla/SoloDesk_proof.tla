---------------------------- MODULE SoloDesk_proof ----------------------------
(***************************************************************************)
(* Proofs about SoloDesk, for every bound on the answers, any length of a  *)
(* drill and a mock, and any number of room codes asked for at once.       *)
(***************************************************************************)
EXTENDS SoloDesk, TLAPS

-----------------------------------------------------------------------------
(* The session's record, and what its operators make of it. *)

Book == [mode : {"none", "game", "quiet", "mock"}, open : BOOLEAN,
         attempts : SUBSET Answers, captured : BOOLEAN, stats : BOOLEAN,
         rolled : SUBSET Answers, stray : SUBSET Answers, cut : BOOLEAN]
Game == [phase : {"attract", "lobby", "play", "reveal", "results"},
         answer : 0..MaxAnswers, auto : BOOLEAN]

Kept(b, a) == a \in b.stray \/ a \in b.rolled \/ (b.open /\ a \in b.attempts)
Keeps(b, c) == \A a \in Answers : Kept(b, a) => Kept(c, a)
Work(b) == b.open /\ b.attempts # {}

\* The session counts what is answered in mode, or the game's results cut it.
Sits(b, mode) == (b.open /\ b.mode = mode) \/ b.cut

LEMMA FinalizeKeeps ==
  ASSUME NEW b \in Book
  PROVE  /\ Finalize(b) \in Book /\ Keeps(b, Finalize(b))
         /\ ~Finalize(b).open /\ Finalize(b).mode = b.mode /\ Finalize(b).cut = b.cut
         /\ FinalizeWork(b) \in Book /\ Keeps(b, FinalizeWork(b))
         /\ ~Work(FinalizeWork(b)) /\ FinalizeWork(b).mode = b.mode
         /\ FinalizeWork(b).open => b.open
BY DEF Book, Finalize, FinalizeWork, Keeps, Kept, Work

LEMMA SessionOpens ==
  ASSUME NEW b \in Book, NEW mode \in {"game", "quiet", "mock"}
  PROVE  LET c == OpenSession(b, mode) IN
         /\ c \in Book /\ c.open /\ c.mode = mode /\ ~Work(c)
         /\ ~Work(b) => Keeps(b, c)
BY DEF Book, OpenSession, Keeps, Kept, Work

LEMMA SessionGoes ==
  ASSUME NEW b \in Book
  PROVE  LET c == NoSession(b)
             d == NoSession([b EXCEPT !.attempts = {}, !.captured = FALSE, !.cut = FALSE])
             e == NoSession([b EXCEPT !.attempts = {}])
         IN /\ c \in Book /\ d \in Book /\ e \in Book
            /\ ~c.open /\ ~d.open /\ ~e.open
            /\ c.cut = b.cut
            /\ ~Work(b) => Keeps(b, c) /\ Keeps(b, d) /\ Keeps(b, e)
BY DEF Book, NoSession, Keeps, Kept, Work

LEMMA AttemptCounts ==
  ASSUME NEW b \in Book, NEW a \in Answers
  PROVE  LET c == Attempt(b, a) IN
         /\ c \in Book /\ Keeps(b, c) /\ Kept(c, a)
         /\ c.open = b.open /\ c.mode = b.mode /\ c.cut = b.cut /\ c.attempts # {}
BY DEF Book, Attempt, Keeps, Kept

LEMMA CaptureCounts ==
  ASSUME NEW b \in Book, NEW g \in Game, g.phase = "reveal" => g.answer # 0
  PROVE  LET c == CaptureReveal(b, g) IN
         /\ c \in Book /\ Keeps(b, c)
         /\ g.phase = "reveal" /\ ~b.captured => Kept(c, g.answer)
         /\ c.open = b.open /\ c.mode = b.mode /\ c.cut = b.cut
         /\ g.phase # "reveal" => c = b
<1>1. CASE g.phase = "reveal" /\ ~b.captured
  <2> DEFINE d == Attempt(b, g.answer)
  <2>1. g.answer \in Answers
    BY <1>1 DEF Game, Answers
  <2>2. /\ d \in Book /\ Keeps(b, d) /\ Kept(d, g.answer)
        /\ d.open = b.open /\ d.mode = b.mode /\ d.cut = b.cut
    BY <2>1, AttemptCounts
  <2>3. CaptureReveal(b, g) = [d EXCEPT !.captured = TRUE]
    BY <1>1 DEF CaptureReveal
  <2> HIDE DEF d
  <2>4. QED BY <1>1, <2>2, <2>3 DEF Book, Keeps, Kept
<1>2. CASE ~(g.phase = "reveal" /\ ~b.captured)
  BY <1>2 DEF CaptureReveal, Keeps
<1>3. QED BY <1>1, <1>2

\* What a redraw leaves of the session: nothing answered is lost, results
\* close it, and one that is not a game's is marked as cut.
Redrawn(b, g, c) ==
  /\ c \in Book /\ Keeps(b, c)
  /\ g.phase = "reveal" /\ ~b.captured => Kept(c, g.answer)
  /\ c.open => b.open
  /\ c.mode = b.mode
  /\ g.phase = "results" => ~c.open
  /\ g.phase # "results" => c.open = b.open /\ c.cut = b.cut
  /\ b.cut => c.cut
  /\ b.open /\ b.mode # "game" => c.open \/ c.cut
  /\ g.phase \notin {"reveal", "results"} => c = b

LEMMA RedrawKeeps ==
  ASSUME NEW b \in Book, NEW g \in Game, g.phase = "reveal" => g.answer # 0
  PROVE  Redrawn(b, g, Redraw(b, g))
<1> DEFINE seen == CaptureReveal(b, g)
<1>1. /\ seen \in Book /\ Keeps(b, seen)
      /\ g.phase = "reveal" /\ ~b.captured => Kept(seen, g.answer)
      /\ seen.open = b.open /\ seen.mode = b.mode /\ seen.cut = b.cut
      /\ g.phase # "reveal" => seen = b
  BY CaptureCounts
<1>2. CASE g.phase = "results"
  <2> DEFINE done == Finalize(seen)
  <2>1. /\ done \in Book /\ Keeps(seen, done) /\ ~done.open
        /\ done.mode = seen.mode /\ done.cut = seen.cut
    BY <1>1, FinalizeKeeps
  <2>2. Redraw(b, g) = [done EXCEPT !.cut = @ \/ (seen.open /\ seen.mode # "game")]
    BY <1>2 DEF Redraw
  <2> HIDE DEF seen, done
  <2>3. QED BY <1>1, <1>2, <2>1, <2>2 DEF Redrawn, Book, Keeps, Kept
<1>3. CASE g.phase # "results"
  <2>1. Redraw(b, g) = seen
    BY <1>3 DEF Redraw
  <2> HIDE DEF seen
  <2>2. QED BY <1>1, <1>3, <2>1 DEF Redrawn
<1>4. QED BY <1>2, <1>3

LEMMA RenderKeeps ==
  ASSUME NEW b \in Book, NEW g \in Game, g.phase = "reveal" => g.answer # 0, gate \in BOOLEAN
  PROVE  /\ gate => Render(b, g) = b
         /\ ~gate => Redrawn(b, g, Render(b, g))
BY RedrawKeeps DEF Render

-----------------------------------------------------------------------------
(* Which page is up, and what can be clicked on it. *)

LEMMA Pages ==
  ASSUME TypeOK, ~gate
  PROVE  /\ Shown = "card" <=> screen = "solo" /\ drill.left > 0
         /\ Shown = "desk" <=> screen = "solo" /\ drill.left = 0
         /\ Shown = "mock" <=> screen = "mock" /\ mock.is = "on"
         /\ Shown = "rollup" <=> screen = "rollup" \/ (screen = "mock" /\ mock.is = "done")
         /\ Shown = "decoy-empty" <=> screen = "decoy-empty"
         /\ Shown = "results" <=> screen = "game" /\ game.phase = "results"
         /\ Shown = "lobby" <=> /\ screen = "lobby" \/ (screen = "game" /\ game.phase = "lobby")
                                /\ game.phase # "attract"
         /\ Shown = "attract" <=> \/ screen = "attract"
                                  \/ screen \in {"game", "lobby"} /\ game.phase = "attract"
         /\ Shown \in {"attract", "about", "desk", "card", "mock", "no-mock", "rollup",
                       "decoy-empty", "results", "lobby", "stage"}
<1>1. /\ screen \in Screens /\ drill.left \in Nat /\ mock.is \in {"none", "on", "done"}
      /\ game.phase \in {"attract", "lobby", "play", "reveal", "results"}
  BY DeskAssumption DEF TypeOK
<1>2. CASE screen = "solo"
  <2>1. Shown = IF drill.left > 0 THEN "card" ELSE "desk"
    BY <1>2 DEF Shown
  <2>2. QED BY <1>1, <1>2, <2>1
<1>3. CASE screen = "mock"
  <2>1. Shown = CASE mock.is = "on" -> "mock" [] mock.is = "done" -> "rollup" [] OTHER -> "no-mock"
    BY <1>3 DEF Shown
  <2>2. QED BY <1>1, <1>3, <2>1
<1>4. CASE screen \in {"about", "decoy-empty", "rollup"}
  <2>1. Shown = screen
    BY <1>4 DEF Shown
  <2>2. QED BY <1>1, <1>4, <2>1
<1>5. CASE screen \in {"attract", "game", "lobby"}
  <2>1. Shown = CASE screen = "attract" \/ game.phase = "attract" -> "attract"
                  [] screen # "attract" /\ game.phase # "attract" /\ "lobby" \in {screen, game.phase} -> "lobby"
                  [] screen = "game" /\ game.phase = "results" -> "results"
                  [] OTHER -> "stage"
    BY <1>5 DEF Shown
  <2>2. QED BY <1>1, <1>5, <2>1
<1>6. QED BY <1>1, <1>2, <1>3, <1>4, <1>5 DEF Screens

LEMMA ButtonPages ==
  ASSUME TypeOK
  PROVE  /\ \A id : Clicks(id) => ~gate
         /\ Clicks("solo") => Shown = "attract"
         /\ \A id \in {"due", "drill", "missed", "mock", "solo-game"} : Clicks(id) => Shown = "desk"
         /\ \A id \in {"quiet-block", "hot"} : Clicks(id) => Shown \in {"rollup", "results"}
         /\ \A id \in {"data-choice", "data-q", "solo-stop"} : Clicks(id) => Shown = "card"
         /\ \A id \in {"data-mock", "data-sjt", "back-solo"} : Clicks(id) => Shown = "mock"
         /\ Clicks("back-desk") => Shown \in {"rollup", "decoy-empty"}
         /\ Clicks("lobby") => Shown = "results"
         /\ \A id \in {"go-game", "go-demo"} : Clicks(id) => Shown = "lobby"
<1> SUFFICES ASSUME ~gate
             PROVE  /\ Clicks("solo") => Shown = "attract"
                    /\ \A id \in {"due", "drill", "missed", "mock", "solo-game"} : Clicks(id) => Shown = "desk"
                    /\ \A id \in {"quiet-block", "hot"} : Clicks(id) => Shown \in {"rollup", "results"}
                    /\ \A id \in {"data-choice", "data-q", "solo-stop"} : Clicks(id) => Shown = "card"
                    /\ \A id \in {"data-mock", "data-sjt", "back-solo"} : Clicks(id) => Shown = "mock"
                    /\ Clicks("back-desk") => Shown \in {"rollup", "decoy-empty"}
                    /\ Clicks("lobby") => Shown = "results"
                    /\ \A id \in {"go-game", "go-demo"} : Clicks(id) => Shown = "lobby"
  BY DEF Clicks
<1>1. Shown \in {"attract", "about", "desk", "card", "mock", "no-mock", "rollup",
                 "decoy-empty", "results", "lobby", "stage"}
  BY Pages
<1> DEFINE On(id, pages) == Clicks(id) => Shown \in pages
<1> USE <1>1 DEF Clicks, Buttons, HeaderButtons, AttractButtons, AboutButtons, DeskButtons, CardButtons,
     MockButtons, NoMockButtons, DecoyEmptyButtons, RollupButtons, ResultsButtons, LobbyButtons,
     StageButtons
<1>2. On("solo", {"attract"}) /\ On("back-desk", {"rollup", "decoy-empty"}) /\ On("lobby", {"results"})
  OBVIOUS
<1>3. On("due", {"desk"}) /\ On("drill", {"desk"}) /\ On("missed", {"desk"})
      /\ On("mock", {"desk"}) /\ On("solo-game", {"desk"})
  OBVIOUS
<1>4. On("quiet-block", {"rollup", "results"}) /\ On("hot", {"rollup", "results"})
  OBVIOUS
<1>5. On("data-choice", {"card"}) /\ On("data-q", {"card"}) /\ On("solo-stop", {"card"})
  OBVIOUS
<1>6. On("data-mock", {"mock"}) /\ On("data-sjt", {"mock"}) /\ On("back-solo", {"mock"})
  OBVIOUS
<1>7. On("go-game", {"lobby"}) /\ On("go-demo", {"lobby"})
  OBVIOUS
<1> HIDE <1>1 DEF Clicks
<1>8. QED BY <1>2, <1>3, <1>4, <1>5, <1>6, <1>7

-----------------------------------------------------------------------------
(* Types.  An answer on show is one that was given, which types what a redraw *)
(* notes.                                                                     *)

AnswerShown == game.phase = "reveal" => game.answer # 0
TypeInv == TypeOK /\ AnswerShown

Drills == [left : 0..DeckSize, side : {"front", "back"}]
Mocks == [is : {"none", "on", "done"}, answers : Nat]

LEMMA TypeGroups ==
  /\ TypeOK <=> /\ relay \in Relays /\ screen \in Screens
                /\ party \in BOOLEAN /\ link \in BOOLEAN /\ demo \in BOOLEAN /\ gate \in BOOLEAN
                /\ phones \in BOOLEAN /\ covered \in BOOLEAN
                /\ minting \in 0..MaxMints /\ given \in 0..MaxAnswers
                /\ drill \in Drills /\ mock \in Mocks /\ game \in Game /\ book \in Book
  /\ TypeOK' <=> /\ relay' \in Relays /\ screen' \in Screens
                 /\ party' \in BOOLEAN /\ link' \in BOOLEAN /\ demo' \in BOOLEAN /\ gate' \in BOOLEAN
                 /\ phones' \in BOOLEAN /\ covered' \in BOOLEAN
                 /\ minting' \in 0..MaxMints /\ given' \in 0..MaxAnswers
                 /\ drill' \in Drills /\ mock' \in Mocks /\ game' \in Game /\ book' \in Book
BY DEF TypeOK, Drills, Mocks, Game, Book

LEMMA IdleGames ==
  /\ \A phase \in {"attract", "lobby", "play"} :
       Idle(phase) \in Game /\ Idle(phase).phase = phase /\ Idle(phase).answer = 0
  /\ \A g \in Game : \A phase \in {"attract", "play", "results"} :
       [g EXCEPT !.phase = phase] \in Game
  /\ NoDrill \in Drills /\ NoMock \in Mocks
BY DeskAssumption DEF Idle, Game, NoDrill, NoMock, Drills, Mocks

\* The work done before another session, and the redraw after it.
LEMMA RenderType ==
  ASSUME TypeInv, NEW b \in Book
  PROVE  /\ Render(b, game) \in Book
         /\ Redraw(b, game) \in Book
         /\ \A phase \in {"lobby", "play", "results"} :
              Redraw(b, Idle(phase)) \in Book /\ Render(b, Idle(phase)) \in Book
<1>1. game \in Game /\ gate \in BOOLEAN
  BY TypeGroups DEF TypeInv
<1>2. Redraw(b, game) \in Book
  BY <1>1, RedrawKeeps DEF TypeInv, AnswerShown, Redrawn
<1>3. ASSUME NEW phase \in {"lobby", "play", "results"}
      PROVE  Redraw(b, Idle(phase)) \in Book
  <2>1. Idle(phase) \in Game /\ Idle(phase).phase # "reveal"
    BY DeskAssumption DEF Idle, Game
  <2>2. QED BY <2>1, RedrawKeeps DEF Redrawn
<1>4. QED BY <1>2, <1>3 DEF Render

LEMMA TypeInit == Init => TypeInv
<1> SUFFICES ASSUME Init PROVE TypeInv
  OBVIOUS
<1>1. /\ book \in Book /\ game \in Game /\ game.phase # "reveal"
      /\ drill \in Drills /\ mock \in Mocks
  <2>1. book = [mode |-> "none", open |-> FALSE, attempts |-> {}, captured |-> FALSE,
                stats |-> FALSE, rolled |-> {}, stray |-> {}, cut |-> FALSE]
        /\ game = Idle("attract") /\ drill = NoDrill /\ mock = NoMock
    BY DEF Init
  <2>2. QED BY <2>1, IdleGames DEF Book
<1>2. minting \in 0..MaxMints /\ given \in 0..MaxAnswers /\ screen \in Screens
  BY DeskAssumption DEF Init, Screens
<1>3. QED BY <1>1, <1>2, TypeGroups DEF Init, TypeInv, AnswerShown

LEMMA PartyTypes ==
  ASSUME TypeInv,
         \/ EnterMultiplayer \/ DemoStaysSolo \/ MintSettles \/ RosterChanges \/ LeaveMultiplayer
         \/ Solo \/ About \/ Back
  PROVE  TypeInv'
<1> USE TypeGroups, IdleGames DEF TypeInv, AnswerShown, Screens
<1>1. CASE EnterMultiplayer
  <2>1. book' \in Book
    BY <1>1, FinalizeKeeps, SessionGoes DEF EnterMultiplayer
  <2>2. game' \in Game /\ game'.phase # "reveal"
    BY <1>1 DEF EnterMultiplayer
  <2>3. minting' \in 0..MaxMints
    BY <1>1, DeskAssumption DEF EnterMultiplayer
  <2>4. QED BY <1>1, <2>1, <2>2, <2>3 DEF EnterMultiplayer
<1>2. CASE DemoStaysSolo
  BY <1>2, RenderType DEF DemoStaysSolo
<1>3. CASE MintSettles
  <2>1. minting' \in 0..MaxMints
    BY <1>3, DeskAssumption DEF MintSettles
  <2>2. QED BY <1>3, <2>1 DEF MintSettles
<1>4. CASE RosterChanges
  BY <1>4 DEF RosterChanges
<1>5. CASE LeaveMultiplayer
  <2> DEFINE ofParty == book.open /\ book.mode = "game"
             rolls == ofParty /\ book.attempts # {}
             done == IF rolls THEN Finalize(book) ELSE IF ofParty THEN NoSession(book) ELSE book
  <2>1. done \in Book
    BY FinalizeKeeps, SessionGoes
  <2>2. /\ book' = Render(LandSolo(done), game)
        /\ screen' = IF Left = "mock" THEN "mock"
                     ELSE IF Left = "none" /\ rolls THEN "rollup" ELSE "solo"
    BY <1>5 DEF LeaveMultiplayer
  <2> HIDE DEF done
  <2>3. LandSolo(done) \in Book
    BY <2>1, SessionOpens DEF LandSolo, Left
  <2>4. book' \in Book
    BY <2>2, <2>3, RenderType
  <2>5. QED BY <1>5, <2>2, <2>4 DEF LeaveMultiplayer, ClosePartyLink
<1>6. CASE Solo
  <2>1. game' \in Game /\ game'.phase # "reveal"
    BY <1>6 DEF Solo, Game
  <2>2. QED BY <1>6, <2>1 DEF Solo, ClosePartyLink
<1>7. CASE About \/ Back
  BY <1>7 DEF About, Back, ClosePartyLink
<1>8. QED BY <1>1, <1>2, <1>3, <1>4, <1>5, <1>6, <1>7

LEMMA FinishMockTypes ==
  ASSUME TypeInv, NEW b \in Book, FinishMock(b)
  PROVE  /\ mock' \in Mocks
         /\ screen' \in Screens /\ book' \in Book
<1>1. mock' \in Mocks
  BY DeskAssumption DEF FinishMock, Mocks
<1>2. QED BY <1>1, FinalizeKeeps, RenderType DEF FinishMock, Screens

LEMMA QuietTypes ==
  ASSUME TypeInv,
         \/ StartDrill \/ PickChoice \/ AdvanceQuiet \/ SoloStop
         \/ StartMock \/ AnswerMock \/ MockTimeUp \/ StopMock \/ GoDesk \/ BackToLobby
  PROVE  TypeInv'
<1> USE TypeGroups, IdleGames DEF TypeInv, AnswerShown, Screens
<1>1. CASE StartDrill
  <2>1. PICK cards \in 0..DeckSize :
          /\ drill' = [left |-> cards, side |-> "front"]
          /\ book' = LET done == FinalizeWork(book) IN
                     Render(IF cards > 0 THEN OpenSession(done, "quiet") ELSE done, game)
    BY <1>1 DEF StartDrill
  <2>2. book' \in Book
    BY <2>1, FinalizeKeeps, SessionOpens, RenderType
  <2>3. drill' \in Drills
    BY <2>1 DEF Drills
  <2>4. QED BY <1>1, <2>2, <2>3 DEF StartDrill, ClosePartyLink
<1>2. CASE PickChoice
  <2>1. drill' \in Drills
    BY <1>2 DEF PickChoice, Drills
  <2>2. QED BY <1>2, <2>1 DEF PickChoice
<1>3. CASE AdvanceQuiet
  <2>1. given' \in Answers /\ given' \in 0..MaxAnswers /\ drill.left \in 1..DeckSize
    <3>1. Clicks("data-q") /\ given < MaxAnswers /\ given' = given + 1
      BY <1>3 DEF AdvanceQuiet
    <3>2. drill.left > 0 /\ drill.left \in 0..DeckSize
      BY <3>1, ButtonPages, Pages DEF Drills
    <3>3. QED BY <3>1, <3>2, DeskAssumption DEF Answers
  <2>2. Attempt(book, given') \in Book
    BY <2>1, AttemptCounts
  <2>3. book' \in Book /\ screen' \in Screens
    BY <1>3, <2>2, FinalizeKeeps, RenderType DEF AdvanceQuiet
  <2>4. drill' = [left |-> drill.left - 1, side |-> "front"]
        /\ UNCHANGED <<relay, party, link, minting, mock, game, demo, gate, phones, covered>>
    BY <1>3 DEF AdvanceQuiet
  <2>5. drill' \in Drills
    BY <2>1, <2>4, DeskAssumption DEF Drills
  <2>6. QED BY <2>1, <2>3, <2>4, <2>5
<1>4. CASE SoloStop
  <2>1. book' \in Book /\ screen' \in Screens
    BY <1>4, FinalizeKeeps, RenderType DEF SoloStop
  <2>2. QED BY <1>4, <2>1 DEF SoloStop
<1>5. CASE StartMock
  <2>1. book' \in Book
    BY <1>5, FinalizeKeeps, SessionOpens, RenderType DEF StartMock
  <2>2. mock' \in Mocks
    BY <1>5 DEF StartMock, Mocks
  <2>3. QED BY <1>5, <2>1, <2>2 DEF StartMock, ClosePartyLink
<1>6. CASE AnswerMock
  <2>1. given' \in Answers /\ given' \in 0..MaxAnswers
    BY <1>6, DeskAssumption DEF AnswerMock, Answers
  <2>2. Attempt(book, given') \in Book
    BY <2>1, AttemptCounts
  <2>3. CASE FinishMock(Attempt(book, given'))
    BY <1>6, <2>1, <2>2, <2>3, FinishMockTypes DEF AnswerMock
  <2>4. CASE ~FinishMock(Attempt(book, given'))
    <3>1. mock' = [mock EXCEPT !.answers = @ + 1] /\ screen' = screen
          /\ book' = Render(Attempt(book, given'), game)
      BY <1>6, <2>4 DEF AnswerMock
    <3>2. mock' \in Mocks /\ book' \in Book
      BY <2>2, <3>1, RenderType DEF Mocks
    <3>3. QED BY <1>6, <2>1, <3>1, <3>2 DEF AnswerMock
  <2>5. QED BY <2>3, <2>4
<1>7. CASE MockTimeUp
  BY <1>7, FinishMockTypes DEF MockTimeUp
<1>8. CASE StopMock
  BY <1>8, FinishMockTypes DEF StopMock
<1>9. CASE GoDesk \/ BackToLobby
  BY <1>9 DEF GoDesk, ToDesk, BackToLobby
<1>10. QED BY <1>1, <1>2, <1>3, <1>4, <1>5, <1>6, <1>7, <1>8, <1>9

LEMMA BeginTypes ==
  ASSUME TypeInv, NEW b \in Book, NEW from \in Game, from.phase = "reveal" => from.answer # 0,
         NEW players, Begin(b, from, players)
  PROVE  screen' \in Screens /\ game' \in Game /\ book' \in Book /\ AnswerShown'
<1>1. CASE ~Clicks("hot") /\ game' = from
  BY <1>1, SessionOpens, SessionGoes, TypeGroups, IdleGames DEF Begin, Screens, AnswerShown, TypeInv
<1>2. CASE /\ book' = OpenSession(b, "game") /\ screen' = "game"
           /\ \E auto \in BOOLEAN : game' = [Idle("play") EXCEPT !.auto = auto]
  BY <1>2, SessionOpens, IdleGames DEF Screens, AnswerShown, Idle, Game
<1>3. QED BY <1>1, <1>2 DEF Begin

LEMMA GameTypes ==
  ASSUME TypeInv, PlaySolo \/ BeginParty \/ BriefClick \/ Reveal \/ Advance
  PROVE  TypeInv'
<1> USE TypeGroups, IdleGames DEF TypeInv, AnswerShown, Screens
<1>1. CASE PlaySolo
  <2>1. screen' \in Screens /\ game' \in Game /\ book' \in Book /\ AnswerShown'
    BY <1>1, FinalizeKeeps, BeginTypes DEF PlaySolo
  <2>2. QED BY <1>1, <2>1 DEF PlaySolo, ClosePartyLink
<1>2. CASE BeginParty
  <2>1. screen' \in Screens /\ game' \in Game /\ book' \in Book /\ AnswerShown'
    BY <1>2, BeginTypes DEF BeginParty
  <2>2. QED BY <1>2, <2>1 DEF BeginParty
<1>3. CASE BriefClick
  <2>1. book' \in Book
    <3>1. CASE phones /\ game' = Idle("play") /\ EnterDemo(OpenSession(book, "game"), game')
      BY <3>1, SessionOpens, RenderType DEF EnterDemo
    <3>2. CASE UNCHANGED game /\ EnterDemo(NoSession([book EXCEPT !.attempts = {}]), game)
      BY <3>2, SessionGoes, RenderType DEF EnterDemo
    <3>3. QED BY <1>3, <3>1, <3>2 DEF BriefClick
  <2>2. QED BY <1>3, <2>1 DEF BriefClick, EnterDemo, ClosePartyLink
<1>4. CASE Reveal
  <2> DEFINE now == [book EXCEPT !.captured = FALSE,
                                 !.stray = IF gate THEN @ \cup {given'} ELSE @]
  <2>1. given' \in Answers /\ given' \in 0..MaxAnswers
    BY <1>4, DeskAssumption DEF Reveal, Answers
  <2>2. game' \in Game /\ game'.phase = "reveal" /\ game'.answer # 0
    <3>1. game' = [game EXCEPT !.phase = "reveal", !.answer = given']
      BY <1>4 DEF Reveal
    <3>2. given' # 0
      BY <2>1 DEF Answers
    <3>3. QED BY <2>1, <3>1, <3>2 DEF Game
  <2>3. now \in Book
    BY <2>1 DEF Book
  <2>4. book' = Render(now, game')
    BY <1>4 DEF Reveal
  <2> HIDE DEF now
  <2>5. book' \in Book
    BY <2>2, <2>3, <2>4, RenderKeeps DEF Redrawn
  <2>6. QED BY <1>4, <2>1, <2>2, <2>5 DEF Reveal
<1>5. CASE Advance
  <2>1. game' \in Game /\ game'.phase \in {"play", "results"}
    BY <1>5 DEF Advance, Game
  <2>2. book' \in Book
    BY <1>5, <2>1, RenderKeeps DEF Advance, Redrawn
  <2>3. QED BY <1>5, <2>1, <2>2 DEF Advance
<1>6. QED BY <1>1, <1>2, <1>3, <1>4, <1>5

LEMMA TypeStep ==
  ASSUME TypeInv, [Next]_vars
  PROVE  TypeInv'
<1>1. CASE UNCHANGED vars
  BY <1>1 DEF vars, TypeInv, TypeOK, AnswerShown
<1>2. CASE LogOut \/ LogIn \/ TryDemo \/ LeavePreview
  <2> USE TypeGroups, IdleGames DEF TypeInv, AnswerShown, Screens
  <2>1. CASE LogOut \/ LeavePreview
    BY <2>1 DEF LogOut, LeavePreview
  <2>2. CASE LogIn
    BY <2>2 DEF LogIn
  <2>3. CASE TryDemo
    BY <2>3, RenderType DEF TryDemo, EnterDemo, ClosePartyLink
  <2>4. QED BY <1>2, <2>1, <2>2, <2>3
<1>3. QED BY <1>1, <1>2, PartyTypes, QuietTypes, GameTypes DEF Next

\* Every reachable state is well typed, and a reveal shows an answer given.
THEOREM TypeCorrect == Spec => []TypeOK
<1>1. TypeInv => TypeOK
  BY DEF TypeInv
<1>2. QED BY <1>1, TypeInit, TypeStep, PTL DEF Spec

-----------------------------------------------------------------------------
(* Where the desk's work is safe.  The session is the party's game's or the   *)
(* desk's own: what may be on show beside it, page by page.                   *)

OnDesk == (screen = "solo" /\ drill.left > 0) \/ (screen = "mock" /\ mock.is = "on")

\* The demo and the title have no party; the lobby is a party's; results
\* have closed the session unless the account's page kept them from doing it.
Places ==
  /\ demo => ~party /\ ~gate
  /\ game.phase = "attract" => ~party
  /\ screen = "lobby" => party
  /\ screen = "game" /\ game.phase \in {"attract", "lobby"} => party
  /\ game.phase = "results" /\ ~gate => ~book.open

\* In a party the session is a game's, and only a room being minted leaves
\* the desk's work on show.
PartyBook ==
  party => /\ book.open => /\ book.mode = "game" /\ ~OnDesk
                           /\ screen \in {"game", "lobby", "about", "decoy-empty", "solo"}
           /\ minting = 0 => ~OnDesk

\* A lobby that no late room code put there has no work to lose.
LobbyIdle ==
  ~covered /\ party => /\ screen = "lobby" => game.phase = "lobby"
                       /\ game.phase = "lobby" => ~Work(book)

\* The demo has no mock, and a drill left in it keeps its session.
DemoDesk ==
  demo => /\ screen # "mock"
          /\ drill.left > 0 => screen \in {"solo", "about", "attract"} /\ Sits(book, "quiet")

Seated ==
  ~party /\ ~gate => /\ screen = "solo" /\ drill.left > 0 => Sits(book, "quiet")
                     /\ screen = "mock" /\ mock.is = "on" => Sits(book, "mock")

DeskRules == Places /\ PartyBook /\ LobbyIdle /\ DemoDesk /\ Seated

\* What a step does to the answers: none is thrown away but under a late
\* lobby, and one more is counted when it is given.
Answered ==
  /\ covered => covered'
  /\ \/ covered'
     \/ /\ Keeps(book, book')
        /\ given' = given \/ (given' = given + 1 /\ Kept(book', given'))

LEMMA KeepsChain ==
  /\ \A b : Keeps(b, b)
  /\ \A b, c, d : Keeps(b, c) /\ Keeps(c, d) => Keeps(b, d)
  /\ \A b, c : \A a \in Answers : Keeps(b, c) /\ Kept(b, a) => Kept(c, a)
BY DEF Keeps

LEMMA RulesInit == Init => DeskRules /\ EveryAnswerKept
BY DeskAssumption DEF Init, DeskRules, Places, PartyBook, LobbyIdle, DemoDesk, Seated, EveryAnswerKept,
   Idle, NoDrill, NoMock, Work

LEMMA PartyRules ==
  ASSUME TypeInv, DeskRules,
         \/ EnterMultiplayer \/ DemoStaysSolo \/ MintSettles \/ RosterChanges
         \/ Solo \/ About \/ Back
  PROVE  DeskRules' /\ Answered
<1>0. /\ book \in Book /\ game \in Game /\ minting \in Nat /\ drill.left \in Nat
      /\ gate \in BOOLEAN /\ party \in BOOLEAN /\ (game.phase = "reveal" => game.answer # 0)
  BY TypeGroups, DeskAssumption DEF TypeInv, AnswerShown, Drills
<1>1. CASE EnterMultiplayer
  <2>1. ~demo /\ party' /\ game'.phase = "lobby" /\ ~book'.open /\ Keeps(book, book')
    BY <1>0, <1>1, IdleGames, FinalizeKeeps, SessionGoes, KeepsChain
       DEF EnterMultiplayer, FinalizeWork, Work
  <2>2. \/ minting' > 0 /\ screen' = screen
        \/ screen' = "lobby" /\ minting' = minting
    BY <1>0, <1>1 DEF EnterMultiplayer
  <2>3. UNCHANGED <<drill, mock, demo, gate, given, covered>>
    BY <1>1 DEF EnterMultiplayer
  <2>4. QED BY <1>0, <2>1, <2>2, <2>3
            DEF DeskRules, Places, PartyBook, LobbyIdle, DemoDesk, Seated, OnDesk, Work, Answered
<1>2. CASE DemoStaysSolo
  <2>1. ~gate /\ demo /\ screen' = "solo" /\ book' = Render(book, game)
        /\ UNCHANGED <<party, minting, drill, mock, game, demo, gate, given, covered>>
    BY <1>2, TypeInv, ButtonPages DEF DemoStaysSolo, TypeInv
  <2>2. Redrawn(book, game, book')
    BY <1>0, <2>1, RenderKeeps
  <2>3. DeskRules'
    BY <1>0, <2>1, <2>2
       DEF DeskRules, Places, PartyBook, LobbyIdle, DemoDesk, Seated, OnDesk, Work, Sits, Redrawn
  <2>4. QED BY <2>1, <2>2, <2>3 DEF Answered, Redrawn
<1>3. CASE MintSettles
  <2>1. /\ minting' = minting - 1 /\ screen' = IF party THEN "lobby" ELSE screen
        /\ covered' = (covered \/ (party /\ game.phase # "lobby"))
        /\ UNCHANGED <<party, drill, mock, game, book, demo, gate, given>>
    BY <1>3 DEF MintSettles
  <2>2. DeskRules'
    BY <1>0, <2>1 DEF DeskRules, Places, PartyBook, LobbyIdle, DemoDesk, Seated, OnDesk, Work, Sits
  <2>3. QED BY <2>1, <2>2, KeepsChain DEF Answered
<1>4. CASE RosterChanges
  BY <1>4, KeepsChain DEF RosterChanges, DeskRules, Places, PartyBook, LobbyIdle, DemoDesk, Seated,
     OnDesk, Work, Sits, Answered
<1>5. CASE Solo
  <2>1. /\ ~party' /\ screen' = "solo" /\ drill'.left = 0 /\ game'.phase = "attract"
        /\ UNCHANGED <<mock, book, demo, gate, given, covered>>
    BY <1>0, <1>5 DEF Solo, ClosePartyLink, NoDrill, Game
  <2>2. DeskRules'
    BY <1>0, <2>1 DEF DeskRules, Places, PartyBook, LobbyIdle, DemoDesk, Seated
  <2>3. QED BY <2>1, <2>2, KeepsChain DEF Answered
<1>6. CASE About
  <2>1. /\ screen' = "about"
        /\ UNCHANGED <<party, minting, drill, mock, game, book, demo, gate, given, covered>>
    BY <1>6 DEF About
  <2>2. DeskRules'
    BY <1>0, <2>1 DEF DeskRules, Places, PartyBook, LobbyIdle, DemoDesk, Seated, OnDesk, Work, Sits
  <2>3. QED BY <2>1, <2>2, KeepsChain DEF Answered
<1>7. CASE Back
  <2>1. /\ ~party' /\ screen' = "attract" /\ game'.phase = "lobby"
        /\ UNCHANGED <<drill, mock, book, demo, gate, given, covered>>
    BY <1>7, IdleGames DEF Back, ClosePartyLink
  <2>2. DeskRules'
    BY <1>0, <2>1 DEF DeskRules, Places, PartyBook, LobbyIdle, DemoDesk, Seated, Sits
  <2>3. QED BY <2>1, <2>2, KeepsChain DEF Answered
<1>8. QED BY <1>1, <1>2, <1>3, <1>4, <1>5, <1>6, <1>7

\* Out of a party the desk gets its session back, under the kind it left.
LEMMA LeaveRules ==
  ASSUME TypeInv, DeskRules, LeaveMultiplayer
  PROVE  DeskRules' /\ Answered
<1> DEFINE ofParty == book.open /\ book.mode = "game"
           rolls == ofParty /\ book.attempts # {}
           done == IF rolls THEN Finalize(book) ELSE IF ofParty THEN NoSession(book) ELSE book
           land == LandSolo(done)
<1>0. /\ book \in Book /\ game \in Game /\ gate \in BOOLEAN /\ drill.left \in Nat
      /\ mock.is \in {"none", "on", "done"}
      /\ (game.phase = "reveal" => game.answer # 0)
  BY TypeGroups, DeskAssumption DEF TypeInv, AnswerShown, Drills, Mocks
<1>1. /\ book' = Render(land, game)
      /\ screen' = IF Left = "mock" THEN "mock"
                   ELSE IF Left = "none" /\ rolls THEN "rollup" ELSE "solo"
      /\ party /\ ~party' /\ game'.phase = "lobby"
      /\ UNCHANGED <<drill, mock, demo, gate, given, covered>>
  BY IdleGames DEF LeaveMultiplayer, ClosePartyLink
<1>2. done \in Book /\ Keeps(book, done) /\ ~Work(done) /\ ~done.open
  BY <1>0, <1>1, FinalizeKeeps, SessionGoes, KeepsChain DEF DeskRules, PartyBook, Work
<1> HIDE DEF done
<1>3. /\ land \in Book /\ Keeps(book, land)
      /\ Left # "none" => land.open /\ land.mode = Left
  BY <1>2, SessionOpens, KeepsChain DEF LandSolo, Left
<1>4. ~gate
  BY ButtonPages DEF LeaveMultiplayer, TypeInv
<1> HIDE DEF land
<1>5. Redrawn(land, game, book')
  BY <1>0, <1>1, <1>3, <1>4, RenderKeeps
<1>6. DeskRules'
  <2>1. screen' = "solo" /\ drill.left > 0 => Left = "quiet"
    BY <1>1 DEF Left
  <2>2. screen' = "mock" => Left = "mock"
    BY <1>1
  <2>3. Left # "none" => Sits(book', Left)
    BY <1>3, <1>5 DEF Redrawn, Sits, Left
  <2>4. screen' \in {"solo", "mock", "rollup"} /\ ~demo
    BY <1>1 DEF DeskRules, Places
  <2> HIDE DEF rolls
  <2>5. QED BY <1>1, <2>1, <2>2, <2>3, <2>4 DEF DeskRules, Places, PartyBook, LobbyIdle, DemoDesk, Seated
<1>7. QED BY <1>1, <1>3, <1>5, <1>6, KeepsChain DEF Answered, Redrawn

LEMMA DrillRules ==
  ASSUME TypeInv, TypeOK', DeskRules, StartDrill \/ PickChoice \/ AdvanceQuiet \/ SoloStop
  PROVE  DeskRules' /\ Answered
<1>0. /\ book \in Book /\ game \in Game /\ minting \in Nat /\ drill.left \in Nat /\ drill'.left \in Nat
      /\ gate \in BOOLEAN /\ party \in BOOLEAN /\ (game.phase = "reveal" => game.answer # 0)
  BY TypeGroups, DeskAssumption DEF TypeInv, AnswerShown, Drills
<1>1. CASE StartDrill
  <2>1. ~gate /\ Shown \in {"desk", "rollup", "results"}
    BY <1>1, ButtonPages DEF StartDrill, TypeInv
  <2>2. PICK cards \in 0..DeckSize :
          /\ drill' = [left |-> cards, side |-> "front"]
          /\ book' = LET done == FinalizeWork(book) IN
                     Render(IF cards > 0 THEN OpenSession(done, "quiet") ELSE done, game)
    BY <1>1 DEF StartDrill
  <2> DEFINE b == IF cards > 0 THEN OpenSession(FinalizeWork(book), "quiet") ELSE FinalizeWork(book)
  <2>3. b \in Book /\ Keeps(book, b) /\ (cards > 0 => b.open /\ b.mode = "quiet")
    BY <1>0, FinalizeKeeps, SessionOpens, KeepsChain
  <2>4. book' = Render(b, game) /\ drill'.left = cards
    BY <2>2
  <2> HIDE DEF b
  <2>5. Redrawn(b, game, book')
    BY <1>0, <2>1, <2>3, <2>4, RenderKeeps
  <2>6. /\ ~party' /\ screen' = "solo"
        /\ UNCHANGED <<minting, mock, game, demo, gate, given, covered>>
    BY <1>1 DEF StartDrill, ClosePartyLink
  <2>7. drill'.left > 0 => Sits(book', "quiet")
    BY <2>3, <2>4, <2>5 DEF Redrawn, Sits
  <2>8. DeskRules'
    BY <2>5, <2>6, <2>7 DEF DeskRules, Places, PartyBook, LobbyIdle, DemoDesk, Seated, Redrawn
  <2>9. QED BY <2>3, <2>5, <2>6, <2>8, KeepsChain DEF Answered, Redrawn
<1>2. CASE PickChoice
  <2>1. drill \in Drills
    BY TypeGroups DEF TypeInv
  <2>2. /\ drill'.left = drill.left
        /\ UNCHANGED <<screen, party, minting, mock, game, book, demo, gate, given, covered>>
    BY <1>2, <2>1 DEF PickChoice, Drills
  <2>3. DeskRules'
    BY <2>2 DEF DeskRules, Places, PartyBook, LobbyIdle, DemoDesk, Seated, OnDesk, Work, Sits
  <2>4. QED BY <2>2, <2>3, KeepsChain DEF Answered
<1>3. CASE AdvanceQuiet
  <2>1. ~gate /\ screen = "solo" /\ drill.left > 0
    BY <1>3, ButtonPages, Pages DEF AdvanceQuiet, TypeInv
  <2> DEFINE noted == Attempt(book, given')
             b == IF drill.left = 1 THEN Finalize(noted) ELSE noted
  <2>2. /\ drill'.left = drill.left - 1
        /\ screen' = IF drill.left = 1 THEN "rollup" ELSE screen
        /\ book' = Render(b, game) /\ given' = given + 1
        /\ UNCHANGED <<party, minting, mock, game, demo, gate, covered>>
    BY <1>3 DEF AdvanceQuiet
  <2>3. given' \in Answers
    <3>1. given \in 0..MaxAnswers
      BY TypeGroups DEF TypeInv
    <3>2. QED BY <1>3, <3>1, DeskAssumption DEF AdvanceQuiet, Answers
  <2>4. /\ noted \in Book /\ Keeps(book, noted) /\ Kept(noted, given')
        /\ noted.open = book.open /\ noted.mode = book.mode /\ noted.cut = book.cut
    BY <1>0, <2>3, AttemptCounts
  <2> HIDE DEF noted
  <2>5. /\ b \in Book /\ Keeps(book, b) /\ Kept(b, given')
        /\ b.open => book.open
        /\ drill.left # 1 => b.open = book.open /\ b.mode = book.mode /\ b.cut = book.cut
    BY <2>3, <2>4, FinalizeKeeps, KeepsChain
  <2> HIDE DEF b
  <2>6. Redrawn(b, game, book')
    BY <1>0, <2>1, <2>2, <2>5, RenderKeeps
  <2>7. drill'.left > 0 => drill.left # 1
    BY <1>0, <2>2
  <2>8. drill'.left > 0 /\ Sits(book, "quiet") => Sits(book', "quiet")
    BY <2>5, <2>6, <2>7 DEF Redrawn, Sits
  <2>9. party => ~book'.open
    BY <2>1, <2>5, <2>6 DEF DeskRules, PartyBook, OnDesk, Redrawn
  <2>10. screen' \in {"solo", "rollup"} /\ (drill'.left > 0 => screen' = "solo")
    BY <2>1, <2>2, <2>7
  <2>11. DeskRules'
    BY <2>1, <2>2, <2>6, <2>8, <2>9, <2>10
       DEF DeskRules, Places, PartyBook, LobbyIdle, DemoDesk, Seated, OnDesk, Work, Redrawn
  <2>12. QED BY <2>2, <2>3, <2>5, <2>6, <2>11, KeepsChain DEF Answered, Redrawn
<1>4. CASE SoloStop
  <2>1. ~gate /\ screen = "solo" /\ drill.left > 0
    BY <1>4, ButtonPages, Pages DEF SoloStop, TypeInv
  <2> DEFINE done == IF book.attempts # {} THEN Finalize(book) ELSE book
  <2>2. /\ drill'.left = 0 /\ screen' \in {"solo", "rollup"} /\ book' = Render(done, game)
        /\ UNCHANGED <<party, minting, mock, game, demo, gate, given, covered>>
    BY <1>4 DEF SoloStop, NoDrill
  <2>3. done \in Book /\ Keeps(book, done) /\ (done.open => book.open)
    BY <1>0, FinalizeKeeps, KeepsChain
  <2> HIDE DEF done
  <2>4. Redrawn(done, game, book')
    BY <1>0, <2>1, <2>2, <2>3, RenderKeeps
  <2>5. party => ~book'.open
    BY <2>1, <2>3, <2>4 DEF DeskRules, PartyBook, OnDesk, Redrawn
  <2>6. DeskRules'
    BY <2>1, <2>2, <2>4, <2>5
       DEF DeskRules, Places, PartyBook, LobbyIdle, DemoDesk, Seated, OnDesk, Work, Redrawn
  <2>7. QED BY <2>2, <2>3, <2>4, <2>6, KeepsChain DEF Answered, Redrawn
<1>5. QED BY <1>1, <1>2, <1>3, <1>4

\* The mock's end: its session is rolled up and closed.
LEMMA FinishMockRules ==
  ASSUME TypeInv, DeskRules, NEW b \in Book, FinishMock(b),
         screen = "mock", mock.is = "on",
         UNCHANGED <<party, minting, drill, game, demo, gate, covered>>
  PROVE  DeskRules' /\ Keeps(b, book')
<1>0. /\ game \in Game /\ gate \in BOOLEAN /\ (game.phase = "reveal" => game.answer # 0)
  BY TypeGroups DEF TypeInv, AnswerShown
<1>1. Finalize(b) \in Book /\ Keeps(b, Finalize(b)) /\ ~Finalize(b).open
  BY FinalizeKeeps
<1>2. book' = Render(Finalize(b), game) /\ screen' = "rollup" /\ mock'.is = "done"
  BY DEF FinishMock
<1>3. Keeps(Finalize(b), book') /\ ~book'.open
  BY <1>0, <1>1, <1>2, RenderKeeps, KeepsChain DEF Redrawn
<1>4. DeskRules'
  BY <1>2, <1>3 DEF DeskRules, Places, PartyBook, LobbyIdle, DemoDesk, Seated, OnDesk, Work
<1>5. QED BY <1>1, <1>3, <1>4, KeepsChain

LEMMA MockRules ==
  ASSUME TypeInv, DeskRules, StartMock \/ AnswerMock \/ MockTimeUp \/ StopMock
  PROVE  DeskRules' /\ Answered
<1>0. /\ book \in Book /\ game \in Game /\ gate \in BOOLEAN /\ party \in BOOLEAN /\ mock \in Mocks
      /\ (game.phase = "reveal" => game.answer # 0)
  BY TypeGroups DEF TypeInv, AnswerShown
<1>1. CASE StartMock
  <2>1. ~gate /\ ~demo
    BY <1>1, ButtonPages DEF StartMock, TypeInv
  <2>2. ~party' /\ UNCHANGED <<game, demo, gate, given, covered>>
    BY <1>1 DEF StartMock, ClosePartyLink
  <2>3. PICK b \in Book :
          /\ book' = Render(b, game) /\ Keeps(book, b)
          /\ \/ screen' = "mock" /\ b.open /\ b.mode = "mock"
             \/ screen' = "solo" /\ drill'.left = 0
    BY <1>0, <1>1, FinalizeKeeps, SessionOpens, KeepsChain DEF StartMock, NoDrill
  <2>4. Redrawn(b, game, book')
    BY <1>0, <2>1, <2>3, RenderKeeps
  <2>5. screen' = "mock" => Sits(book', "mock")
    BY <2>3, <2>4 DEF Redrawn, Sits
  <2>6. DeskRules'
    BY <2>1, <2>2, <2>3, <2>4, <2>5 DEF DeskRules, Places, PartyBook, LobbyIdle, DemoDesk, Seated, Redrawn
  <2>7. QED BY <2>2, <2>3, <2>4, <2>6, KeepsChain DEF Answered, Redrawn
<1>2. CASE AnswerMock
  <2>1. ~gate /\ screen = "mock" /\ mock.is = "on"
    BY <1>2, ButtonPages, Pages DEF AnswerMock, TypeInv
  <2>2. given' = given + 1 /\ UNCHANGED <<party, minting, drill, game, demo, gate, covered>>
    BY <1>2 DEF AnswerMock
  <2>3. given' \in Answers
    <3>1. given \in 0..MaxAnswers
      BY TypeGroups DEF TypeInv
    <3>2. QED BY <1>2, <3>1, DeskAssumption DEF AnswerMock, Answers
  <2> DEFINE noted == Attempt(book, given')
  <2>4. /\ noted \in Book /\ Keeps(book, noted) /\ Kept(noted, given')
        /\ noted.open = book.open /\ noted.mode = book.mode /\ noted.cut = book.cut
    BY <1>0, <2>3, AttemptCounts
  <2>5. \/ FinishMock(noted)
        \/ mock' = [mock EXCEPT !.answers = @ + 1] /\ book' = Render(noted, game) /\ UNCHANGED screen
    BY <1>2 DEF AnswerMock
  <2> HIDE DEF noted
  <2>6. DeskRules' /\ Keeps(noted, book')
    <3>1. CASE FinishMock(noted)
      BY <2>1, <2>2, <2>4, <3>1, FinishMockRules
    <3>2. CASE mock' = [mock EXCEPT !.answers = @ + 1] /\ book' = Render(noted, game) /\ UNCHANGED screen
      <4>1. Redrawn(noted, game, book')
        BY <1>0, <2>1, <2>4, <3>2, RenderKeeps
      <4>2. mock'.is = mock.is
        BY <1>0, <3>2 DEF Mocks
      <4>3. party => ~book'.open
        BY <2>1, <2>4, <4>1 DEF DeskRules, PartyBook, OnDesk, Redrawn
      <4>4. Sits(book, "mock") => Sits(book', "mock")
        BY <2>4, <4>1 DEF Redrawn, Sits
      <4>5. DeskRules'
        BY <2>1, <2>2, <3>2, <4>1, <4>2, <4>3, <4>4
           DEF DeskRules, Places, PartyBook, LobbyIdle, DemoDesk, Seated, OnDesk, Work, Redrawn
      <4>6. QED BY <4>1, <4>5 DEF Redrawn
    <3>3. QED BY <2>5, <3>1, <3>2
  <2>7. QED BY <2>2, <2>3, <2>4, <2>6, KeepsChain DEF Answered
<1>3. CASE MockTimeUp
  BY <1>0, <1>3, FinishMockRules DEF MockTimeUp, Answered
<1>4. CASE StopMock
  <2>1. ~gate /\ screen = "mock" /\ mock.is = "on"
    BY <1>4, ButtonPages, Pages DEF StopMock, TypeInv
  <2>2. UNCHANGED <<party, minting, game, demo, gate, given, covered>>
    BY <1>4 DEF StopMock
  <2>3. CASE book.attempts # {}
    BY <1>0, <1>4, <2>1, <2>2, <2>3, FinishMockRules DEF StopMock, Answered
  <2>4. CASE book.attempts = {}
    <3>1. screen' = "solo" /\ drill'.left = 0 /\ mock'.is = "none" /\ UNCHANGED book
      BY <1>4, <2>4 DEF StopMock, NoDrill, NoMock
    <3>2. DeskRules'
      BY <2>1, <2>2, <3>1 DEF DeskRules, Places, PartyBook, LobbyIdle, DemoDesk, Seated, OnDesk, Work
    <3>3. QED BY <2>2, <3>1, <3>2, KeepsChain DEF Answered
  <2>5. QED BY <2>3, <2>4
<1>5. QED BY <1>1, <1>2, <1>3, <1>4

LEMMA DeskPagesRules ==
  ASSUME TypeInv, DeskRules, GoDesk \/ BackToLobby
  PROVE  DeskRules' /\ Answered
<1>1. CASE GoDesk
  <2>1. /\ ~gate /\ screen' = "solo" /\ drill'.left = 0
        /\ UNCHANGED <<party, minting, game, book, demo, gate, given, covered>>
    BY <1>1, ButtonPages DEF GoDesk, ToDesk, NoDrill, TypeInv
  <2>2. DeskRules'
    BY <2>1 DEF DeskRules, Places, PartyBook, LobbyIdle, DemoDesk, Seated, OnDesk, Work
  <2>3. QED BY <2>1, <2>2, KeepsChain DEF Answered
<1>2. CASE BackToLobby
  <2>1. ~gate /\ game.phase = "results"
    BY <1>2, ButtonPages, Pages DEF BackToLobby, TypeInv
  <2>2. /\ party /\ screen' = "lobby" /\ game'.phase = "lobby"
        /\ UNCHANGED <<party, minting, drill, mock, book, demo, gate, given, covered>>
    BY <1>2, IdleGames DEF BackToLobby
  <2>3. DeskRules'
    BY <2>1, <2>2 DEF DeskRules, Places, PartyBook, LobbyIdle, DemoDesk, Seated, OnDesk, Work
  <2>4. QED BY <2>2, <2>3, KeepsChain DEF Answered
<1>3. QED BY <1>1, <1>2

\* The lobby of a party: no late code put it there, so no work is open.
LEMMA LobbyPage ==
  ASSUME TypeInv, DeskRules, ~gate, Shown = "lobby"
  PROVE  /\ party /\ ~demo /\ game.phase # "attract"
         /\ screen = "lobby" \/ (screen = "game" /\ game.phase = "lobby")
         /\ covered \/ (game.phase = "lobby" /\ ~Work(book))
BY Pages DEF TypeInv, DeskRules, Places, LobbyIdle

LEMMA GameRules ==
  ASSUME TypeInv, DeskRules, PlaySolo \/ BeginParty \/ BriefClick
  PROVE  DeskRules' /\ Answered
<1>0. /\ book \in Book /\ game \in Game /\ gate \in BOOLEAN /\ party \in BOOLEAN
      /\ drill.left \in Nat /\ (game.phase = "reveal" => game.answer # 0)
  BY TypeGroups, DeskAssumption DEF TypeInv, AnswerShown, Drills
<1>1. CASE PlaySolo
  <2>1. ~gate /\ Shown \in {"desk", "rollup", "results"}
    BY <1>1, ButtonPages DEF PlaySolo, TypeInv
  <2>2. demo => drill.left = 0
    BY <1>0, <2>1, Pages DEF TypeInv, DeskRules, DemoDesk
  <2>3. /\ ~party' /\ UNCHANGED <<minting, drill, mock, demo, gate, given, covered>>
        /\ Begin(FinalizeWork(book), Idle("lobby"), TRUE)
    BY <1>1 DEF PlaySolo, ClosePartyLink
  <2> DEFINE b == FinalizeWork(book)
  <2>4. b \in Book /\ Keeps(book, b) /\ ~Work(b)
    BY <1>0, FinalizeKeeps
  <2> HIDE DEF b
  <2>5. CASE /\ book' = OpenSession(b, "game") /\ screen' = "game"
             /\ \E auto \in BOOLEAN : game' = [Idle("play") EXCEPT !.auto = auto]
    <3>1. Keeps(book, book') /\ game'.phase = "play"
      BY <2>4, <2>5, SessionOpens, KeepsChain DEF Idle
    <3>2. DeskRules'
      BY <1>0, <2>2, <2>3, <2>5, <3>1 DEF DeskRules, Places, PartyBook, LobbyIdle, DemoDesk, Seated
    <3>3. QED BY <2>3, <3>1, <3>2 DEF Answered
  <2>6. CASE /\ ~Clicks("hot") /\ game' = Idle("lobby")
             /\ \/ /\ book' = NoSession([b EXCEPT !.attempts = {}, !.captured = FALSE, !.cut = FALSE])
                   /\ screen' \in {"decoy-empty",
                                   IF screen = "game" THEN IF party' THEN "lobby" ELSE "solo" ELSE screen}
                \/ book' = b /\ screen' \in {screen, "decoy-empty"}
    <3>1. screen = "solo" /\ drill.left = 0
      BY <1>1, <2>6, ButtonPages, Pages DEF PlaySolo, TypeInv
    <3>2. Keeps(book, book') /\ game'.phase = "lobby"
      <4>1. game'.phase = "lobby"
        BY <2>6 DEF Idle
      <4>2. Keeps(b, book')
        BY <2>4, <2>6, SessionGoes, KeepsChain
      <4>3. QED BY <2>4, <4>1, <4>2, KeepsChain
    <3>3. screen' \in {"solo", "decoy-empty"}
      BY <2>6, <3>1
    <3>4. DeskRules'
      BY <2>2, <2>3, <3>1, <3>2, <3>3 DEF DeskRules, Places, PartyBook, LobbyIdle, DemoDesk, Seated
    <3>5. QED BY <2>3, <3>2, <3>4 DEF Answered
  <2>7. QED BY <2>3, <2>5, <2>6 DEF Begin, b
<1>2. CASE BeginParty
  <2>1. ~gate /\ (Clicks("go-game") \/ (Clicks("hot") /\ party))
        /\ UNCHANGED <<party, minting, drill, mock, demo, gate, given, covered>>
        /\ Begin(book, game, phones)
    BY <1>2, ButtonPages DEF BeginParty, TypeInv
  <2>2. party /\ ~demo /\ (covered \/ ~Work(book))
    <3>1. CASE Clicks("go-game")
      BY <2>1, <3>1, ButtonPages, LobbyPage DEF TypeInv
    <3>2. CASE Clicks("hot") /\ party
      <4>1. Shown \in {"rollup", "results"}
        BY <3>2, ButtonPages DEF TypeInv
      <4>2. ~book.open
        BY <2>1, <3>2, <4>1, Pages DEF TypeInv, DeskRules, Places, PartyBook, OnDesk
      <4>3. QED BY <3>2, <4>2 DEF Work, DeskRules, Places
    <3>3. QED BY <2>1, <3>1, <3>2
  <2>3. CASE /\ book' = OpenSession(book, "game") /\ screen' = "game"
             /\ \E auto \in BOOLEAN : game' = [Idle("play") EXCEPT !.auto = auto]
    <3>1. book'.mode = "game" /\ (~Work(book) => Keeps(book, book')) /\ game'.phase = "play"
      BY <1>0, <2>3, SessionOpens DEF Idle
    <3>2. DeskRules'
      BY <2>1, <2>2, <2>3, <3>1
         DEF DeskRules, Places, PartyBook, LobbyIdle, DemoDesk, Seated, OnDesk
    <3>3. QED BY <2>1, <2>2, <3>1, <3>2 DEF Answered
  <2>4. CASE /\ ~Clicks("hot") /\ game' = game
             /\ \/ /\ book' = NoSession([book EXCEPT !.attempts = {}, !.captured = FALSE, !.cut = FALSE])
                   /\ screen' \in {"decoy-empty",
                                   IF screen = "game" THEN IF party' THEN "lobby" ELSE "solo" ELSE screen}
                \/ book' = book /\ screen' \in {screen, "decoy-empty"}
    <3>1. /\ game.phase # "attract" /\ (covered \/ (game.phase = "lobby" /\ ~Work(book)))
          /\ screen = "lobby" \/ (screen = "game" /\ game.phase = "lobby")
      BY <2>1, <2>4, ButtonPages, LobbyPage DEF TypeInv
    <3>2. /\ ~Work(book) => Keeps(book, book')
          /\ book'.open => book' = book
      BY <1>0, <2>4, SessionGoes, KeepsChain
    <3>3. screen' \in {"lobby", "decoy-empty", screen}
      BY <2>1, <2>2, <2>4
    <3>4. DeskRules'
      BY <2>1, <2>2, <2>4, <3>1, <3>2, <3>3
         DEF DeskRules, Places, PartyBook, LobbyIdle, DemoDesk, Seated, OnDesk, Work
    <3>5. QED BY <2>1, <2>2, <3>2, <3>4 DEF Answered
  <2>5. QED BY <2>1, <2>3, <2>4 DEF Begin
<1>3. CASE BriefClick
  <2>1. ~gate /\ game.phase # "attract" /\ (covered \/ ~Work(book))
    BY <1>3, ButtonPages, LobbyPage DEF BriefClick, TypeInv
  <2>2. /\ demo' /\ ~party' /\ screen' = "solo" /\ drill'.left = 0
        /\ UNCHANGED <<gate, given, covered>>
    BY <1>3 DEF BriefClick, EnterDemo, ClosePartyLink, NoDrill
  <2>3. PICK b \in Book : book' = Redraw(b, game') /\ (~Work(book) => Keeps(book, b))
    BY <1>0, <1>3, SessionOpens, SessionGoes DEF BriefClick, EnterDemo
  <2>4. game' \in Game /\ game'.phase # "attract" /\ (game'.phase = "reveal" => game'.answer # 0)
    BY <1>0, <1>3, <2>1, IdleGames DEF BriefClick
  <2>5. Redrawn(b, game', book')
    BY <2>3, <2>4, RedrawKeeps
  <2>6. DeskRules'
    BY <2>1, <2>2, <2>4, <2>5 DEF DeskRules, Places, PartyBook, LobbyIdle, DemoDesk, Seated, Redrawn
  <2>7. QED BY <2>1, <2>2, <2>3, <2>5, <2>6, KeepsChain DEF Answered, Redrawn
<1>4. QED BY <1>1, <1>2, <1>3

\* A round's end and the next one: the game moves under any screen.
LEMMA RoundRules ==
  ASSUME TypeInv, TypeInv', DeskRules, Reveal \/ Advance
  PROVE  DeskRules' /\ Answered
<1>0. /\ book \in Book /\ book' \in Book /\ game \in Game /\ game' \in Game /\ gate \in BOOLEAN
      /\ (game'.phase = "reveal" => game'.answer # 0) /\ given \in 0..MaxAnswers
  BY TypeGroups DEF TypeInv, AnswerShown
<1>1. CASE Reveal
  <2> DEFINE now == [book EXCEPT !.captured = FALSE,
                                 !.stray = IF gate THEN @ \cup {given'} ELSE @]
  <2>1. /\ game.phase = "play" /\ given' = given + 1 /\ book' = Render(now, game')
        /\ game' = [game EXCEPT !.phase = "reveal", !.answer = given']
        /\ UNCHANGED <<screen, party, minting, drill, mock, demo, gate, covered>>
    BY <1>1 DEF Reveal
  <2>2. game'.phase = "reveal" /\ game'.answer = given'
    BY <1>0, <2>1 DEF Game
  <2>3. given' \in Answers
    BY <1>0, <1>1, DeskAssumption DEF Reveal, Answers
  <2>4. /\ now \in Book /\ Keeps(book, now) /\ (gate => Kept(now, given')) /\ ~now.captured
        /\ now.open = book.open /\ now.mode = book.mode /\ now.cut = book.cut
    BY <1>0, <2>3 DEF Book, Keeps, Kept
  <2> HIDE DEF now
  <2>5. /\ Keeps(now, book') /\ Kept(book', given')
        /\ book'.open = now.open /\ book'.mode = now.mode /\ book'.cut = now.cut
    <3>1. CASE gate
      <4>1. book' = now
        BY <2>1, <3>1 DEF Render
      <4>2. QED BY <2>4, <3>1, <4>1, KeepsChain
    <3>2. CASE ~gate
      <4>1. Redrawn(now, game', book')
        BY <1>0, <2>1, <2>4, <3>2, RedrawKeeps DEF Render
      <4>2. QED BY <2>2, <2>4, <4>1 DEF Redrawn
    <3>3. QED BY <3>1, <3>2
  <2>6. DeskRules'
    BY <2>1, <2>2, <2>4, <2>5
       DEF DeskRules, Places, PartyBook, LobbyIdle, DemoDesk, Seated, OnDesk, Sits
  <2>7. QED BY <2>1, <2>4, <2>5, <2>6, KeepsChain DEF Answered
<1>2. CASE Advance
  <2>1. /\ game.phase = "reveal" /\ book' = Render(book, game')
        /\ \E phase \in {"play", "results"} : game' = [game EXCEPT !.phase = phase]
        /\ UNCHANGED <<screen, party, minting, drill, mock, demo, gate, given, covered>>
    BY <1>2 DEF Advance
  <2>2. game'.phase \in {"play", "results"}
    BY <1>0, <2>1 DEF Game
  <2>3. /\ Keeps(book, book') /\ (book'.open => book.open) /\ book'.mode = book.mode
        /\ \A mode \in {"quiet", "mock"} : Sits(book, mode) => Sits(book', mode)
        /\ game'.phase = "results" /\ ~gate => ~book'.open
    <3>1. CASE gate
      BY <1>0, <2>1, <3>1, RenderKeeps, KeepsChain
    <3>2. CASE ~gate
      BY <1>0, <2>1, <3>2, RenderKeeps DEF Redrawn, Sits
    <3>3. QED BY <1>0, <3>1, <3>2
  <2>4. DeskRules'
    BY <2>1, <2>2, <2>3 DEF DeskRules, Places, PartyBook, LobbyIdle, DemoDesk, Seated, OnDesk
  <2>5. QED BY <2>1, <2>3, <2>4 DEF Answered
<1>3. QED BY <1>1, <1>2

\* The account's page, in front of the desk and away again.
LEMMA AccountRules ==
  ASSUME TypeInv, DeskRules, LogOut \/ LogIn \/ TryDemo \/ LeavePreview
  PROVE  DeskRules' /\ Answered
<1>0. /\ book \in Book /\ game \in Game /\ (game.phase = "reveal" => game.answer # 0)
  BY TypeGroups DEF TypeInv, AnswerShown
<1>1. CASE LogOut
  BY <1>1, KeepsChain DEF LogOut, DeskRules, Places, PartyBook, LobbyIdle, DemoDesk, Seated,
     OnDesk, Work, Answered
<1>2. CASE LogIn
  <2>1. /\ ~demo /\ ~party' /\ screen' = "attract" /\ game'.phase = "lobby"
        /\ UNCHANGED <<book, demo, given, covered>>
    BY <1>2, IdleGames DEF LogIn, DeskRules, Places
  <2>2. DeskRules'
    BY <2>1 DEF DeskRules, Places, PartyBook, LobbyIdle, DemoDesk, Seated
  <2>3. QED BY <2>1, <2>2, KeepsChain DEF Answered
<1>3. CASE TryDemo
  <2>1. /\ ~gate' /\ demo' /\ ~party' /\ screen' = "solo" /\ drill'.left = 0
        /\ book' = Redraw(book, game) /\ UNCHANGED <<game, given, covered>>
    BY <1>3 DEF TryDemo, EnterDemo, ClosePartyLink, NoDrill
  <2>2. Redrawn(book, game, book')
    BY <1>0, <2>1, RedrawKeeps
  <2>3. DeskRules'
    BY <2>1, <2>2 DEF DeskRules, Places, PartyBook, LobbyIdle, DemoDesk, Seated, Redrawn
  <2>4. QED BY <2>1, <2>2, <2>3 DEF Answered, Redrawn
<1>4. CASE LeavePreview
  BY <1>4, KeepsChain DEF LeavePreview, DeskRules, Places, PartyBook, LobbyIdle, DemoDesk, Seated,
     OnDesk, Work, Sits, Answered
<1>5. QED BY <1>1, <1>2, <1>3, <1>4

-----------------------------------------------------------------------------

DeskInv == TypeInv /\ DeskRules /\ EveryAnswerKept

\* The answers of a step, under the lobby's rules, stay counted.
LEMMA AnswersStay ==
  ASSUME TypeInv, TypeInv', EveryAnswerKept, Answered
  PROVE  EveryAnswerKept'
<1>0. /\ given \in 0..MaxAnswers /\ given' \in 0..MaxAnswers
      /\ \A a \in 1..given : a \in Answers
      /\ \A a \in 1..given' : a \in Answers
  <2>1. given \in 0..MaxAnswers /\ given' \in 0..MaxAnswers
    BY TypeGroups DEF TypeInv
  <2>2. QED BY <2>1, DeskAssumption DEF Answers
<1>1. SUFFICES ASSUME ~covered', NEW a \in 1..given' PROVE Kept(book', a)
  BY DEF EveryAnswerKept, Kept
<1>2. ~covered /\ Keeps(book, book')
  BY <1>1 DEF Answered
<1>3. CASE a \in 1..given
  BY <1>0, <1>2, <1>3 DEF EveryAnswerKept, Kept, Keeps
<1>4. CASE a \notin 1..given
  <2>1. given' = given + 1 /\ a = given'
    BY <1>0, <1>1, <1>4, DeskAssumption DEF Answered
  <2>2. QED BY <1>1, <2>1, <1>0, DeskAssumption DEF Answered
<1>5. QED BY <1>3, <1>4

LEMMA DeskStep ==
  ASSUME DeskInv, [Next]_vars
  PROVE  DeskInv'
<1>1. TypeInv' /\ TypeOK'
  BY TypeStep DEF DeskInv, TypeInv
<1>2. CASE UNCHANGED vars
  BY <1>2 DEF DeskInv, TypeInv, TypeOK, AnswerShown, vars, DeskRules, Places, PartyBook, LobbyIdle,
     DemoDesk, Seated, OnDesk, Work, Sits, EveryAnswerKept
<1>3. CASE Next
  <2>1. DeskRules' /\ Answered
    <3>1. CASE \/ EnterMultiplayer \/ DemoStaysSolo \/ MintSettles \/ RosterChanges
               \/ Solo \/ About \/ Back
      BY <3>1, PartyRules DEF DeskInv
    <3>2. CASE LeaveMultiplayer
      BY <3>2, LeaveRules DEF DeskInv
    <3>3. CASE StartDrill \/ PickChoice \/ AdvanceQuiet \/ SoloStop
      BY <1>1, <3>3, DrillRules DEF DeskInv
    <3>4. CASE StartMock \/ AnswerMock \/ MockTimeUp \/ StopMock
      BY <3>4, MockRules DEF DeskInv
    <3>5. CASE GoDesk \/ BackToLobby
      BY <3>5, DeskPagesRules DEF DeskInv
    <3>6. CASE PlaySolo \/ BeginParty \/ BriefClick
      BY <3>6, GameRules DEF DeskInv
    <3>7. CASE Reveal \/ Advance
      BY <1>1, <3>7, RoundRules DEF DeskInv
    <3>8. CASE LogOut \/ LogIn \/ TryDemo \/ LeavePreview
      BY <3>8, AccountRules DEF DeskInv
    <3>9. QED BY <1>3, <3>1, <3>2, <3>3, <3>4, <3>5, <3>6, <3>7, <3>8 DEF Next
  <2>2. QED BY <1>1, <2>1, AnswersStay DEF DeskInv
<1>4. QED BY <1>2, <1>3

LEMMA DeskInvariant == Spec => []DeskInv
<1>1. Init => DeskInv
  BY TypeInit, RulesInit DEF DeskInv
<1>2. QED BY <1>1, DeskStep, PTL DEF Spec

\* No way around the desk, through a game, a party, the demo or the title,
\* throws away an answer given in a session (finalizeSession before each
\* openSession), but for a lobby that a late room code put over a game.
THEOREM NoAnswerIsLost == Spec => []EveryAnswerKept
<1>1. DeskInv => EveryAnswerKept
  BY DEF DeskInv
<1>2. QED BY <1>1, DeskInvariant, PTL

\* A card or a mock item on show is in an open session of its own kind, while
\* no room is being minted and no game's results have closed the session.
THEOREM WorkOnShowCounts == Spec => []DeskHasASession
<1>1. ASSUME DeskInv PROVE DeskHasASession
  <2>1. gate => Shown \notin {"card", "mock"}
    BY DEF Shown
  <2>2. ~gate => /\ Shown = "card" => screen = "solo" /\ drill.left > 0
                 /\ Shown = "mock" => screen = "mock" /\ mock.is = "on"
    BY <1>1, Pages DEF DeskInv, TypeInv
  <2>3. party \in BOOLEAN /\ minting \in Nat
    BY <1>1, TypeGroups, DeskAssumption DEF DeskInv, TypeInv
  <2>4. QED BY <1>1, <2>1, <2>2, <2>3 DEF DeskInv, DeskRules, PartyBook, Seated, OnDesk, Sits, DeskHasASession
<1>2. QED BY <1>1, DeskInvariant, PTL
=============================================================================
