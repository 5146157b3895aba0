--------------------------- MODULE PartyGame_proof ---------------------------
(***************************************************************************)
(* Proofs about PartyGame, for any number of phones, options, flights,     *)
(* prompts and games.                                                      *)
(***************************************************************************)
EXTENDS PartyGame, FiniteSetTheorems, WellFoundedInduction, TLAPS

-----------------------------------------------------------------------------
(* Lemmas about the roster operators. *)

\* A set of phones is finite and has a size.
LEMMA PhoneSetsFinite ==
  ASSUME NEW S \in SUBSET Phone
  PROVE  IsFiniteSet(S) /\ Cardinality(S) \in Nat
<1>1. IsFiniteSet(S)
  BY PartyAssumption, FS_Subset
<1>2. QED BY <1>1, FS_CardinalityType

\* A non-empty set of naturals has a least element.
LEMMA LeastNatural ==
  ASSUME NEW S \in SUBSET Nat, S # {}
  PROVE  \E n \in S : \A m \in S : n <= m
<1>1. PICK n \in S : \A m \in S : <<m, n>> \notin OpToRel(<, Nat)
  BY WFMin, NatLessThanWellFounded, Zenon
<1>2. \A m \in S : ~(m < n)
  BY <1>1, Zenon DEF OpToRel
<1>3. QED BY <1>2

\* LowestOf picks the first of a non-empty set of flights.
LEMMA LowestOfType ==
  ASSUME NEW S \in SUBSET Flight
  PROVE  /\ LowestOf(S) \in Team
         /\ S # {} => LowestOf(S) \in S /\ \A g \in S : LowestOf(S) <= g
<1>1. CASE S = {}
  BY <1>1 DEF LowestOf, Team
<1>2. CASE S # {}
  <2>1. S \in SUBSET Nat
    BY PartyAssumption DEF Flight
  <2>2. \E f \in S : \A g \in S : f <= g
    BY <1>2, <2>1, LeastNatural
  <2>3. QED BY <1>2, <2>2 DEF LowestOf, Team
<1>3. QED BY <1>1, <1>2

\* First picks a member of a non-empty set of phones.
LEMMA FirstInSet ==
  ASSUME NEW S \in SUBSET Phone, S # {}, seat \in [Phone -> Nat]
  PROVE  First(S) \in S
<1> DEFINE places == {seat[p] : p \in S}
<1>1. places \in SUBSET Nat /\ places # {}
  OBVIOUS
<1>2. \E n \in places : \A m \in places : n <= m
  BY <1>1, LeastNatural
<1>3. \E p \in S : \A q \in S : seat[p] <= seat[q]
  BY <1>2
<1>4. QED BY <1>3 DEF First

\* ensureCaptains makes nobody outside the flights a captain.
LEMMA EnsureCaptainsType ==
  ASSUME NEW act \in SUBSET Phone, NEW tm, NEW cap \in SUBSET Phone,
         seat \in [Phone -> Nat]
  PROVE  /\ EnsureCaptains(act, tm, cap) \in SUBSET Phone
         /\ \A p \in EnsureCaptains(act, tm, cap) : p \in cap \/ (p \in act /\ tm[p] \in Flight)
<1> DEFINE M(f) == Members(act, tm, f)
           bare == {f \in Flight : M(f) # {} /\ M(f) \cap cap = {}}
           E == EnsureCaptains(act, tm, cap)
<1>1. E = cap \cup {First(M(f)) : f \in bare}
  BY DEF EnsureCaptains
<1>2. \A f \in Flight : M(f) \in SUBSET Phone
  BY DEF Members
<1>3. \A f \in bare : First(M(f)) \in M(f)
  BY <1>2, FirstInSet
<1>4. E \in SUBSET Phone
  BY <1>1, <1>2, <1>3
<1>5. \A p \in E : p \in cap \/ (p \in act /\ tm[p] \in Flight)
  BY <1>1, <1>3 DEF Members
<1>6. QED BY <1>4, <1>5

\* No flight has two captains among the players act, or every flight has one.
NoRivals(act, tm, cap) ==
  \A f \in Flight : \A p, q \in Members(act, tm, f) \cap cap : p = q
AllLed(act, tm, cap) ==
  \A f \in Flight : Members(act, tm, f) # {} =>
    \E c : Members(act, tm, f) \cap cap = {c}

\* It leaves each flight with one captain among its players, if the flight
\* had at most one before.
LEMMA EnsureCaptainsLeads ==
  ASSUME NEW act \in SUBSET Phone, NEW tm \in [Phone -> Team],
         NEW cap \in SUBSET Phone, seat \in [Phone -> Nat],
         NoRivals(act, tm, cap)
  PROVE  AllLed(act, tm, EnsureCaptains(act, tm, cap))
<1> USE DEF NoRivals, AllLed
<1> DEFINE M(f) == Members(act, tm, f)
           bare == {f \in Flight : M(f) # {} /\ M(f) \cap cap = {}}
           E == EnsureCaptains(act, tm, cap)
<1>1. E = cap \cup {First(M(f)) : f \in bare}
  BY DEF EnsureCaptains
<1>2. \A f \in Flight : M(f) \in SUBSET Phone
  BY DEF Members
<1>3. \A f \in bare : First(M(f)) \in M(f)
  BY <1>2, FirstInSet
<1>4. \A f, g \in Flight : M(f) \cap M(g) # {} => f = g
  BY DEF Members
<1>5. ASSUME NEW f \in Flight, M(f) # {}
      PROVE  \E c : M(f) \cap E = {c}
  <2>1. CASE f \in bare
    <3>1. M(f) \cap E = {First(M(f))}
      BY <1>1, <1>3, <1>4, <2>1
    <3>2. QED BY <3>1
  <2>2. CASE f \notin bare
    <3>1. PICK c \in M(f) \cap cap : TRUE
      BY <1>5, <2>2
    <3>2. M(f) \cap E = {c}
      BY <1>1, <1>3, <1>4, <2>2, <3>1
    <3>3. QED BY <3>2
  <2>3. QED BY <2>1, <2>2
<1>6. QED BY <1>5

-----------------------------------------------------------------------------
(* What the helpers leave of the clock and of the round. *)

\* The variables of the round have their types.
RoundTypes ==
  /\ ask \in {"none", "answer", "rank", "huddle", "steal", "sponsor", "vote"}
  /\ answers \in [Phone -> Option \cup {NoOption}]
  /\ suggests \in [Phone -> Option \cup {NoOption}]
  /\ sponsors \in [Phone -> Option \cup {NoOption}]
  /\ lock \in [Team -> Option \cup {NoOption, Blank}]
  /\ turn \in Team
  /\ result \in [Team -> {"unset", "none", "hit", "miss"}]

LEMMA ActiveIsPhones ==
  ASSUME TypeOK
  PROVE  Active \in SUBSET Phone /\ TeamIds \in SUBSET Flight
BY DEF TypeOK, Active, TeamIds

\* A prompt opens with nothing answered and no vote under way.
LEMMA OpenPromptOpens ==
  ASSUME TypeOK, NEW m \in Mode, NEW tm \in [Phone -> Team], OpenPrompt(m, tm)
  PROVE  /\ phase' = "prompt" /\ timer' = "open" /\ current' = m
         /\ RoundTypes'
         /\ ask' # "vote" /\ answers' = NoAnswers
         /\ m = "teams" => \A f \in Team : result'[f] = "none"
<1>1. /\ NoAnswers \in [Phone -> Option \cup {NoOption}]
      /\ answers' = NoAnswers /\ suggests' = NoAnswers
  BY DEF NoAnswers, OpenPrompt, Clear
<1>2. LowestOf({f \in Flight : Members(Active, tm, f) # {}}) \in Team
  BY LowestOfType
<1>3. ask' \in {"none", "answer", "rank", "huddle", "steal", "sponsor"}
  BY DEF OpenPrompt
<1>4. turn' \in Team /\ result' \in [Team -> {"unset", "none", "hit", "miss"}]
  BY <1>2 DEF OpenPrompt, FirstTurn, TypeOK
<1>5. sponsors' \in [Phone -> Option \cup {NoOption}]
  BY <1>1 DEF OpenPrompt, TypeOK
<1>6. lock' \in [Team -> Option \cup {NoOption, Blank}]
  BY DEF OpenPrompt, Clear
<1>7. m = "teams" => \A f \in Team : result'[f] = "none"
  BY DEF OpenPrompt, FirstTurn
<1>8. QED BY <1>1, <1>3, <1>4, <1>5, <1>6, <1>7 DEF OpenPrompt, RoundTypes

\* A prompt that cannot be presented leaves no timer and no answers.
LEMMA OpenNothingOpens ==
  ASSUME TypeOK, OpenNothing
  PROVE  /\ phase' = "prompt" /\ timer' = "none" /\ current' = "none"
         /\ RoundTypes'
         /\ answers' = NoAnswers
<1>1. /\ NoAnswers \in [Phone -> Option \cup {NoOption}]
      /\ answers' = NoAnswers /\ suggests' = NoAnswers
  BY DEF NoAnswers, OpenNothing, Clear
<1>2. LowestOf({f \in Flight : Members(Active, team, f) # {}}) \in Team
  BY LowestOfType
<1>3. turn' \in Team /\ result' \in [Team -> {"unset", "none", "hit", "miss"}]
  BY <1>2 DEF OpenNothing, FirstTurn, TypeOK
<1>4. lock' \in [Team -> Option \cup {NoOption, Blank}]
  BY DEF OpenNothing, Clear
<1>5. QED BY <1>1, <1>3, <1>4 DEF OpenNothing, RoundTypes, TypeOK

\* After a prompt comes the next one, a break, or the results.
LEMMA NextRoundMoves ==
  ASSUME TypeOK, mode \in Mode, NEW c, NextRound(c)
  PROVE  /\ index' = index + 1
         /\ RoundTypes'
         /\ \/ /\ index' >= deck
               /\ phase' = "results" /\ timer' = "none" /\ card' = "none"
               /\ UNCHANGED <<round, current>>
            \/ /\ index' < deck
               /\ phase' = "interstitial" /\ timer' = "break" /\ card' = "break"
               /\ UNCHANGED <<round, current>>
            \/ /\ index' < deck /\ OpenPrompt(mode, team)
               /\ phase' = "prompt" /\ timer' = "open" /\ card' = c /\ current' = mode
               /\ ask' # "vote" /\ answers' = NoAnswers
               /\ mode = "teams" => \A f \in Team : result'[f] = "none"
<1>1. RoundTypes /\ team \in [Phone -> Team] /\ index \in Int /\ deck \in Nat
      /\ index' = index + 1
  BY DEF TypeOK, RoundTypes, NextRound
<1>2. (UNCHANGED round) => RoundTypes'
  BY <1>1 DEF round, RoundTypes
<1>3. CASE index + 1 >= deck
  BY <1>1, <1>2, <1>3 DEF NextRound, Finish
<1>4. CASE index + 1 < deck /\ mode = "lightning" /\ index + 1 > 0 /\ (index + 1) % BreakEvery = 0
  BY <1>1, <1>2, <1>4 DEF NextRound, Break
<1>5. CASE /\ index + 1 < deck
           /\ ~(mode = "lightning" /\ index + 1 > 0 /\ (index + 1) % BreakEvery = 0)
  <2>1. OpenPrompt(mode, team) /\ card' = c
    BY <1>1, <1>5 DEF NextRound
  <2>2. QED BY <1>1, <1>5, <2>1, OpenPromptOpens
<1>6. QED BY <1>1, <1>3, <1>4, <1>5

\* Paying the room leaves scores that are numbers, and shows the answer.
LEMMA RevealPays ==
  ASSUME TypeOK, NEW gain \in [Phone -> Int], Reveal(gain)
  PROVE  /\ score' \in [Phone -> Int]
         /\ phase' = "reveal"
         /\ timer' = IF mode = "lightning" THEN "auto" ELSE "none"
BY DEF TypeOK, Reveal

\* The outcome of a scoring step: the answer is shown, and the answers a
\* that were scored are kept.
Shown(a) ==
  /\ phase' = "reveal" /\ timer' = (IF mode = "lightning" THEN "auto" ELSE "none")
  /\ score' \in [Phone -> Int] /\ combo' \in [Phone -> Nat]
  /\ answers' = a
  /\ UNCHANGED <<ask, suggests, sponsors>>

\* An answer pays a unit or none, or costs one; who does not play pays nothing.
LEMMA PaymentsAreUnits ==
  ASSUME NEW a, NEW pay \in Payments(a)
  PROVE  /\ pay \in [Phone -> {-1, 0, 1}]
         /\ \A p \in Phone \ Active : pay[p] = 0
BY DEF Payments, Pay

LEMMA FooledIsCounted ==
  ASSUME TypeOK, NEW a, NEW p \in Phone
  PROVE  Fooled(a, p) \in SUBSET (Phone \ {p}) /\ Cardinality(Fooled(a, p)) \in Nat
<1>1. Fooled(a, p) \in SUBSET (Phone \ {p})
  BY ActiveIsPhones DEF Fooled
<1>2. QED BY <1>1, PhoneSetsFinite

LEMMA ScoreIndividualShows ==
  ASSUME TypeOK, NEW a \in [Phone -> Option \cup {NoOption}], ScoreIndividual(a)
  PROVE  Shown(a) /\ RoundTypes' /\ result' = result
<1> DEFINE hit == {p \in Active : Right(a[p])}
<1>1. PICK pay \in Payments(a) : Reveal(pay)
  BY DEF ScoreIndividual
<1>2. pay \in [Phone -> Int]
  BY PaymentsAreUnits
<1>3. combo' \in [Phone -> Nat]
  <2>1. CASE mode = "lightning"
    <3>1. combo' = [p \in Phone |-> CASE p \in hit -> combo[p] + 1
                                      [] p \in Active \ hit -> 0
                                      [] OTHER -> combo[p]]
      BY <2>1 DEF ScoreIndividual
    <3> HIDE DEF hit
    <3>2. \A p \in Phone : (CASE p \in hit -> combo[p] + 1
                              [] p \in Active \ hit -> 0
                              [] OTHER -> combo[p]) \in Nat
      BY DEF TypeOK
    <3>3. QED BY <3>1, <3>2
  <2>2. CASE mode # "lightning"
    BY <2>2 DEF ScoreIndividual, TypeOK
  <2>3. QED BY <2>1, <2>2
<1>4. score' \in [Phone -> Int] /\ phase' = "reveal"
      /\ timer' = IF mode = "lightning" THEN "auto" ELSE "none"
  BY <1>1, <1>2, RevealPays
<1>5. answers' = a /\ UNCHANGED <<ask, lock, suggests, sponsors, turn, result>>
  BY DEF ScoreIndividual
<1>6. QED BY <1>3, <1>4, <1>5 DEF Shown, TypeOK, RoundTypes

LEMMA ScoreDecoyShows ==
  ASSUME TypeOK, NEW a \in [Phone -> Option \cup {NoOption}], ScoreDecoy(a)
  PROVE  Shown(a) /\ RoundTypes' /\ result' = result
<1>1. PICK pay \in Payments(a) : Reveal([p \in Phone |-> pay[p] + Cardinality(Fooled(a, p))])
  BY DEF ScoreDecoy
<1> DEFINE gain == [p \in Phone |-> pay[p] + Cardinality(Fooled(a, p))]
<1>2. gain \in [Phone -> Int]
  BY PaymentsAreUnits, FooledIsCounted
<1>3. Reveal(gain)
  BY <1>1
<1> HIDE DEF gain
<1>4. score' \in [Phone -> Int] /\ phase' = "reveal"
      /\ timer' = IF mode = "lightning" THEN "auto" ELSE "none"
  BY <1>2, <1>3, RevealPays
<1>5. answers' = a /\ UNCHANGED <<combo, ask, lock, suggests, sponsors, turn, result>>
  BY DEF ScoreDecoy
<1>6. QED BY <1>4, <1>5 DEF Shown, TypeOK, RoundTypes

LEMMA EnterVoteAsks ==
  ASSUME TypeOK, NEW a \in [Phone -> Option \cup {NoOption}], EnterVote(a)
  PROVE  /\ phase' = "collect" /\ timer' = "collect"
         /\ answers' = NoAnswers
         /\ RoundTypes' /\ UNCHANGED <<tally, result>>
BY DEF EnterVote, OpenCollect, TypeOK, RoundTypes, NoAnswers

\* A scored lock shows the answer or passes the prompt to another flight,
\* unless it stops halfway for want of a teamResult.
LEMMA ScoreTeamsMoves ==
  ASSUME TypeOK, NEW l \in [Team -> Option \cup {NoOption, Blank}], ScoreTeams(l)
  PROVE  /\ RoundTypes' /\ answers' = answers
         /\ \A f \in Team : result[f] # "unset" => result'[f] # "unset"
         /\ \/ Shown(answers)
            \/ /\ phase' = "collect" /\ timer' = "collect" /\ ask' = "steal"
               /\ UNCHANGED tally
            \/ /\ result[turn] = "unset" /\ phase' = phase /\ timer' = "none"
               /\ UNCHANGED tally
<1> DEFINE ok == Right(l[turn])
           later == {f \in TeamIds : f > turn}
           steal == ~ok /\ turn \in TeamIds /\ later # {}
           gain == [p \in Phone |-> IF ok /\ p \in Active /\ team[p] = turn THEN 1 ELSE 0]
<1>0. CASE result[turn] = "unset"
  BY <1>0 DEF ScoreTeams, ScoreTeamsThrows, TypeOK, RoundTypes
<1>1. CASE result[turn] # "unset"
  <2>1. /\ result' = [result EXCEPT ![turn] = IF ok THEN "hit" ELSE "miss"]
        /\ lock' = l
        /\ UNCHANGED <<combo, answers, suggests, sponsors>>
    BY <1>1 DEF ScoreTeams
  <2>2. /\ result' \in [Team -> {"unset", "none", "hit", "miss"}]
        /\ \A f \in Team : result[f] # "unset" => result'[f] # "unset"
    BY <2>1 DEF TypeOK
  <2>3. CASE steal
    <3>1. turn' = LowestOf(later) /\ OpenCollect("steal") /\ UNCHANGED score
      BY <1>1, <2>3 DEF ScoreTeams
    <3>2. LowestOf(later) \in Team
      BY ActiveIsPhones, LowestOfType
    <3>3. QED BY <2>1, <2>2, <3>1, <3>2 DEF OpenCollect, RoundTypes, TypeOK, tally
  <2>4. CASE ~steal
    <3>1. Reveal(gain) /\ UNCHANGED <<turn, ask>>
      BY <1>1, <2>4 DEF ScoreTeams
    <3>2. gain \in [Phone -> Int]
      OBVIOUS
    <3>3. score' \in [Phone -> Int] /\ phase' = "reveal"
          /\ timer' = IF mode = "lightning" THEN "auto" ELSE "none"
      BY <3>1, <3>2, RevealPays
    <3>4. QED BY <2>1, <2>2, <3>1, <3>3 DEF Shown, RoundTypes, TypeOK
  <2>5. QED BY <2>3, <2>4
<1>2. QED BY <1>0, <1>1

-----------------------------------------------------------------------------
(* Each group of variables as a step leaves it. *)

RosterTypes == seat \in [Phone -> Nat] /\ here \subseteq Phone /\ audience \subseteq Phone
FlightTypes == team \in [Phone -> Team] /\ captain \subseteq Phone
TallyTypes == score \in [Phone -> Int] /\ combo \in [Phone -> Nat]
ClockTypes ==
  /\ phase \in {"lobby", "prompt", "collect", "reveal", "interstitial", "results"}
  /\ timer \in {"none", "open", "collect", "break", "auto"}
  /\ card \in {"none", "break", "dare"}
GameTypes ==
  /\ mode \in Mode \cup {"none"} /\ current \in Mode \cup {"none"}
  /\ deck \in Nat /\ index \in Int /\ starts \in Nat

LEMMA TypeGroups ==
  /\ TypeOK <=> /\ RosterTypes /\ FlightTypes /\ TallyTypes
                /\ ClockTypes /\ GameTypes /\ RoundTypes
  /\ TypeOK' <=> /\ RosterTypes' /\ FlightTypes' /\ TallyTypes'
                 /\ ClockTypes' /\ GameTypes' /\ RoundTypes'
BY DEF TypeOK, RosterTypes, FlightTypes, TallyTypes, ClockTypes, GameTypes, RoundTypes

LEMMA Frames ==
  ASSUME TypeOK
  PROVE  /\ UNCHANGED roster => RosterTypes' /\ Active' = Active
         /\ UNCHANGED flights => FlightTypes'
         /\ UNCHANGED tally => TallyTypes'
         /\ UNCHANGED round => RoundTypes'
         /\ UNCHANGED clock => ClockTypes'
         /\ UNCHANGED game => GameTypes'
BY DEF TypeOK, RosterTypes, FlightTypes, TallyTypes, ClockTypes, GameTypes, RoundTypes,
       roster, flights, tally, round, clock, game, Active

\* A known game: while one is under way it has a mode, and its item is one of
\* the deck unless a refused start took the deck away.
LEMMA GameUnderWay ==
  ASSUME TypeOK, TimerMatchesPhase, phase \notin {"lobby", "results"}
  PROVE  /\ mode \in Mode
         /\ deck # 0 => index \in 0 .. deck - 1 /\ mode = current
BY DEF TypeOK, TimerMatchesPhase

\* Prepare deals flights of the players who are there.
LEMMA PreparesFlights ==
  ASSUME TypeOK, NEW m \in Mode, NEW n \in 2 .. FlightMax, Prepare(m, n)
  PROVE  FlightTypes' /\ TallyTypes' /\ mode' = m /\ starts' \in Nat
<1>1. TallyTypes' /\ mode' = m /\ starts' \in Nat
  BY DEF Prepare, TypeOK, TallyTypes, tally
<1>2. CASE m = "teams"
  <2> DEFINE size == Cardinality(Active)
             k == IF n < size THEN n ELSE size
  <2>1. size \in Nat /\ size >= 2
    BY <1>2, ActiveIsPhones, PhoneSetsFinite DEF Prepare
  <2>2. k \in 2 .. FlightMax
    BY <2>1, PartyAssumption
  <2>3. team' = Dealt(k) /\ captain' = EnsureCaptains(Active, team', captain \ Active)
    BY <1>2 DEF Prepare
  <2>4. ASSUME NEW p \in Phone
        PROVE  Cardinality({q \in Active : seat[q] < seat[p]}) % k \in Flight
    <3>1. Cardinality({q \in Active : seat[q] < seat[p]}) \in Nat
      BY ActiveIsPhones, PhoneSetsFinite
    <3> HIDE DEF k
    <3>2. QED BY <2>2, <3>1, PartyAssumption DEF Flight
  <2>5. team' \in [Phone -> Team]
    <3> HIDE DEF k
    <3>1. QED BY <2>3, <2>4 DEF Dealt, Team, TypeOK
  <2>6. captain \ Active \in SUBSET Phone /\ Active \in SUBSET Phone
    BY ActiveIsPhones DEF TypeOK
  <2>7. captain' \in SUBSET Phone
    BY <2>3, <2>6, EnsureCaptainsType DEF TypeOK
  <2>8. QED BY <1>1, <2>5, <2>7 DEF FlightTypes
<1>3. CASE m # "teams"
  BY <1>1, <1>3 DEF Prepare, FlightTypes, TypeOK, Team
<1>4. QED BY <1>1, <1>2, <1>3

\* A prompt that teams put up has set teamResult, and items count from zero.
UnderWay ==
  /\ current = "teams" => \A f \in Team : result[f] # "unset"
  /\ phase # "lobby" => index >= 0

\* The types, and what the clock and the open prompt have to do with the phase.
Base == TypeOK /\ TimerMatchesPhase /\ UnderWay

LEMMA BaseFrame ==
  ASSUME Base, UNCHANGED <<round, clock, game>>
  PROVE  TimerMatchesPhase' /\ UnderWay'
BY DEF Base, TimerMatchesPhase, UnderWay, round, clock, game

\* What a phone's act or the end of the clock leaves of the clock and round:
\* still collecting, or the answer shown.  Without a teamResult the clock stops.
Scored ==
  /\ TallyTypes' /\ RoundTypes'
  /\ \A f \in Team : result[f] # "unset" => result'[f] # "unset"
  /\ \/ phase' = "collect" /\ timer' \in {timer, "collect"}
     \/ mode = "teams" /\ result[turn] = "unset" /\ phase' = "collect" /\ timer' = "none"
     \/ phase' = "reveal" /\ timer' = IF mode = "lightning" THEN "auto" ELSE "none"

LEMMA ScoringSteps ==
  ASSUME TypeOK, phase = "collect"
  PROVE  /\ \A a \in [Phone -> Option \cup {NoOption}] :
              ScoreIndividual(a) \/ ScoreDecoy(a) \/ EnterVote(a) \/ Wait(a) => Scored
         /\ mode = "teams" =>
              \A l \in [Team -> Option \cup {NoOption, Blank}] : ScoreTeams(l) => Scored
<1>1. ASSUME NEW a \in [Phone -> Option \cup {NoOption}]
      PROVE  ScoreIndividual(a) \/ ScoreDecoy(a) \/ EnterVote(a) \/ Wait(a) => Scored
  <2>1. ScoreIndividual(a) => Scored
    BY ScoreIndividualShows DEF Shown, Scored, TallyTypes
  <2>2. ScoreDecoy(a) => Scored
    BY ScoreDecoyShows DEF Shown, Scored, TallyTypes
  <2>3. EnterVote(a) => Scored
    BY EnterVoteAsks, Frames DEF Scored
  <2>4. Wait(a) => Scored
    BY DEF Wait, Scored, TypeOK, TallyTypes, RoundTypes, tally
  <2>5. QED BY <2>1, <2>2, <2>3, <2>4
<1>2. ASSUME mode = "teams", NEW l \in [Team -> Option \cup {NoOption, Blank}], ScoreTeams(l)
      PROVE  Scored
  <2>1. RoundTypes' /\ \A f \in Team : result[f] # "unset" => result'[f] # "unset"
    BY <1>2, ScoreTeamsMoves
  <2>2. TallyTypes'
    BY <1>2, ScoreTeamsMoves, Frames DEF Shown, TallyTypes
  <2>3. \/ phase' = "reveal" /\ timer' = IF mode = "lightning" THEN "auto" ELSE "none"
        \/ phase' = "collect" /\ timer' = "collect"
        \/ result[turn] = "unset" /\ phase' = "collect" /\ timer' = "none"
    BY <1>2, ScoreTeamsMoves DEF Shown
  <2>4. QED BY <1>2, <2>1, <2>2, <2>3 DEF Scored
<1>3. QED BY <1>1, <1>2

\* A step that only scores, keeps the types and the clock's discipline.
LEMMA ScoredKeepsBase ==
  ASSUME Base, phase = "collect", Scored, UNCHANGED <<roster, flights, card, game>>
  PROVE  Base'
<1>1. RosterTypes' /\ FlightTypes' /\ GameTypes' /\ TallyTypes' /\ RoundTypes'
  BY Frames DEF Base, Scored
<1>2. mode \in Mode /\ (deck # 0 => index \in 0 .. deck - 1 /\ mode = current)
  BY GameUnderWay DEF Base
<1>3. deck # 0 => ~(mode = "teams" /\ result[turn] = "unset")
  BY <1>2 DEF Base, UnderWay, TypeOK
<1>4. ClockTypes' /\ TimerMatchesPhase'
  BY <1>2, <1>3 DEF Base, Scored, TypeOK, ClockTypes, TimerMatchesPhase, game
<1>5. UnderWay'
  BY DEF Base, UnderWay, Scored, game
<1>6. QED BY <1>1, <1>4, <1>5, TypeGroups DEF Base

LEMMA CollectingActs ==
  ASSUME Base, NEW p \in Phone, NEW o \in Option,
         Choose(p, o) \/ Sponsor(p, o) \/ Vote(p, o) \/ Suggest(p, o) \/ LockAnswer(p, o)
  PROVE  Scored /\ phase = "collect"
         /\ UNCHANGED <<roster, flights, card, game>>
<1>1. phase = "collect" /\ UNCHANGED <<roster, flights, card, game>>
  BY DEF Choose, Sponsor, Vote, Suggest, LockAnswer, Collecting
<1>2. /\ answers \in [Phone -> Option \cup {NoOption}]
      /\ [answers EXCEPT ![p] = o] \in [Phone -> Option \cup {NoOption}]
      /\ [lock EXCEPT ![turn] = o] \in [Team -> Option \cup {NoOption, Blank}]
  BY DEF Base, TypeOK
<1>3. \A a \in [Phone -> Option \cup {NoOption}] :
        ScoreIndividual(a) \/ ScoreDecoy(a) \/ EnterVote(a) \/ Wait(a) => Scored
  BY <1>1, ScoringSteps DEF Base
<1>4. CASE Choose(p, o)
  <2> DEFINE a == IF p \in Active /\ (mode = "sjt" \/ answers[p] = NoOption)
                  THEN [answers EXCEPT ![p] = o] ELSE answers
  <2>1. a \in [Phone -> Option \cup {NoOption}]
    BY <1>2
  <2>2. ScoreIndividual(a) \/ Wait(a)
    BY <1>4 DEF Choose
  <2> HIDE DEF a
  <2>3. QED BY <1>1, <1>3, <2>1, <2>2
<1>5. CASE Sponsor(p, o)
  <2> DEFINE a == IF p \in Active /\ answers[p] = NoOption /\ o # Truth
                  THEN [answers EXCEPT ![p] = o] ELSE answers
  <2>1. a \in [Phone -> Option \cup {NoOption}]
    BY <1>2
  <2>2. EnterVote(a) \/ Wait(a)
    BY <1>5 DEF Sponsor
  <2> HIDE DEF a
  <2>3. QED BY <1>1, <1>3, <2>1, <2>2
<1>6. CASE Vote(p, o)
  <2> DEFINE a == IF p \in Active /\ answers[p] = NoOption /\ o # sponsors[p]
                  THEN [answers EXCEPT ![p] = o] ELSE answers
  <2>1. a \in [Phone -> Option \cup {NoOption}]
    BY <1>2
  <2>2. ScoreDecoy(a) \/ Wait(a)
    BY <1>6 DEF Vote
  <2> HIDE DEF a
  <2>3. QED BY <1>1, <1>3, <2>1, <2>2
<1>7. CASE Suggest(p, o)
  BY <1>1, <1>7, Frames DEF Suggest, Scored, Base, TypeOK, RoundTypes
<1>8. CASE LockAnswer(p, o)
  <2>1. ScoreTeams([lock EXCEPT ![turn] = o]) /\ mode = "teams"
    BY <1>8 DEF LockAnswer
  <2>2. QED BY <1>1, <1>2, <2>1, ScoringSteps DEF Base
<1>9. QED BY <1>1, <1>4, <1>5, <1>6, <1>7, <1>8

LEMMA SuggestedType ==
  ASSUME TypeOK
  PROVE  Suggested \in Option \cup {Blank}
<1> DEFINE best == {o \in Option : /\ Backers(o) # {}
                                   /\ \A x \in Option : Cardinality(Backers(x)) <= Cardinality(Backers(o))}
           named == UNION {Backers(x) : x \in best}
<1>1. CASE best = {} \/ turn = NoTeam
  BY <1>1 DEF Suggested
<1>2. CASE best # {} /\ turn # NoTeam
  <2>1. named \in SUBSET Phone /\ named # {}
    BY <1>2, ActiveIsPhones DEF Backers, Members
  <2>2. First(named) \in named
    BY <2>1, FirstInSet DEF TypeOK
  <2>3. \E o \in best : First(named) \in Backers(o)
    BY <2>2
  <2>4. Suggested = CHOOSE o \in best : First(named) \in Backers(o)
    BY <1>2 DEF Suggested
  <2>5. QED BY <2>3, <2>4
<1>3. QED BY <1>1, <1>2

LEMMA TimeUpScores ==
  ASSUME Base, TimeUp
  PROVE  Scored /\ phase = "collect"
         /\ UNCHANGED <<roster, flights, card, game>>
<1>1. phase = "collect" /\ UNCHANGED <<roster, flights, card, game>>
  BY DEF TimeUp
<1>2. mode \in Mode
  BY <1>1, GameUnderWay DEF Base
<1> DEFINE l == IF lock[turn] = NoOption THEN [lock EXCEPT ![turn] = Suggested] ELSE lock
<1>3. answers \in [Phone -> Option \cup {NoOption}]
      /\ l \in [Team -> Option \cup {NoOption, Blank}]
  BY SuggestedType DEF Base, TypeOK
<1>4. CASE mode \in Individual
  <2>1. ScoreIndividual(answers)
    BY <1>4 DEF TimeUp, Individual
  <2>2. QED BY <1>1, <1>3, <2>1, ScoringSteps DEF Base
<1>5. CASE mode = "decoy"
  <2>1. EnterVote(answers) \/ ScoreDecoy(answers)
    BY <1>5 DEF TimeUp, Individual
  <2>2. QED BY <1>1, <1>3, <2>1, ScoringSteps DEF Base
<1>6. CASE mode = "teams"
  <2>1. ScoreTeams(l)
    BY <1>6 DEF TimeUp, Individual
  <2> HIDE DEF l
  <2>2. QED BY <1>1, <1>3, <1>6, <2>1, ScoringSteps DEF Base
<1>7. QED BY <1>2, <1>4, <1>5, <1>6, PartyAssumption

-----------------------------------------------------------------------------
(* Types and the timer. *)

LEMMA BaseInit == Init => Base
<1> SUFFICES ASSUME Init PROVE Base
  OBVIOUS
<1>1. 0 \in Team /\ NoTeam \in Team
  BY PartyAssumption DEF Team, Flight, NoTeam
<1>2. TypeOK
  BY <1>1 DEF Init, TypeOK, NoAnswers
<1>3. TimerMatchesPhase /\ UnderWay
  BY DEF Init, TimerMatchesPhase, UnderWay
<1>4. QED BY <1>2, <1>3 DEF Base

LEMMA RosterKeepsBase ==
  ASSUME Base, NEW p \in Phone,
         DropPlayer(p) \/ \E w \in BOOLEAN : AddPlayer(p, w)
  PROVE  Base'
<1>1. CASE \E w \in BOOLEAN : AddPlayer(p, w)
  <2>1. RosterTypes'
    <3>1. Cardinality(Players) \in Nat
      BY PhoneSetsFinite DEF Players
    <3>2. QED BY <1>1, <3>1 DEF AddPlayer, RosterTypes, Base, TypeOK
  <2>2. UNCHANGED <<flights, tally, round, clock, game>>
    BY <1>1 DEF AddPlayer
  <2>3. QED BY <2>1, <2>2, BaseFrame, TypeGroups, Frames DEF Base
<1>2. CASE DropPlayer(p)
  <2>1. RosterTypes' /\ team' = team
    BY <1>2 DEF DropPlayer, RosterTypes, Base, TypeOK
  <2>2. captain' = EnsureCaptains(Active \ {p}, team, captain)
        /\ UNCHANGED <<tally, round, clock, game>>
    BY <1>2 DEF DropPlayer
  <2>3. captain' \in SUBSET Phone
    <3>1. Active \ {p} \in SUBSET Phone
      BY ActiveIsPhones DEF Base
    <3>2. QED BY <2>2, <3>1, EnsureCaptainsType DEF Base, TypeOK
  <2>4. FlightTypes'
    BY <2>1, <2>3 DEF FlightTypes, Base, TypeOK
  <2>5. QED BY <2>1, <2>2, <2>4, BaseFrame, TypeGroups, Frames DEF Base
<1>3. QED BY <1>1, <1>2

LEMMA StartsKeepBase ==
  ASSUME Base, NEW m \in Mode, NEW n \in 2 .. FlightMax,
         StartEmpty(m, n) \/ \E d \in 1 .. DeckMax : Start(m, n, d)
  PROVE  Base'
<1>1. FlightTypes' /\ TallyTypes' /\ mode' = m /\ starts' \in Nat
  BY PreparesFlights DEF Base, Start, StartEmpty
<1>2. m # "none"
  BY PartyAssumption DEF Individual
<1>3. CASE StartEmpty(m, n)
  <2>1. UNCHANGED <<roster, round, clock, index, current>> /\ deck' = 0
    BY <1>3 DEF StartEmpty
  <2>2. GameTypes'
    BY <1>1, <2>1 DEF GameTypes, Base, TypeOK
  <2>3. TimerMatchesPhase' /\ UnderWay'
    BY <1>1, <1>2, <2>1 DEF Base, TimerMatchesPhase, UnderWay, clock, round
  <2>4. QED BY <1>1, <2>1, <2>2, <2>3, TypeGroups, Frames DEF Base
<1>4. ASSUME NEW d \in 1 .. DeckMax, Start(m, n, d)
      PROVE  Base'
  <2>1. OpenPrompt(m, team') /\ deck' = d /\ index' = 0 /\ UNCHANGED <<roster, card>>
    BY <1>4 DEF Start
  <2>2. /\ phase' = "prompt" /\ timer' = "open" /\ current' = m /\ RoundTypes'
        /\ m = "teams" => \A f \in Team : result'[f] = "none"
    BY <1>1, <2>1, OpenPromptOpens DEF Base, FlightTypes
  <2>3. GameTypes' /\ d \in Nat \ {0}
    BY <1>1, <2>1, <2>2, PartyAssumption DEF GameTypes
  <2>4. ClockTypes' /\ TimerMatchesPhase' /\ UnderWay'
    BY <1>1, <1>2, <2>1, <2>2, <2>3 DEF ClockTypes, TimerMatchesPhase, UnderWay, Base, TypeOK
  <2>5. QED BY <1>1, <2>1, <2>2, <2>3, <2>4, TypeGroups, Frames DEF Base
<1>5. QED BY <1>3, <1>4

\* The prompt after a break, or none when the deck is gone.
LEMMA EndBreakKeepsBase ==
  ASSUME Base, EndBreak, phase = "interstitial"
  PROVE  Base'
<1>1. /\ mode \in Mode /\ team \in [Phone -> Team] /\ deck \in Nat /\ index \in Int
      /\ deck # 0 => index \in 0 .. deck - 1
      /\ index >= 0 /\ mode # "none"
  BY GameUnderWay DEF Base, TypeOK, UnderWay, TimerMatchesPhase
<1>2. card' = "none" /\ UNCHANGED <<roster, flights, tally, mode, deck, index, starts>>
  BY DEF EndBreak
<1>3. CASE deck = 0
  <2>1. phase' = "prompt" /\ timer' = "none" /\ current' = "none" /\ RoundTypes'
    BY <1>3, OpenNothingOpens DEF EndBreak, Base
  <2>2. GameTypes' /\ ClockTypes' /\ TimerMatchesPhase' /\ UnderWay'
    BY <1>1, <1>2, <1>3, <2>1 DEF Base, TypeOK, GameTypes, ClockTypes, TimerMatchesPhase, UnderWay
  <2>3. QED BY <1>2, <2>1, <2>2, TypeGroups, Frames DEF Base
<1>4. CASE deck # 0
  <2>1. /\ phase' = "prompt" /\ timer' = "open" /\ current' = mode /\ RoundTypes'
        /\ mode = "teams" => \A f \in Team : result'[f] = "none"
    BY <1>1, <1>4, OpenPromptOpens DEF EndBreak, Base
  <2>2. GameTypes' /\ ClockTypes' /\ TimerMatchesPhase' /\ UnderWay'
    BY <1>1, <1>2, <1>4, <2>1 DEF Base, TypeOK, GameTypes, ClockTypes, TimerMatchesPhase, UnderWay
  <2>3. QED BY <1>2, <2>1, <2>2, TypeGroups, Frames DEF Base
<1>5. QED BY <1>3, <1>4

LEMMA NextRoundKeepsBase ==
  ASSUME Base, NEW c \in {"none", "break", "dare"}, NextRound(c),
         phase \in {"reveal", "interstitial"},
         UNCHANGED <<roster, flights, tally, mode, deck, starts>>
  PROVE  Base'
<1>1. /\ mode \in Mode /\ deck \in Nat /\ index \in Int
      /\ deck # 0 => mode = current
      /\ index >= 0 /\ mode # "none"
  BY GameUnderWay DEF Base, TypeOK, UnderWay, TimerMatchesPhase
<1>2. /\ index' = index + 1 /\ RoundTypes'
      /\ \/ phase' = "results" /\ timer' = "none" /\ card' = "none" /\ UNCHANGED <<round, current>>
         \/ /\ index' < deck
            /\ phase' = "interstitial" /\ timer' = "break" /\ card' = "break"
            /\ UNCHANGED <<round, current>>
         \/ /\ index' < deck
            /\ phase' = "prompt" /\ timer' = "open" /\ card' = c /\ current' = mode
            /\ mode = "teams" => \A f \in Team : result'[f] = "none"
  BY <1>1, NextRoundMoves DEF Base
<1>3. GameTypes' /\ ClockTypes'
  BY <1>1, <1>2 DEF GameTypes, ClockTypes, Base, TypeOK
<1>4. UnderWay'
  BY <1>1, <1>2 DEF UnderWay, Base, round
<1>5. TimerMatchesPhase'
  BY <1>1, <1>2 DEF TimerMatchesPhase
<1>6. QED BY <1>2, <1>3, <1>4, <1>5, TypeGroups, Frames DEF Base

LEMMA MovesKeepBase ==
  ASSUME Base,
         \/ ToLobby \/ SkipBreak \/ SkipDare \/ DrawDare \/ NextItem
         \/ PromptRead \/ BreakOver \/ AutoAdvance
  PROVE  Base'
<1>1. CASE ToLobby
  <2>1. RosterTypes' /\ FlightTypes' /\ TallyTypes' /\ RoundTypes'
    BY <1>1, Frames DEF ToLobby, Base, TypeOK, RoundTypes
  <2>2. ClockTypes' /\ GameTypes' /\ TimerMatchesPhase' /\ UnderWay'
    BY <1>1 DEF ToLobby, Base, TypeOK, ClockTypes, GameTypes, TimerMatchesPhase, UnderWay
  <2>3. QED BY <2>1, <2>2, TypeGroups DEF Base
<1>2. CASE SkipBreak \/ BreakOver
  <2>1. EndBreak /\ phase = "interstitial"
    BY <1>2 DEF SkipBreak, BreakOver, Base, TimerMatchesPhase
  <2>2. QED BY <2>1, EndBreakKeepsBase
<1>3. CASE SkipDare \/ NextItem \/ AutoAdvance
  <2>1. /\ NextRound("none") \/ NextRound(card)
        /\ phase \in {"reveal", "interstitial"}
        /\ UNCHANGED <<roster, flights, tally, mode, deck, starts>>
    BY <1>3 DEF SkipDare, NextItem, AutoAdvance
  <2>2. card \in {"none", "break", "dare"}
    BY DEF Base, TypeOK
  <2>3. QED BY <2>1, <2>2, NextRoundKeepsBase
<1>4. CASE DrawDare
  <2>1. UNCHANGED <<roster, flights, tally, round, game>>
    BY <1>4 DEF DrawDare
  <2>2. ClockTypes' /\ TimerMatchesPhase' /\ UnderWay'
    BY <1>4 DEF DrawDare, Base, ClockTypes, TimerMatchesPhase, UnderWay, game, round
  <2>3. QED BY <2>1, <2>2, TypeGroups, Frames DEF Base
<1>5. CASE PromptRead
  <2>1. phase = "prompt" /\ phase' = "collect" /\ timer' = "collect"
        /\ UNCHANGED <<roster, flights, tally, card, game, result>>
    BY <1>5 DEF PromptRead, OpenCollect, Base, TimerMatchesPhase
  <2>2. RoundTypes'
    BY <1>5 DEF PromptRead, OpenCollect, Base, TypeOK, RoundTypes
  <2>3. ClockTypes' /\ TimerMatchesPhase' /\ UnderWay'
    BY <2>1 DEF Base, TypeOK, ClockTypes, TimerMatchesPhase, UnderWay, game
  <2>4. QED BY <2>1, <2>2, <2>3, TypeGroups, Frames DEF Base
<1>6. QED BY <1>1, <1>2, <1>3, <1>4, <1>5

LEMMA BaseStep ==
  ASSUME Base, [Next]_vars
  PROVE  Base'
<1>1. CASE UNCHANGED vars
  <2>1. UNCHANGED <<roster, flights, tally, round, clock, game>>
    BY <1>1 DEF vars
  <2>2. QED BY <2>1, BaseFrame, TypeGroups, Frames DEF Base
<1>2. ASSUME NEW p \in Phone, NEW o \in Option,
             Choose(p, o) \/ Sponsor(p, o) \/ Vote(p, o) \/ Suggest(p, o) \/ LockAnswer(p, o)
      PROVE  Base'
  BY <1>2, CollectingActs, ScoredKeepsBase
<1>3. CASE TimeUp
  BY <1>3, TimeUpScores, ScoredKeepsBase
<1>4. CASE PhoneStep
  BY <1>2, <1>4, RosterKeepsBase DEF PhoneStep
<1>5. CASE HostStep
  BY <1>5, StartsKeepBase, MovesKeepBase DEF HostStep
<1>6. CASE TimerStep
  BY <1>3, <1>6, MovesKeepBase DEF TimerStep
<1>7. QED BY <1>1, <1>4, <1>5, <1>6 DEF Next

\* Every reachable state is well typed.
THEOREM TypeCorrect == Spec => []TypeOK
<1>1. Base => TypeOK
  BY DEF Base
<1>2. QED BY BaseInit, BaseStep, <1>1, PTL DEF Spec

\* _arm and _clearTimer keep the one timer slot in step with the phase.
THEOREM TimerDiscipline == Spec => []TimerMatchesPhase
<1>1. Base => TimerMatchesPhase
  BY DEF Base
<1>2. QED BY BaseInit, BaseStep, <1>1, PTL DEF Spec

-----------------------------------------------------------------------------
(* Votes.  Only the vote itself puts decoy into one, its answers cleared.    *)

VoteInv == Base /\ NoSelfVote

\* A step that leaves no vote open, or no answers in one.
LEMMA NoVoteYet ==
  ASSUME mode' # "decoy" \/ ask' # "vote" \/ answers' = NoAnswers
  PROVE  NoSelfVote'
BY DEF NoSelfVote, NoAnswers

\* A step that touches neither the vote nor whether one is open.
LEMMA VoteUntouched ==
  ASSUME NoSelfVote, UNCHANGED <<ask, answers, sponsors, mode>>
  PROVE  NoSelfVote'
BY DEF NoSelfVote

LEMMA VotesKeep ==
  ASSUME VoteInv, NEW p \in Phone, NEW o \in Option,
         Choose(p, o) \/ Sponsor(p, o) \/ Vote(p, o) \/ Suggest(p, o) \/ LockAnswer(p, o)
  PROVE  NoSelfVote'
<1>1. mode' = mode
  BY DEF Choose, Sponsor, Vote, Suggest, LockAnswer, Collecting, game
<1>2. CASE Choose(p, o) \/ Suggest(p, o) \/ LockAnswer(p, o)
  <2>1. mode # "decoy"
    BY <1>2 DEF Choose, Suggest, LockAnswer, Individual
  <2>2. QED BY <1>1, <2>1, NoVoteYet
<1>3. CASE Sponsor(p, o)
  <2> DEFINE a == IF p \in Active /\ answers[p] = NoOption /\ o # Truth
                  THEN [answers EXCEPT ![p] = o] ELSE answers
  <2>1. (EnterVote(a) \/ Wait(a)) /\ ask = "sponsor"
    BY <1>3 DEF Sponsor
  <2> HIDE DEF a
  <2>2. answers' = NoAnswers \/ ask' = "sponsor"
    BY <2>1 DEF EnterVote, Wait
  <2>3. QED BY <2>2, NoVoteYet
<1>4. CASE Vote(p, o)
  <2> DEFINE a == IF p \in Active /\ answers[p] = NoOption /\ o # sponsors[p]
                  THEN [answers EXCEPT ![p] = o] ELSE answers
  <2>1. ScoreDecoy(a) \/ Wait(a)
    BY <1>4 DEF Vote
  <2>2. answers' = a /\ UNCHANGED <<ask, sponsors>>
    BY <2>1 DEF ScoreDecoy, Wait
  <2>3. QED BY <1>1, <2>2 DEF VoteInv, NoSelfVote, Base, TypeOK
<1>5. QED BY <1>2, <1>3, <1>4

LEMMA TimeUpVotes ==
  ASSUME VoteInv, TimeUp
  PROVE  NoSelfVote'
<1>1. mode' = mode
  BY DEF TimeUp, game
<1>2. CASE mode = "decoy"
  <2>1. EnterVote(answers) \/ ScoreDecoy(answers)
    BY <1>2 DEF TimeUp, Individual
  <2>2. CASE EnterVote(answers)
    BY <2>2, NoVoteYet DEF EnterVote
  <2>3. CASE ScoreDecoy(answers)
    BY <1>1, <2>3, VoteUntouched DEF ScoreDecoy, VoteInv
  <2>4. QED BY <2>1, <2>2, <2>3
<1>3. QED BY <1>1, <1>2, NoVoteYet

LEMMA VoteStep ==
  ASSUME VoteInv, [Next]_vars
  PROVE  VoteInv'
<1>1. Base'
  BY BaseStep DEF VoteInv
<1> SUFFICES NoSelfVote'
  BY <1>1 DEF VoteInv
<1>2. CASE UNCHANGED vars
  BY <1>2, VoteUntouched DEF VoteInv, vars, round, game
<1>3. ASSUME NEW p \in Phone, DropPlayer(p) \/ \E w \in BOOLEAN : AddPlayer(p, w)
      PROVE  NoSelfVote'
  BY <1>3, VoteUntouched DEF VoteInv, DropPlayer, AddPlayer, round, game
<1>4. ASSUME NEW m \in Mode, NEW n \in 2 .. FlightMax,
             StartEmpty(m, n) \/ \E d \in 1 .. DeckMax : Start(m, n, d)
      PROVE  NoSelfVote'
  <2>1. CASE StartEmpty(m, n)
    BY <2>1, NoVoteYet DEF StartEmpty, Prepare, Quiz
  <2>2. ASSUME NEW d \in 1 .. DeckMax, Start(m, n, d)
        PROVE  NoSelfVote'
    <3>1. answers' = NoAnswers
      BY <2>2 DEF Start, OpenPrompt, Clear
    <3>2. QED BY <3>1, NoVoteYet
  <2>3. QED BY <1>4, <2>1, <2>2
<1>5. CASE SkipBreak \/ BreakOver
  <2>1. answers' = NoAnswers
    BY <1>5 DEF SkipBreak, BreakOver, EndBreak, OpenPrompt, OpenNothing, Clear
  <2>2. QED BY <2>1, NoVoteYet
<1>6. CASE SkipDare \/ NextItem \/ AutoAdvance
  <2>1. (NextRound("none") \/ NextRound(card)) /\ mode' = mode
    BY <1>6 DEF SkipDare, NextItem, AutoAdvance
  <2>2. UNCHANGED round \/ answers' = NoAnswers
    BY <2>1 DEF NextRound, Finish, Break, OpenPrompt, Clear
  <2>3. QED BY <2>1, <2>2, VoteUntouched, NoVoteYet DEF VoteInv, round
<1>7. CASE DrawDare \/ PromptRead
  BY <1>7, VoteUntouched DEF DrawDare, PromptRead, OpenCollect, VoteInv, round, game
<1>8. CASE ToLobby
  BY <1>8, NoVoteYet DEF ToLobby
<1>9. CASE PhoneStep
  BY <1>3, <1>9, VotesKeep DEF PhoneStep
<1>10. QED
  BY <1>2, <1>4, <1>5, <1>6, <1>7, <1>8, <1>9, TimeUpVotes DEF Next, HostStep, TimerStep

\* No vote ever rests on the voter's own decoy.
THEOREM NobodyVotesForTheirOwn == Spec => []NoSelfVote
<1>1. Init => VoteInv
  <2>1. Init => NoSelfVote
    BY DEF Init, NoSelfVote
  <2>2. QED BY <2>1, BaseInit DEF VoteInv
<1>2. VoteInv => NoSelfVote
  BY DEF VoteInv
<1>3. QED BY <1>1, <1>2, VoteStep, PTL DEF Spec

-----------------------------------------------------------------------------
(* Captains. *)

\* A phone that has not joined is away, in no flight and leads none.
Seated ==
  \A p \in Phone : seat[p] = 0 => p \notin here /\ p \notin captain /\ team[p] = NoTeam

Led ==
  \A f \in Flight : Members(Active, team, f) # {} =>
    \E c : Members(Active, team, f) \cap captain = {c}

LeadInv == Base /\ Seated /\ Led

LEMMA LedIsOneCaptain ==
  ASSUME TypeOK
  PROVE  OneCaptain <=> Led
<1>1. ASSUME NEW f \in Flight
      PROVE  Cardinality(Members(Active, team, f) \cap captain) = 1
               <=> \E c : Members(Active, team, f) \cap captain = {c}
  <2>1. IsFiniteSet(Members(Active, team, f) \cap captain)
    BY ActiveIsPhones, PhoneSetsFinite DEF Members
  <2>2. QED BY <2>1, FS_Singleton
<1>2. QED BY <1>1 DEF OneCaptain, Led

\* Every step but joining, leaving and starting leaves the flights alone.
LEMMA FlightsStay ==
  ASSUME Seated, Led, UNCHANGED <<roster, flights>>
  PROVE  Seated' /\ Led'
BY DEF Seated, Led, roster, flights, Active, Members

LEMMA JoinKeepsLead ==
  ASSUME LeadInv, NEW p \in Phone, NEW w \in BOOLEAN, AddPlayer(p, w)
  PROVE  Seated' /\ Led'
<1>1. Seated'
  <2>1. Cardinality(Players) \in Nat
    BY PhoneSetsFinite DEF Players
  <2>2. seat' = [seat EXCEPT ![p] = Cardinality(Players) + 1] /\ here' = here \cup {p}
        /\ UNCHANGED <<captain, team>>
    BY DEF AddPlayer, flights
  <2>3. QED BY <2>1, <2>2 DEF Seated, LeadInv, Base, TypeOK
<1>2. team[p] = NoTeam
  BY DEF AddPlayer, LeadInv, Seated
<1>3. Active \subseteq Active' /\ Active' \subseteq Active \cup {p}
  BY DEF AddPlayer, Active, LeadInv, Seated
<1>4. \A f \in Flight : Members(Active', team', f) = Members(Active, team, f)
  BY <1>2, <1>3, PartyAssumption DEF AddPlayer, flights, Members, NoTeam, Flight
<1>5. captain' = captain
  BY DEF AddPlayer, flights
<1>6. Led'
  BY <1>4, <1>5 DEF LeadInv, Led
<1>7. QED BY <1>1, <1>6

LEMMA LeaveKeepsLead ==
  ASSUME LeadInv, NEW p \in Phone, DropPlayer(p)
  PROVE  Seated' /\ Led'
<1>1. /\ here' = here \ {p} /\ Active' = Active \ {p}
      /\ team' = team /\ seat' = seat
      /\ captain' = EnsureCaptains(Active \ {p}, team, captain)
  BY DEF DropPlayer, Active
<1>2. Active \ {p} \in SUBSET Phone /\ team \in [Phone -> Team] /\ captain \in SUBSET Phone
      /\ seat \in [Phone -> Nat]
  BY ActiveIsPhones DEF LeadInv, Base, TypeOK
<1>3. Seated'
  <2>1. \A q \in captain' : q \in captain \/ q \in Active
    BY <1>1, <1>2, EnsureCaptainsType
  <2>2. QED BY <1>1, <2>1 DEF LeadInv, Seated, Active
<1>4. \A f \in Flight : \A q, r \in Members(Active \ {p}, team, f) \cap captain : q = r
  <2> SUFFICES ASSUME NEW f \in Flight,
                      NEW q \in Members(Active \ {p}, team, f) \cap captain,
                      NEW r \in Members(Active \ {p}, team, f) \cap captain
               PROVE  q = r
    OBVIOUS
  <2>1. q \in Members(Active, team, f) \cap captain /\ r \in Members(Active, team, f) \cap captain
    BY DEF Members
  <2>2. PICK c : Members(Active, team, f) \cap captain = {c}
    BY <2>1 DEF LeadInv, Led
  <2>3. QED BY <2>1, <2>2
<1>5. \A f \in Flight : Members(Active \ {p}, team, f) # {} =>
        \E c : Members(Active \ {p}, team, f) \cap captain' = {c}
  <2> DEFINE left == Active \ {p}
             led == captain
             tm == team
  <2>1. /\ left \in SUBSET Phone /\ tm \in [Phone -> Team] /\ led \in SUBSET Phone
        /\ seat \in [Phone -> Nat]
    BY <1>2
  <2>2. NoRivals(left, tm, led)
    BY <1>4 DEF NoRivals
  <2> HIDE DEF left, led, tm
  <2>3. AllLed(left, tm, EnsureCaptains(left, tm, led))
    BY <2>1, <2>2, EnsureCaptainsLeads
  <2>4. QED BY <1>1, <2>3 DEF AllLed, left, led, tm
<1>6. Led'
  BY <1>1, <1>5 DEF Led
<1>7. QED BY <1>3, <1>6

LEMMA PrepareLeads ==
  ASSUME LeadInv, NEW m \in Mode, NEW n \in 2 .. FlightMax, Prepare(m, n), UNCHANGED roster
  PROVE  Seated' /\ Led'
<1>1. Active' = Active /\ here' = here /\ seat' = seat
  BY DEF roster, Active
<1>2. FlightTypes'
  BY PreparesFlights DEF LeadInv, Base
<1>3. \A p \in Phone : p \notin Active => team'[p] = team[p]
  BY DEF Prepare, Dealt
<1>4. CASE m = "teams"
  <2>1. captain' = EnsureCaptains(Active, team', captain \ Active)
    BY <1>4 DEF Prepare
  <2>2. Active \in SUBSET Phone /\ captain \ Active \in SUBSET Phone /\ seat \in [Phone -> Nat]
        /\ team' \in [Phone -> Team]
    BY <1>2, ActiveIsPhones DEF LeadInv, Base, TypeOK, FlightTypes
  <2>3. \A p \in captain' : p \in captain \/ p \in Active
    BY <2>1, <2>2, EnsureCaptainsType
  <2>4. Seated'
    BY <1>1, <1>3, <2>3 DEF LeadInv, Seated, Active
  <2>5. \A f \in Flight : \A p, q \in Members(Active, team', f) \cap (captain \ Active) : p = q
    BY DEF Members
  <2>6. \A f \in Flight : Members(Active, team', f) # {} =>
          \E c : Members(Active, team', f) \cap captain' = {c}
    <3> DEFINE old == captain \ Active
               tm == team'
    <3>1. /\ old \in SUBSET Phone /\ tm \in [Phone -> Team]
          /\ NoRivals(Active, tm, old)
      BY <2>2, <2>5 DEF NoRivals
    <3> HIDE DEF old, tm
    <3>2. AllLed(Active, tm, EnsureCaptains(Active, tm, old))
      BY <2>2, <3>1, EnsureCaptainsLeads
    <3>3. QED BY <2>1, <3>2 DEF AllLed, old, tm
  <2>7. Led'
    BY <1>1, <2>6 DEF Led
  <2>8. QED BY <2>4, <2>7
<1>5. CASE m # "teams"
  <2>1. /\ team' = [p \in Phone |-> IF p \in Active THEN NoTeam ELSE team[p]]
        /\ captain' = captain \ Active
    BY <1>5 DEF Prepare
  <2>2. Seated'
    BY <1>1, <2>1 DEF LeadInv, Seated
  <2>3. \A f \in Flight : Members(Active, team', f) = {}
    BY <2>1, ActiveIsPhones, PartyAssumption DEF Members, NoTeam, Flight, LeadInv, Base
  <2>4. Led'
    BY <1>1, <2>3 DEF Led
  <2>5. QED BY <2>2, <2>4
<1>6. QED BY <1>4, <1>5

LEMMA LeadStep ==
  ASSUME LeadInv, [Next]_vars
  PROVE  LeadInv'
<1>1. Base'
  BY BaseStep DEF LeadInv
<1> SUFFICES Seated' /\ Led'
  BY <1>1 DEF LeadInv
<1>2. CASE UNCHANGED <<roster, flights>>
  BY <1>2, FlightsStay DEF LeadInv
<1>3. ASSUME NEW p \in Phone, DropPlayer(p) \/ \E w \in BOOLEAN : AddPlayer(p, w)
      PROVE  Seated' /\ Led'
  BY <1>3, JoinKeepsLead, LeaveKeepsLead
<1>4. ASSUME NEW p \in Phone, NEW o \in Option,
             Choose(p, o) \/ Sponsor(p, o) \/ Vote(p, o) \/ Suggest(p, o) \/ LockAnswer(p, o)
      PROVE  Seated' /\ Led'
  BY <1>2, <1>4, CollectingActs DEF LeadInv
<1>5. ASSUME NEW m \in Mode, NEW n \in 2 .. FlightMax,
             StartEmpty(m, n) \/ \E d \in 1 .. DeckMax : Start(m, n, d)
      PROVE  Seated' /\ Led'
  BY <1>5, PrepareLeads DEF StartEmpty, Start
<1>6. ToLobby \/ SkipBreak \/ SkipDare \/ DrawDare \/ NextItem => UNCHANGED <<roster, flights>>
  BY DEF ToLobby, SkipBreak, SkipDare, DrawDare, NextItem, EndBreak
<1>7. TimerStep => UNCHANGED <<roster, flights>>
  BY DEF TimerStep, PromptRead, TimeUp, BreakOver, AutoAdvance, EndBreak
<1>8. UNCHANGED vars => UNCHANGED <<roster, flights>>
  BY DEF vars
<1>9. QED BY <1>2, <1>3, <1>4, <1>5, <1>6, <1>7, <1>8 DEF Next, PhoneStep, HostStep

\* However phones come and go, a flight with a player has one captain.
THEOREM EveryFlightIsLed == Spec => []OneCaptain
<1>1. Init => LeadInv
  <2>1. Init => Seated /\ Led
    BY DEF Init, Seated, Led, Active, Members
  <2>2. QED BY <2>1, BaseInit DEF LeadInv
<1>2. LeadInv => OneCaptain
  BY LedIsOneCaptain DEF LeadInv, Base
<1>3. QED BY <1>1, <1>2, LeadStep, PTL DEF Spec

-----------------------------------------------------------------------------
(* The game implements the quiz night: every step of the game is a step of  *)
(* QuizNight or leaves what the room sees unchanged.                        *)

LEMMA FooledAreOthers ==
  ASSUME NEW p \in Phone, NEW S \in SUBSET (Phone \ {p})
  PROVE  Cardinality(S) \in 0 .. Cardinality(Phone) - 1 /\ Cardinality(Phone) \in Nat \ {0}
<1>1. IsFiniteSet(Phone) /\ Cardinality(Phone) \in Nat /\ Cardinality(Phone) # 0
  BY PartyAssumption, FS_CardinalityType, FS_EmptySet
<1>2. IsFiniteSet(Phone \ {p}) /\ Cardinality(Phone \ {p}) = Cardinality(Phone) - 1
  BY <1>1, FS_RemoveElement
<1>3. IsFiniteSet(S) /\ Cardinality(S) <= Cardinality(Phone \ {p})
  BY <1>2, FS_Subset
<1>4. Cardinality(S) \in Nat
  BY <1>3, FS_CardinalityType
<1>5. QED BY <1>1, <1>2, <1>3, <1>4

\* Paying or taking what the night allows when the answer comes up is Show.
LEMMA RevealIsShow ==
  ASSUME Base, phase = "collect", NEW gain \in [Phone -> -1 .. Cardinality(Phone)],
         Reveal(gain), UNCHANGED <<index, deck>>
  PROVE  Night!Show
<1>1. /\ stage = "asked" /\ stage' = "shown" /\ item' = item
      /\ (running /\ deck = 0)' = (running /\ deck = 0)
  BY DEF Reveal, stage, item, running
<1>2. score' = [p \in Phone |-> score[p] + gain[p]]
  BY DEF Reveal
<1>3. \E g \in [Phone -> -1 .. Cardinality(Phone)] :
        score' = [p \in Phone |-> score[p] + g[p]]
  BY <1>2
<1>4. QED BY <1>1, <1>3 DEF Night!Show

LEMMA ScoringShows ==
  ASSUME Base, phase = "collect", UNCHANGED <<index, deck, card>>
  PROVE  /\ \A a \in [Phone -> Option \cup {NoOption}] :
              /\ ScoreIndividual(a) => Night!Show
              /\ ScoreDecoy(a) => Night!Show
              /\ EnterVote(a) \/ Wait(a) => UNCHANGED Night!vars
         /\ \A l \in [Team -> Option \cup {NoOption, Blank}] :
              ScoreTeams(l) => Night!Show \/ UNCHANGED Night!vars
<1>1. ASSUME NEW p \in Phone
      PROVE  Cardinality(Phone) \in Nat \ {0}
  <2>1. {} \in SUBSET (Phone \ {p})
    OBVIOUS
  <2>2. QED BY <2>1, FooledAreOthers
<1>2. ASSUME NEW a \in [Phone -> Option \cup {NoOption}], ScoreIndividual(a)
      PROVE  Night!Show
  <2>1. PICK pay \in Payments(a) : Reveal(pay)
    BY <1>2 DEF ScoreIndividual
  <2>2. pay \in [Phone -> -1 .. Cardinality(Phone)]
    BY <1>1, PaymentsAreUnits
  <2>3. QED BY <2>1, <2>2, RevealIsShow
<1>3. ASSUME NEW a \in [Phone -> Option \cup {NoOption}], ScoreDecoy(a)
      PROVE  Night!Show
  <2>1. PICK pay \in Payments(a) : Reveal([p \in Phone |-> pay[p] + Cardinality(Fooled(a, p))])
    BY <1>3 DEF ScoreDecoy
  <2> DEFINE gain == [p \in Phone |-> pay[p] + Cardinality(Fooled(a, p))]
  <2>2. ASSUME NEW p \in Phone
        PROVE  pay[p] + Cardinality(Fooled(a, p)) \in -1 .. Cardinality(Phone)
    <3>1. Fooled(a, p) \in SUBSET (Phone \ {p})
      BY FooledIsCounted DEF Base
    <3>2. Cardinality(Fooled(a, p)) \in 0 .. Cardinality(Phone) - 1 /\ Cardinality(Phone) \in Nat \ {0}
      BY <3>1, FooledAreOthers
    <3>3. pay[p] \in {-1, 0, 1}
      BY PaymentsAreUnits
    <3>4. QED BY <3>2, <3>3
  <2>3. gain \in [Phone -> -1 .. Cardinality(Phone)]
    BY <2>2
  <2>4. Reveal(gain)
    BY <2>1
  <2> HIDE DEF gain
  <2>5. QED BY <2>3, <2>4, RevealIsShow
<1>4. ASSUME NEW a \in [Phone -> Option \cup {NoOption}], EnterVote(a) \/ Wait(a)
      PROVE  UNCHANGED Night!vars
  BY <1>4 DEF EnterVote, OpenCollect, Wait, tally, Night!vars, stage, item, running
<1>5. ASSUME NEW l \in [Team -> Option \cup {NoOption, Blank}], ScoreTeams(l)
      PROVE  Night!Show \/ UNCHANGED Night!vars
  <2> DEFINE ok == Right(l[turn])
             gain == [p \in Phone |-> IF ok /\ p \in Active /\ team[p] = turn THEN 1 ELSE 0]
  <2>1. gain \in [Phone -> -1 .. Cardinality(Phone)]
    BY <1>1
  <2>2. \/ Reveal(gain)
        \/ OpenCollect("steal") /\ UNCHANGED score
        \/ UNCHANGED <<phase, score>>
    BY <1>5 DEF ScoreTeams, ScoreTeamsThrows, tally
  <2> HIDE DEF gain
  <2>3. CASE Reveal(gain)
    BY <2>1, <2>3, RevealIsShow
  <2>4. CASE OpenCollect("steal") /\ UNCHANGED score
    BY <2>4 DEF OpenCollect, Night!vars, stage, item, running
  <2>5. CASE UNCHANGED <<phase, score>>
    BY <2>5 DEF Night!vars, stage, item, running
  <2>6. QED BY <2>2, <2>3, <2>4, <2>5
<1>6. QED BY <1>2, <1>3, <1>4, <1>5

\* A phone's act shows the answer, or shows nothing.
LEMMA ActsAreShown ==
  ASSUME Base, NEW p \in Phone, NEW o \in Option,
         Choose(p, o) \/ Sponsor(p, o) \/ Vote(p, o) \/ Suggest(p, o) \/ LockAnswer(p, o)
  PROVE  Night!Show \/ UNCHANGED Night!vars
<1>1. phase = "collect" /\ UNCHANGED <<index, deck, card>>
  BY DEF Choose, Sponsor, Vote, Suggest, LockAnswer, Collecting, game
<1>2. /\ answers \in [Phone -> Option \cup {NoOption}]
      /\ [answers EXCEPT ![p] = o] \in [Phone -> Option \cup {NoOption}]
      /\ [lock EXCEPT ![turn] = o] \in [Team -> Option \cup {NoOption, Blank}]
  BY DEF Base, TypeOK
<1>3. \/ \E a \in {answers, [answers EXCEPT ![p] = o]} :
           ScoreIndividual(a) \/ ScoreDecoy(a) \/ EnterVote(a) \/ Wait(a)
      \/ ScoreTeams([lock EXCEPT ![turn] = o])
      \/ UNCHANGED <<phase, score, card>>
  <2>1. CASE Choose(p, o)
    BY <2>1 DEF Choose
  <2>2. CASE Sponsor(p, o)
    BY <2>2 DEF Sponsor
  <2>3. CASE Vote(p, o)
    BY <2>3 DEF Vote
  <2>4. CASE Suggest(p, o)
    BY <2>4 DEF Suggest, Collecting, tally
  <2>5. CASE LockAnswer(p, o)
    BY <2>5 DEF LockAnswer
  <2>6. QED BY <2>1, <2>2, <2>3, <2>4, <2>5
<1>4. UNCHANGED <<phase, score, card, index, deck>> => UNCHANGED Night!vars
  BY DEF Night!vars, stage, item, running
<1>5. QED BY <1>1, <1>2, <1>3, <1>4, ScoringShows

\* So does the end of the clock.
LEMMA TimeUpIsShown ==
  ASSUME Base, TimeUp
  PROVE  Night!Show \/ UNCHANGED Night!vars
<1>1. phase = "collect" /\ UNCHANGED <<index, deck, card>>
  BY DEF TimeUp, game
<1>2. mode \in Mode
  BY <1>1, GameUnderWay DEF Base
<1> DEFINE l == IF lock[turn] = NoOption THEN [lock EXCEPT ![turn] = Suggested] ELSE lock
<1>3. /\ answers \in [Phone -> Option \cup {NoOption}]
      /\ l \in [Team -> Option \cup {NoOption, Blank}]
  BY SuggestedType DEF Base, TypeOK
<1>4. ScoreIndividual(answers) \/ ScoreDecoy(answers) \/ EnterVote(answers) \/ ScoreTeams(l)
  BY <1>2, PartyAssumption DEF TimeUp, Individual
<1> HIDE DEF l
<1>5. QED BY <1>1, <1>3, <1>4, ScoringShows

\* A round moves on to the next item only while there are items.
LEMMA RoundsMoveOn ==
  ASSUME Base, NEW c, NextRound(c), UNCHANGED <<score, deck>>,
         phase = "reveal" \/ (phase = "interstitial" /\ card = "dare")
  PROVE  Night!Ask \/ Night!Close
<1>1. mode \in Mode /\ index \in Int /\ index >= 0 /\ deck \in Nat
  BY GameUnderWay DEF Base, TypeOK, UnderWay
<1>2. /\ index' = index + 1
      /\ \/ phase' = "results"
         \/ index' < deck /\ phase' = "interstitial" /\ card' = "break"
         \/ index' < deck /\ phase' = "prompt"
  BY <1>1, NextRoundMoves DEF Base
<1>3. stage = "shown" /\ item = index + 1 /\ running
  BY DEF stage, item, running
<1>4. CASE phase' = "results"
  BY <1>2, <1>3, <1>4 DEF Night!Close, stage, item, running
<1>5. CASE index' < deck /\ ((phase' = "interstitial" /\ card' = "break") \/ phase' = "prompt")
  <2>1. stage' = "asked" /\ item' = item + 1
    BY <1>2, <1>3, <1>5 DEF stage, item
  <2>2. ~(running /\ deck = 0) /\ ~(running /\ deck = 0)'
    BY <1>1, <1>2, <1>5
  <2>3. QED BY <1>3, <2>1, <2>2 DEF Night!Ask
<1>6. QED BY <1>2, <1>4, <1>5

LEMMA GamesBegin ==
  ASSUME Base, NEW m \in Mode, NEW n \in 2 .. FlightMax,
         StartEmpty(m, n) \/ \E d \in 1 .. DeckMax : Start(m, n, d)
  PROVE  Night!Begin \/ Night!Refuse
<1>1. score' \in {score, Night!NoPoints}
  BY DEF StartEmpty, Start, Prepare, tally, Night!NoPoints
<1>2. CASE StartEmpty(m, n)
  <2>1. UNCHANGED <<phase, card, index>> /\ deck' = 0
    BY <1>2 DEF StartEmpty, clock
  <2>2. running <=> stage \in {"asked", "shown"}
    BY DEF Base, TypeOK, running, stage
  <2>3. stage' = stage /\ item' = item /\ running' = running
    BY <2>1 DEF stage, item, running
  <2>4. (running /\ deck = 0)' = (stage \in {"asked", "shown"})
    BY <2>1, <2>2, <2>3
  <2>5. QED BY <1>1, <2>3, <2>4 DEF Night!Refuse
<1>3. CASE \E d \in 1 .. DeckMax : Start(m, n, d)
  <2>1. phase' = "prompt" /\ index' = 0 /\ deck' # 0
    BY <1>3, PartyAssumption DEF Start, OpenPrompt
  <2>2. QED BY <1>1, <2>1 DEF stage, item, running, Night!Begin
<1>4. QED BY <1>2, <1>3

LEMMA StepImplements ==
  ASSUME Base, [Next]_vars
  PROVE  [Night!Next]_(Night!vars)
<1>1. UNCHANGED <<phase, card, index, score, deck>> => UNCHANGED Night!vars
  BY DEF Night!vars, stage, item, running
<1>2. CASE UNCHANGED vars
  BY <1>1, <1>2 DEF vars, clock, game, tally
<1>3. ASSUME NEW p \in Phone, DropPlayer(p) \/ \E w \in BOOLEAN : AddPlayer(p, w)
      PROVE  UNCHANGED Night!vars
  BY <1>1, <1>3 DEF DropPlayer, AddPlayer, clock, game, tally
<1>4. ASSUME NEW p \in Phone, NEW o \in Option,
             Choose(p, o) \/ Sponsor(p, o) \/ Vote(p, o) \/ Suggest(p, o) \/ LockAnswer(p, o)
      PROVE  Night!Show \/ UNCHANGED Night!vars
  BY <1>4, ActsAreShown
<1>5. CASE PhoneStep
  BY <1>3, <1>4, <1>5 DEF PhoneStep, Night!Next
<1>6. CASE TimeUp
  BY <1>6, TimeUpIsShown DEF Night!Next
<1>7. CASE SkipBreak \/ BreakOver
  <2>1. phase = "interstitial" /\ card = "break" /\ EndBreak
    BY <1>7 DEF SkipBreak, BreakOver, Base, TimerMatchesPhase
  <2>2. phase' = "prompt" /\ UNCHANGED <<index, score, deck>>
    BY <2>1 DEF EndBreak, OpenPrompt, OpenNothing, tally
  <2>3. QED BY <2>1, <2>2 DEF Night!vars, stage, item, running
<1>8. CASE SkipDare \/ NextItem \/ AutoAdvance
  <2>1. /\ NextRound("none") \/ NextRound(card)
        /\ phase = "reveal" \/ (phase = "interstitial" /\ card = "dare")
        /\ UNCHANGED <<score, deck>>
    BY <1>8 DEF SkipDare, NextItem, AutoAdvance, tally
  <2>2. QED BY <2>1, RoundsMoveOn DEF Night!Next
<1>9. CASE DrawDare
  BY <1>9 DEF DrawDare, tally, game, Night!vars, stage, item, running
<1>10. CASE PromptRead
  <2>1. phase = "prompt" /\ phase' = "collect" /\ UNCHANGED <<card, index, score, deck>>
    BY <1>10 DEF PromptRead, OpenCollect, tally, game, Base, TimerMatchesPhase
  <2>2. QED BY <2>1 DEF Night!vars, stage, item, running
<1>11. CASE ToLobby
  BY <1>11 DEF ToLobby, tally, Night!Next, Night!Abandon, stage, item, running, Base, TypeOK
<1>12. ASSUME NEW m \in Mode, NEW n \in 2 .. FlightMax,
              StartEmpty(m, n) \/ \E d \in 1 .. DeckMax : Start(m, n, d)
       PROVE  [Night!Next]_(Night!vars)
  BY <1>12, GamesBegin DEF Night!Next
<1>13. QED BY <1>2, <1>5, <1>6, <1>7, <1>8, <1>9, <1>10, <1>11, <1>12
          DEF Next, HostStep, TimerStep

\* Whatever the mode and however phones act, leave and time out, the room
\* sees a quiz night.
THEOREM GameIsAQuizNight == Spec => Night!Spec
<1>1. Init => Night!Init
  BY DEF Init, Night!Init, Night!NoPoints, stage, item, running
<1>2. QED BY <1>1, BaseInit, BaseStep, StepImplements, PTL DEF Spec, Night!Spec

-----------------------------------------------------------------------------
(* The steal.  While a prompt of teams is open no flight after the one at    *)
(* turn has locked an answer, which is why the turn passes to a clean one.   *)

Open == mode = "teams" /\ deck # 0 /\ phase \in {"prompt", "collect"}

LaterAreClean == Open => \A f \in Team : f > turn => lock[f] = NoOption

StealInv == Base /\ StealOrder /\ LaterAreClean

\* A step into a phase where no flight plays, or one that leaves the play alone.
LEMMA NoPlay ==
  ASSUME mode' # "teams" \/ deck' = 0 \/ phase' \notin {"prompt", "collect", "reveal"}
  PROVE  StealOrder' /\ LaterAreClean'
BY DEF StealOrder, LaterAreClean, Open

LEMMA PlayUntouched ==
  ASSUME StealOrder, LaterAreClean, UNCHANGED <<mode, deck, ask, turn, result, lock>>,
         phase' = phase \/ (phase = "prompt" /\ phase' = "collect")
  PROVE  StealOrder' /\ LaterAreClean'
BY DEF StealOrder, LaterAreClean, Open

\* A prompt opens with every flight clean.
LEMMA OpenPromptIsClean ==
  ASSUME TypeOK, NEW m \in Mode, NEW tm \in [Phone -> Team], OpenPrompt(m, tm), mode' = m
  PROVE  StealOrder' /\ LaterAreClean'
<1>1. CASE m = "teams"
  <2>1. /\ \A f \in Team : result'[f] = "none" /\ lock'[f] = NoOption
        /\ ask' = "huddle" /\ phase' = "prompt"
    BY <1>1 DEF OpenPrompt, FirstTurn, Clear
  <2>2. turn' \in Team
    BY OpenPromptOpens DEF RoundTypes
  <2>3. Flight \subseteq Team
    BY DEF Team
  <2>4. QED BY <2>1, <2>2, <2>3 DEF StealOrder, LaterAreClean, Open
<1>2. QED BY <1>1, NoPlay

\* Scoring the flight at turn marks it, and passes on only after a miss.
LEMMA ScoreTeamsInOrder ==
  ASSUME StealInv, mode = "teams", phase = "collect", UNCHANGED <<mode, deck>>, deck # 0,
         NEW l \in [Team -> Option \cup {NoOption, Blank}],
         \A f \in Team : f # turn => l[f] = lock[f],
         ScoreTeams(l)
  PROVE  StealOrder' /\ LaterAreClean'
<1> DEFINE ok == Right(l[turn])
           later == {f \in TeamIds : f > turn}
           steal == ~ok /\ turn \in TeamIds /\ later # {}
<1>1. /\ turn \in Team /\ Flight \subseteq Team /\ Team \subseteq Int
      /\ result \in [Team -> {"unset", "none", "hit", "miss"}]
  BY PartyAssumption DEF StealInv, Base, TypeOK, Team, Flight, NoTeam
<1>0. result[turn] # "unset"
  <2>1. current = "teams"
    BY GameUnderWay DEF StealInv, Base
  <2>2. QED BY <1>1, <2>1 DEF StealInv, Base, UnderWay
<1>2. /\ result' = [result EXCEPT ![turn] = IF ok THEN "hit" ELSE "miss"]
      /\ lock' = l
  BY <1>0 DEF ScoreTeams
<1>3. /\ \A f \in Team : result[f] # "none" => f <= turn
      /\ \A f \in Team : result[f] # "hit"
      /\ \A f \in Team : f > turn => lock[f] = NoOption
      /\ ask = "steal" => \E f \in Flight : f < turn /\ result[f] = "miss"
  BY DEF StealInv, StealOrder, LaterAreClean, Open
<1>4. CASE steal
  <2>1. turn' = LowestOf(later) /\ phase' = "collect"
    BY <1>0, <1>4 DEF ScoreTeams, OpenCollect
  <2>2. later \in SUBSET Flight /\ later # {}
    BY <1>4, ActiveIsPhones DEF StealInv, Base
  <2>3. turn' \in later
    BY <2>1, <2>2, LowestOfType
  <2>4. turn' \in Flight /\ turn' > turn /\ turn \in Flight
    BY <1>4, <2>2, <2>3, ActiveIsPhones DEF StealInv, Base
  <2>5. result'[turn] = "miss" /\ \A f \in Team : f # turn => result'[f] = result[f]
    BY <1>1, <1>2, <1>4
  <2>6. \A f \in Team : result'[f] # "none" => f <= turn
    BY <1>1, <1>3, <2>5
  <2>7. \A f \in Team : result'[f] # "hit"
    BY <1>3, <2>5
  <2>8. \A f \in Team : f > turn => lock'[f] = NoOption
    BY <1>1, <1>2, <1>3
  <2>9. StealOrder'
    <3>1. ASSUME NEW f \in Team, result'[f] # "none"
          PROVE  f <= turn'
      BY <1>1, <2>4, <2>6, <3>1
    <3>2. turn' \in Team /\ ~(turn' <= turn)
      BY <1>1, <2>4
    <3>3. result'[turn'] = "none" /\ lock'[turn'] = NoOption
      BY <2>4, <2>6, <2>8, <3>2
    <3>4. \E f \in Flight : f < turn' /\ result'[f] = "miss"
      BY <2>4, <2>5
    <3>5. QED BY <2>7, <3>1, <3>3, <3>4 DEF StealOrder
  <2>10. LaterAreClean'
    <3>1. ASSUME NEW f \in Team, f > turn'
          PROVE  lock'[f] = NoOption
      <4>1. f \in Int /\ turn \in Int /\ turn' \in Int
        BY <1>1, <2>4
      <4>2. QED BY <2>4, <2>8, <3>1, <4>1
    <3>2. QED BY <3>1 DEF LaterAreClean
  <2>11. QED BY <2>9, <2>10
<1>5. CASE ~steal
  <2>1. phase' = "reveal" /\ turn' = turn /\ ask' = ask
    BY <1>0, <1>5 DEF ScoreTeams, Reveal
  <2>2. LaterAreClean'
    BY <2>1 DEF LaterAreClean, Open
  <2>3. StealOrder'
    BY <1>1, <1>2, <1>3, <2>1 DEF StealOrder
  <2>4. QED BY <2>2, <2>3
<1>6. QED BY <1>4, <1>5

LEMMA PlaysInOrder ==
  ASSUME StealInv, NEW p \in Phone, NEW o \in Option,
         Choose(p, o) \/ Sponsor(p, o) \/ Vote(p, o) \/ Suggest(p, o) \/ LockAnswer(p, o)
  PROVE  StealOrder' /\ LaterAreClean'
<1>1. phase = "collect" /\ UNCHANGED <<mode, deck>>
  BY CollectingActs DEF StealInv, game
<1>2. CASE Choose(p, o) \/ Sponsor(p, o) \/ Vote(p, o)
  BY <1>1, <1>2, NoPlay DEF Choose, Sponsor, Vote, Individual
<1>3. CASE Suggest(p, o)
  BY <1>1, <1>3, PlayUntouched DEF Suggest, StealInv
<1>4. CASE LockAnswer(p, o)
  <2> DEFINE l == [lock EXCEPT ![turn] = o]
  <2>1. /\ l \in [Team -> Option \cup {NoOption, Blank}]
        /\ \A f \in Team : f # turn => l[f] = lock[f]
    BY DEF StealInv, Base, TypeOK
  <2>2. ScoreTeams(l) /\ mode = "teams"
    BY <1>4 DEF LockAnswer
  <2> HIDE DEF l
  <2>3. QED BY <1>1, <2>1, <2>2, ScoreTeamsInOrder, NoPlay
<1>5. QED BY <1>2, <1>3, <1>4

LEMMA TimeUpInOrder ==
  ASSUME StealInv, TimeUp
  PROVE  StealOrder' /\ LaterAreClean'
<1>1. phase = "collect" /\ UNCHANGED <<mode, deck>>
  BY DEF TimeUp, game
<1>2. CASE mode = "teams"
  <2> DEFINE l == IF lock[turn] = NoOption THEN [lock EXCEPT ![turn] = Suggested] ELSE lock
  <2>1. /\ l \in [Team -> Option \cup {NoOption, Blank}]
        /\ \A f \in Team : f # turn => l[f] = lock[f]
    BY SuggestedType DEF StealInv, Base, TypeOK
  <2>2. ScoreTeams(l)
    BY <1>2 DEF TimeUp, Individual
  <2> HIDE DEF l
  <2>3. QED BY <1>1, <1>2, <2>1, <2>2, ScoreTeamsInOrder, NoPlay
<1>3. QED BY <1>1, <1>2, NoPlay

LEMMA StealStep ==
  ASSUME StealInv, [Next]_vars
  PROVE  StealInv'
<1>1. Base'
  BY BaseStep DEF StealInv
<1> SUFFICES StealOrder' /\ LaterAreClean'
  BY <1>1 DEF StealInv
<1>2. CASE UNCHANGED vars
  BY <1>2, PlayUntouched DEF StealInv, vars, round, clock, game
<1>3. ASSUME NEW p \in Phone, DropPlayer(p) \/ \E w \in BOOLEAN : AddPlayer(p, w)
      PROVE  StealOrder' /\ LaterAreClean'
  BY <1>3, PlayUntouched DEF StealInv, DropPlayer, AddPlayer, round, clock, game
<1>4. ASSUME NEW m \in Mode, NEW n \in 2 .. FlightMax,
             StartEmpty(m, n) \/ \E d \in 1 .. DeckMax : Start(m, n, d)
      PROVE  StealOrder' /\ LaterAreClean'
  <2>1. CASE StartEmpty(m, n)
    BY <2>1, NoPlay DEF StartEmpty
  <2>2. ASSUME NEW d \in 1 .. DeckMax, Start(m, n, d)
        PROVE  StealOrder' /\ LaterAreClean'
    <3>1. OpenPrompt(m, team') /\ team' \in [Phone -> Team] /\ mode' = m
      BY <1>1, <2>2 DEF Start, Prepare, Base, TypeOK
    <3>2. QED BY <3>1, OpenPromptIsClean DEF StealInv, Base
  <2>3. QED BY <1>4, <2>1, <2>2
<1>5. CASE SkipBreak \/ BreakOver
  <2>1. EndBreak /\ phase = "interstitial"
    BY <1>5 DEF SkipBreak, BreakOver, StealInv, Base, TimerMatchesPhase
  <2>2. mode \in Mode /\ team \in [Phone -> Team] /\ UNCHANGED <<mode, deck>>
    BY <2>1, GameUnderWay DEF EndBreak, StealInv, Base, TypeOK
  <2>3. CASE deck = 0
    BY <2>2, <2>3, NoPlay
  <2>4. CASE deck # 0
    <3>1. OpenPrompt(mode, team)
      BY <2>1, <2>4 DEF EndBreak
    <3>2. QED BY <2>2, <3>1, OpenPromptIsClean DEF StealInv, Base
  <2>5. QED BY <2>3, <2>4
<1>6. CASE SkipDare \/ NextItem \/ AutoAdvance
  <2>1. /\ NextRound("none") \/ NextRound(card)
        /\ phase \in {"reveal", "interstitial"} /\ mode' = mode
    BY <1>6 DEF SkipDare, NextItem, AutoAdvance
  <2>2. mode \in Mode /\ team \in [Phone -> Team]
    BY <2>1, GameUnderWay DEF StealInv, Base, TypeOK
  <2>3. phase' \in {"results", "interstitial"} \/ OpenPrompt(mode, team)
    BY <2>1 DEF NextRound, Finish, Break
  <2>4. QED BY <2>1, <2>2, <2>3, NoPlay, OpenPromptIsClean DEF StealInv, Base
<1>7. CASE DrawDare \/ ToLobby
  BY <1>7, NoPlay DEF DrawDare, ToLobby
<1>8. CASE PromptRead
  <2>1. phase = "prompt" /\ phase' = "collect"
        /\ UNCHANGED <<mode, deck, ask, turn, result, lock>>
    BY <1>8 DEF PromptRead, OpenCollect, StealInv, Base, TimerMatchesPhase, game
  <2>2. QED BY <2>1, PlayUntouched DEF StealInv
<1>9. CASE PhoneStep
  BY <1>3, <1>9, PlaysInOrder DEF PhoneStep
<1>10. QED
  BY <1>2, <1>4, <1>5, <1>6, <1>7, <1>8, <1>9, TimeUpInOrder DEF Next, HostStep, TimerStep

\* A prompt passes from flight to flight in order, each tried at most once, and
\* a steal is open only after a miss.
THEOREM StealsGoInOrder == Spec => []StealOrder
<1>1. Init => StealInv
  <2>1. Init => StealOrder /\ LaterAreClean
    BY DEF Init, StealOrder, LaterAreClean, Open
  <2>2. QED BY <2>1, BaseInit DEF StealInv
<1>2. StealInv => StealOrder
  BY DEF StealInv
<1>3. QED BY <1>1, <1>2, StealStep, PTL DEF Spec

-----------------------------------------------------------------------------
(* Spectators.  A phone that watches, or has not joined, has nothing a later *)
(* step could pay, since only the active players are given anything.         *)

HoldsNothing(p) ==
  /\ answers[p] = NoOption /\ suggests[p] = NoOption /\ sponsors[p] = NoOption
  /\ score[p] = 0

Idle(p) == HoldsNothing(p) /\ team[p] = NoTeam /\ p \notin captain

Watching == \A p \in Phone : seat[p] = 0 \/ p \in audience => Idle(p)

WatchInv == LeadInv /\ Watching /\ Cardinality(Active) <= Cap

\* Scoring leaves a phone that is not playing and holds nothing as it is.
LEMMA ScoringSpares ==
  ASSUME TypeOK, NEW p \in Phone \ Active, HoldsNothing(p)
  PROVE  /\ \A a \in [Phone -> Option \cup {NoOption}] :
              a[p] = NoOption /\ (ScoreIndividual(a) \/ ScoreDecoy(a) \/ EnterVote(a) \/ Wait(a))
                => HoldsNothing(p)'
         /\ \A l \in [Team -> Option \cup {NoOption, Blank}] : ScoreTeams(l) => HoldsNothing(p)'
<1>1. score[p] = 0 /\ score \in [Phone -> Int] /\ p \in Phone
  BY DEF TypeOK, HoldsNothing
<1>2. ASSUME NEW a \in [Phone -> Option \cup {NoOption}], a[p] = NoOption,
             ScoreIndividual(a) \/ ScoreDecoy(a) \/ EnterVote(a) \/ Wait(a)
      PROVE  HoldsNothing(p)'
  <2>1. CASE ScoreIndividual(a)
    <3>1. PICK pay \in Payments(a) : Reveal(pay)
      BY <2>1 DEF ScoreIndividual
    <3>2. pay[p] = 0
      BY PaymentsAreUnits
    <3>3. score'[p] = score[p] + pay[p]
      BY <1>1, <3>1 DEF Reveal
    <3>4. QED BY <1>1, <1>2, <2>1, <3>2, <3>3 DEF ScoreIndividual, HoldsNothing
  <2>2. CASE ScoreDecoy(a)
    <3>1. PICK pay \in Payments(a) :
            Reveal([q \in Phone |-> pay[q] + Cardinality(Fooled(a, q))])
      BY <2>2 DEF ScoreDecoy
    <3>2. pay[p] = 0
      BY PaymentsAreUnits
    <3>3. Fooled(a, p) = {}
      BY DEF Fooled, HoldsNothing
    <3>4. Cardinality(Fooled(a, p)) = 0
      BY <3>3, FS_EmptySet
    <3>5. score'[p] = score[p] + (pay[p] + Cardinality(Fooled(a, p)))
      BY <1>1, <3>1 DEF Reveal
    <3>6. QED BY <1>1, <1>2, <2>2, <3>2, <3>4, <3>5 DEF ScoreDecoy, HoldsNothing
  <2>3. CASE EnterVote(a)
    BY <2>3 DEF EnterVote, HoldsNothing, NoAnswers, tally
  <2>4. CASE Wait(a)
    BY <1>2, <2>4 DEF Wait, HoldsNothing, tally
  <2>5. QED BY <1>2, <2>1, <2>2, <2>3, <2>4
<1>3. ASSUME NEW l \in [Team -> Option \cup {NoOption, Blank}], ScoreTeams(l)
      PROVE  HoldsNothing(p)'
  <2>1. score' = score \/ score'[p] = score[p] + 0
    BY <1>1, <1>3 DEF ScoreTeams, ScoreTeamsThrows, Reveal, tally
  <2>2. UNCHANGED <<answers, suggests, sponsors>>
    BY <1>3 DEF ScoreTeams, ScoreTeamsThrows
  <2>3. QED BY <1>1, <2>1, <2>2 DEF HoldsNothing
<1>4. QED BY <1>2, <1>3

\* So do all acts: those of the phone itself are turned away.
LEMMA ActsSpare ==
  ASSUME TypeOK, NEW p \in Phone \ Active, HoldsNothing(p), NEW q \in Phone, NEW o \in Option,
         Choose(q, o) \/ Sponsor(q, o) \/ Vote(q, o) \/ Suggest(q, o) \/ LockAnswer(q, o)
  PROVE  HoldsNothing(p)'
<1>1. /\ answers \in [Phone -> Option \cup {NoOption}] /\ answers[p] = NoOption
      /\ \A a \in [Phone -> Option \cup {NoOption}] :
           a[p] = NoOption /\ (ScoreIndividual(a) \/ ScoreDecoy(a) \/ EnterVote(a) \/ Wait(a))
             => HoldsNothing(p)'
  BY ScoringSpares DEF TypeOK, HoldsNothing
<1>2. q \in Active => q # p
  OBVIOUS
<1>3. CASE Choose(q, o)
  <2> DEFINE a == IF q \in Active /\ (mode = "sjt" \/ answers[q] = NoOption)
                  THEN [answers EXCEPT ![q] = o] ELSE answers
  <2>1. a \in [Phone -> Option \cup {NoOption}] /\ a[p] = NoOption
    BY <1>1, <1>2
  <2>2. ScoreIndividual(a) \/ Wait(a)
    BY <1>3 DEF Choose
  <2> HIDE DEF a
  <2>3. QED BY <1>1, <2>1, <2>2
<1>4. CASE Sponsor(q, o)
  <2> DEFINE a == IF q \in Active /\ answers[q] = NoOption /\ o # Truth
                  THEN [answers EXCEPT ![q] = o] ELSE answers
  <2>1. a \in [Phone -> Option \cup {NoOption}] /\ a[p] = NoOption
    BY <1>1, <1>2
  <2>2. EnterVote(a) \/ Wait(a)
    BY <1>4 DEF Sponsor
  <2> HIDE DEF a
  <2>3. QED BY <1>1, <2>1, <2>2
<1>5. CASE Vote(q, o)
  <2> DEFINE a == IF q \in Active /\ answers[q] = NoOption /\ o # sponsors[q]
                  THEN [answers EXCEPT ![q] = o] ELSE answers
  <2>1. a \in [Phone -> Option \cup {NoOption}] /\ a[p] = NoOption
    BY <1>1, <1>2
  <2>2. ScoreDecoy(a) \/ Wait(a)
    BY <1>5 DEF Vote
  <2> HIDE DEF a
  <2>3. QED BY <1>1, <2>1, <2>2
<1>6. CASE Suggest(q, o)
  BY <1>2, <1>6 DEF Suggest, OnTurn, HoldsNothing, TypeOK, tally
<1>7. CASE LockAnswer(q, o)
  <2>1. [lock EXCEPT ![turn] = o] \in [Team -> Option \cup {NoOption, Blank}]
    BY DEF TypeOK
  <2>2. ScoreTeams([lock EXCEPT ![turn] = o])
    BY <1>7 DEF LockAnswer
  <2>3. QED BY <2>1, <2>2, ScoringSpares
<1>8. QED BY <1>3, <1>4, <1>5, <1>6, <1>7

LEMMA TimeUpSpares ==
  ASSUME Base, NEW p \in Phone \ Active, HoldsNothing(p), TimeUp
  PROVE  HoldsNothing(p)'
<1>1. mode \in Mode
  BY GameUnderWay DEF Base, TimeUp
<1>2. answers \in [Phone -> Option \cup {NoOption}] /\ answers[p] = NoOption
  BY DEF Base, TypeOK, HoldsNothing
<1>3. CASE mode # "teams"
  <2>1. ScoreIndividual(answers) \/ EnterVote(answers) \/ ScoreDecoy(answers)
    BY <1>1, <1>3, PartyAssumption DEF TimeUp
  <2>2. QED BY <1>2, <2>1, ScoringSpares DEF Base
<1>4. CASE mode = "teams"
  <2> DEFINE l == IF lock[turn] = NoOption THEN [lock EXCEPT ![turn] = Suggested] ELSE lock
  <2>1. l \in [Team -> Option \cup {NoOption, Blank}]
    BY SuggestedType DEF Base, TypeOK
  <2>2. ScoreTeams(l)
    BY <1>4 DEF TimeUp, Individual
  <2> HIDE DEF l
  <2>3. QED BY <2>1, <2>2, ScoringSpares DEF Base
<1>5. QED BY <1>3, <1>4

\* A prompt that opens takes everybody's answers away and pays nobody.
LEMMA OpeningSpares ==
  ASSUME NEW p \in Phone, HoldsNothing(p), NEW m, NEW tm, OpenPrompt(m, tm),
         score' = score \/ score'[p] = 0
  PROVE  HoldsNothing(p)'
BY DEF OpenPrompt, Clear, HoldsNothing, NoAnswers

LEMMA NextRoundSpares ==
  ASSUME NEW p \in Phone, HoldsNothing(p), UNCHANGED tally,
         OpenNothing \/ \E c : NextRound(c)
  PROVE  HoldsNothing(p)'
<1>1. CASE OpenNothing
  BY <1>1 DEF OpenNothing, Clear, HoldsNothing, NoAnswers, tally
<1>2. ASSUME NEW c, NextRound(c)
      PROVE  HoldsNothing(p)'
  BY <1>2, OpeningSpares DEF NextRound, Finish, Break, HoldsNothing, round, tally
<1>3. QED BY <1>1, <1>2

\* No phone plays that watches or has not joined.
LEMMA WatchersAreAside ==
  ASSUME Seated, NEW p \in Phone, seat[p] = 0 \/ p \in audience
  PROVE  p \in Phone \ Active
BY DEF Seated, Active

\* A step of a game under way, of whatever kind, with the roster as it was.
LEMMA PlaySpares ==
  ASSUME WatchInv, UNCHANGED <<roster, flights>>,
         \A p \in Phone \ Active : HoldsNothing(p) => HoldsNothing(p)'
  PROVE  Watching' /\ Cardinality(Active') <= Cap
<1>1. Active' = Active
  BY DEF Active, roster
<1>2. Watching'
  BY WatchersAreAside DEF WatchInv, LeadInv, Watching, Idle, roster, flights
<1>3. QED BY <1>1, <1>2 DEF WatchInv

LEMMA JoinerWatchesOrPlays ==
  ASSUME WatchInv, NEW p \in Phone, NEW w \in BOOLEAN, AddPlayer(p, w)
  PROVE  Watching' /\ Cardinality(Active') <= Cap
<1>1. /\ seat' = [seat EXCEPT ![p] = Cardinality(Players) + 1] /\ here' = here \cup {p}
      /\ seat[p] = 0
      /\ UNCHANGED <<team, captain, score, answers, suggests, sponsors>>
  BY DEF AddPlayer, flights, tally, round
<1>2. audience' = audience \cup {p} \/ (audience' = audience /\ ~(Cardinality(Active) >= Cap))
  BY DEF AddPlayer
<1>3. Watching'
  BY <1>1, <1>2 DEF WatchInv, Watching, Idle, HoldsNothing, LeadInv, Base, TypeOK
<1>4. Idle(p) /\ p \notin here
  BY <1>1 DEF WatchInv, LeadInv, Seated, Watching
<1>5. /\ IsFiniteSet(Active) /\ Cardinality(Active) \in Nat
      /\ Cap \in Nat
  BY ActiveIsPhones, PhoneSetsFinite, PartyAssumption DEF WatchInv, LeadInv, Base
<1>6. CASE audience' = audience \cup {p}
  <2>1. Active' = Active
    BY <1>1, <1>4, <1>6 DEF Active
  <2>2. QED BY <1>3, <2>1 DEF WatchInv
<1>7. CASE audience' = audience /\ ~(Cardinality(Active) >= Cap)
  <2>1. Active' = Active \cup {p} \/ Active' = Active
    BY <1>1, <1>7 DEF Active
  <2>2. p \notin Active
    BY <1>4 DEF Active
  <2>3. Cardinality(Active \cup {p}) = Cardinality(Active) + 1
    BY <1>5, <2>2, FS_AddElement
  <2>4. QED BY <1>3, <1>5, <1>7, <2>1, <2>3
<1>8. QED BY <1>2, <1>6, <1>7

LEMMA LeaverIsNoSpectator ==
  ASSUME WatchInv, NEW p \in Phone, DropPlayer(p)
  PROVE  Watching' /\ Cardinality(Active') <= Cap
<1>1. /\ Active' = Active \ {p} /\ Active \in SUBSET Phone
      /\ captain' = EnsureCaptains(Active \ {p}, team, captain)
      /\ UNCHANGED <<seat, audience, team, score, answers, suggests, sponsors>>
  BY ActiveIsPhones DEF DropPlayer, Active, tally, round, WatchInv, LeadInv, Base
<1>2. \A q \in captain' : q \in captain \/ q \in Active
  <2>1. Active \ {p} \in SUBSET Phone /\ captain \in SUBSET Phone /\ seat \in [Phone -> Nat]
    BY <1>1 DEF WatchInv, LeadInv, Base, TypeOK
  <2>2. QED BY <1>1, <2>1, EnsureCaptainsType
<1>3. Watching'
  BY <1>1, <1>2, WatchersAreAside DEF WatchInv, LeadInv, Watching, Idle, HoldsNothing
<1>4. IsFiniteSet(Active) /\ Cardinality(Active) \in Nat /\ Cap \in Nat
  BY <1>1, PhoneSetsFinite, PartyAssumption
<1>5. Cardinality(Active') <= Cardinality(Active) /\ Cardinality(Active') \in Nat
  BY <1>1, <1>4, FS_Subset, PhoneSetsFinite
<1>6. QED BY <1>3, <1>4, <1>5 DEF WatchInv

\* A new game deals only the active players into flights.
LEMMA GameBeginsWithoutSpectators ==
  ASSUME WatchInv, NEW m \in Mode, NEW n \in 2 .. FlightMax, Prepare(m, n),
         UNCHANGED roster,
         UNCHANGED round \/ \E tm : OpenPrompt(m, tm)
  PROVE  Watching' /\ Cardinality(Active') <= Cap
<1>1. Active' = Active /\ Active \in SUBSET Phone /\ UNCHANGED <<seat, audience>>
  BY ActiveIsPhones DEF Active, roster, WatchInv, LeadInv, Base
<1>2. \A p \in Phone : p \notin Active => team'[p] = team[p]
  BY DEF Prepare, Dealt
<1>3. \A p \in captain' : p \in captain \/ p \in Active
  <2>1. CASE m = "teams"
    <3>1. captain' = EnsureCaptains(Active, team', captain \ Active)
      BY <2>1 DEF Prepare
    <3>2. captain \ Active \in SUBSET Phone /\ seat \in [Phone -> Nat]
      BY DEF WatchInv, LeadInv, Base, TypeOK
    <3>3. QED BY <1>1, <3>1, <3>2, EnsureCaptainsType
  <2>2. CASE m # "teams"
    BY <2>2 DEF Prepare
  <2>3. QED BY <2>1, <2>2
<1>4. score' = score \/ \A p \in Phone : score'[p] = 0
  BY DEF Prepare, tally
<1>5. ASSUME NEW p \in Phone \ Active, HoldsNothing(p)
      PROVE  HoldsNothing(p)'
  BY <1>4, <1>5, OpeningSpares DEF HoldsNothing, round
<1>6. Watching'
  BY <1>1, <1>2, <1>3, <1>5, WatchersAreAside DEF WatchInv, LeadInv, Watching, Idle
<1>7. QED BY <1>1, <1>6 DEF WatchInv

LEMMA WatchStep ==
  ASSUME WatchInv, [Next]_vars
  PROVE  WatchInv'
<1> DEFINE Goal == Watching' /\ Cardinality(Active') <= Cap
           Spared == \A p \in Phone \ Active : HoldsNothing(p) => HoldsNothing(p)'
<1>1. LeadInv'
  BY LeadStep DEF WatchInv
<1>2. WatchInv' <=> LeadInv' /\ Goal
  BY DEF WatchInv
<1>3. UNCHANGED <<roster, flights>> /\ Spared => Goal
  BY PlaySpares
<1>4. UNCHANGED <<tally, round>> => Spared
  BY DEF tally, round, HoldsNothing
<1>5. Base /\ TypeOK
  BY DEF WatchInv, LeadInv, Base
<1>6. CASE UNCHANGED vars \/ PromptRead \/ ToLobby \/ DrawDare
  <2>1. UNCHANGED <<roster, flights>>
    BY <1>6 DEF vars, PromptRead, ToLobby, DrawDare
  <2>2. UNCHANGED <<score, answers, suggests, sponsors>>
    BY <1>6 DEF vars, PromptRead, ToLobby, DrawDare, tally, round
  <2>3. Spared
    BY <2>2 DEF HoldsNothing
  <2>4. QED BY <1>1, <1>2, <1>3, <2>1, <2>3
<1>7. CASE PhoneStep
  <2>1. ASSUME NEW p \in Phone, NEW w \in BOOLEAN, AddPlayer(p, w)
        PROVE  Goal
    BY <2>1, JoinerWatchesOrPlays
  <2>2. ASSUME NEW p \in Phone, DropPlayer(p)
        PROVE  Goal
    BY <2>2, LeaverIsNoSpectator
  <2>3. ASSUME NEW q \in Phone, NEW o \in Option,
               Choose(q, o) \/ Sponsor(q, o) \/ Vote(q, o) \/ Suggest(q, o) \/ LockAnswer(q, o)
        PROVE  Goal
    <3>1. Spared
      BY <1>5, <2>3, ActsSpare
    <3>2. UNCHANGED <<roster, flights>>
      BY <1>5, <2>3, CollectingActs
    <3>3. QED BY <1>3, <3>1, <3>2
  <2>4. QED BY <1>1, <1>2, <1>7, <2>1, <2>2, <2>3 DEF PhoneStep
<1>8. ASSUME NEW m \in Mode, NEW n \in 2 .. FlightMax,
             StartEmpty(m, n) \/ \E d \in 1 .. DeckMax : Start(m, n, d)
      PROVE  Goal
  <2>1. Prepare(m, n) /\ UNCHANGED roster
    BY <1>8 DEF StartEmpty, Start
  <2>2. UNCHANGED round \/ \E tm : OpenPrompt(m, tm)
    BY <1>8 DEF StartEmpty, Start
  <2>3. QED BY <2>1, <2>2, GameBeginsWithoutSpectators
<1>9. CASE SkipBreak \/ SkipDare \/ NextItem \/ BreakOver \/ AutoAdvance
  <2>1. /\ UNCHANGED <<roster, flights, tally>>
        /\ OpenPrompt(mode, team) \/ OpenNothing \/ \E c : NextRound(c)
    BY <1>9 DEF SkipBreak, SkipDare, NextItem, BreakOver, AutoAdvance, EndBreak
  <2>2. Spared
    BY <2>1, NextRoundSpares, OpeningSpares DEF tally
  <2>3. QED BY <1>1, <1>2, <1>3, <2>1, <2>2
<1>10. CASE TimeUp
  <2>1. Spared
    BY <1>5, <1>10, TimeUpSpares
  <2>2. UNCHANGED <<roster, flights>>
    BY <1>10 DEF TimeUp
  <2>3. QED BY <1>1, <1>2, <1>3, <2>1, <2>2
<1>11. QED
  BY <1>1, <1>2, <1>6, <1>7, <1>8, <1>9, <1>10 DEF Next, HostStep, TimerStep

\* At most Cap phones score, and one that watches is never paid, answers
\* nothing and leads no flight, over every game of the room.
THEOREM SpectatorsStayAside == Spec => []SpectatorsOnlyWatch
<1>1. Init => WatchInv
  <2>1. Init => LeadInv
    <3>1. Init => Seated /\ Led
      BY DEF Init, Seated, Led, Active, Members
    <3>2. QED BY <3>1, BaseInit DEF LeadInv
  <2>2. Init => Watching
    BY DEF Init, Watching, Idle, HoldsNothing, NoAnswers
  <2>3. Init => Cardinality(Active) <= Cap
    <3>1. Init => Active = {}
      BY DEF Init, Active
    <3>2. QED BY <3>1, FS_EmptySet, PartyAssumption
  <2>4. QED BY <2>1, <2>2, <2>3 DEF WatchInv
<1>2. WatchInv => SpectatorsOnlyWatch
  BY DEF WatchInv, LeadInv, Base, TypeOK, Watching, Idle, HoldsNothing, SpectatorsOnlyWatch
<1>3. QED BY <1>1, <1>2, WatchStep, PTL DEF Spec
=============================================================================
