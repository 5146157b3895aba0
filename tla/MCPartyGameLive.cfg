CONSTANTS
  p1 = p1
  p2 = p2
  p3 = p3
  p4 = p4
  truth = truth
  lieA = lieA
  lieB = lieB
  NoOption = NoOption
  Blank = Blank
  Phone = {p1, p2}
  Mode <- AllModes
  Option = {truth, lieA}
  Truth = truth
  Cap = 2
  FlightMax = 2
  BreakEvery = 1
  DeckMax = 2
  MaxStarts = 2
SPECIFICATION FairSpec
INVARIANTS TimerMatchesPhase StealOrder
PROPERTIES QuizNightKept LightningRunsItself
CHECK_DEADLOCK FALSE
