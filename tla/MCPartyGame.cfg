CONSTANTS
  p1 = p1
  p2 = p2
  p3 = p3
  p4 = p4
  truth = truth
  lieA = lieA
  lieB = lieB
  NoOption = NoOption
  Blank = Blank
  Phone = {p1, p2, p3, p4}
  Mode <- AllModes
  Option = {truth, lieA}
  Truth = truth
  Cap = 3
  FlightMax = 2
  BreakEvery = 1
  DeckMax = 1
  MaxStarts = 1
SPECIFICATION Spec
SYMMETRY Phones
INVARIANTS TypeOK OneCaptain NoSelfVote StealOrder SpectatorsOnlyWatch
CHECK_DEADLOCK FALSE
