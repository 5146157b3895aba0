CONSTANTS
  Relays = {"lan", "hosted"}
  MaxAnswers = 2
  DeckSize = 2
  MockSlots = 2
  MaxMints = 1
SPECIFICATION Spec
INVARIANTS TypeOK EveryAnswerKept DeskHasASession
