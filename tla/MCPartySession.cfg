\* One room code, a TV and a phone, each with an old socket and a new one, and
\* one fault anywhere.
CONSTANTS
  tv = tv
  p1 = p1
  c1 = c1
  Tv = tv
  Phone = {p1}
  Code = {c1}
  Slot = {1, 2}
  MaxMints = 1
  MaxFaults = 1
SPECIFICATION Spec
INVARIANTS TypeOK RosterIsRoom PhoneSeesGame
PROPERTY TvGetsItsRoomBack
