CONSTANTS
  t1 = t1
  t2 = t2
  p1 = p1
  p2 = p2
  NoHost = NoHost
  Tv = {t1, t2}
  Phone = {p1, p2}
  Cap = 1
  AudienceCap = 1
SPECIFICATION FairSpec
INVARIANTS GraceCoversPhones GraceIsWhole
PROPERTIES ToldInOrder RoomCodeKept
CHECK_DEADLOCK FALSE
