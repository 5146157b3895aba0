CONSTANTS
  b1 = b1
  b2 = b2
  brick1 = brick1
  s1 = s1
  s2 = s2
  i1 = i1
  c1 = c1
  g1 = g1
  Item = {i1}
  Chapter = {c1}
  Badge = {}
  Browser = {b1}
  Brick = brick1
  Slot = {s1, s2}
  ChapterOf <- OneChapter
  DayLength = 2
  MaxNow = 2
  MaxMoves = 0
SPECIFICATION Spec

PROPERTY SyncMerges
CHECK_DEADLOCK FALSE
