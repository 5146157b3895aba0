CONSTANTS
  a1 = a1
  a2 = a2
  r1 = r1
  Answer = {a1, a2}
  Remote = {r1}
SPECIFICATION PocketSpec
INVARIANT FileKeepsSave
PROPERTIES OnlyFlushTears NothingDropped
