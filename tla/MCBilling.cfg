CONSTANTS
  k1 = k1
  k2 = k2
  h1 = h1
  h2 = h2
  NoSub = NoSub
  Checkout = {k1, k2}
  Handler = {h1, h2}
  MaxDue = 2
  MaxDeletions = 1
  MaxReturns = 1
  MaxFailures = 1
SPECIFICATION Spec
SYMMETRY Names
INVARIANTS CanceledIsTrue PaidIsSeen RevokedIsOver DeletedPaysNothing
CHECK_DEADLOCK FALSE
