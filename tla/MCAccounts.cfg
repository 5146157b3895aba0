\* Two accounts to be had; the admin's address and two others, each of which
\* is what wiping one of the accounts leaves; two callsigns and two requests at
\* a time.
CONSTANTS
  u1 = u1
  u2 = u2
  e1 = e1
  t1 = t1
  t2 = t2
  n1 = n1
  n2 = n2
  r1 = r1
  r2 = r2
  Id = {u1, u2}
  Email = {e1, t1, t2}
  Name = {n1, n2}
  Request = {r1, r2}
  AdminEmail = e1
  AdminName = {n1}
  Tomb <- Tombstones
  None = None
SPECIFICATION Spec
SYMMETRY Interchangeable
INVARIANTS OneLiveAccount WipedForGood
PROPERTY TakenIsHeld
