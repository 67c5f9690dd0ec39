SPECIFICATION Spec
CONSTANTS
  p1 = p1 r1 = r1 r2 = r2 r3 = r3
  Slots = {r1, r2, r3}
  Pages = {p1, p2}
  Accounts = {a1, a2}
  Networks = {n1, n2}
  None = None
  Mixes <- MCMixes
INVARIANTS SignsAsShown
CHECK_DEADLOCK FALSE
