\* Polls in slices, and nothing that fails.
SPECIFICATION Spec
CONSTANTS
  m1 = m1  m2 = m2  p1 = p1  p2 = p2
  Managers = {m1, m2}
  Polls = {p1, p2}
  ManagerOf <- MCManagerOf
  Sliced = {p1, p2}
  MaxSlices = 2
  MaxItems = 2
  MaxMishaps = 0
INVARIANTS
  NobodySleepsThrough
