\* A poll in slices and one that waits for all that remains, links that break.
SPECIFICATION FairSpec
CONSTANTS
  m1 = m1  m2 = m2  p1 = p1  p2 = p2
  Managers = {m1, m2}
  Polls = {p1, p2}
  ManagerOf <- MCManagerOf
  Sliced = {p1}
  MaxSlices = 2
  MaxItems = 2
  MaxMishaps = 2
INVARIANTS
  NeverSleepsThrough
PROPERTIES
  AllTaken
