SPECIFICATION Spec
CONSTANTS
  n1 = n1  e1 = e1
  here = here  there = there
  r1 = r1  r2 = r2
  Ids = {n1, e1}
  MaxRetired = 1
  Slots = {r1, r2}
  Hosts = {here, there}
  Env <- MCEnv
  Inputs <- MCInputs
  Patches <- MCPatches
  Keep = Keep  Gone = Gone  Overlapped = Overlapped
SYMMETRY MCSymmetry
INVARIANTS TypeOK OneCollectorEach NothingLost AnswerHolds
