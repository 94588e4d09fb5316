SPECIFICATION Spec
CONSTANTS
  p1 = p1  p2 = p2  e1 = e1  e2 = e2
  Parked = Parked  Nothing = Nothing  Undefined = Undefined  Null = Null  MaxTime = 3
  Ports = {p1, p2}  Engines = {e1, e2}  Closed = Closed  Mute = Mute  Floor = 3
  TokenWindow = 1  LatencyWindow = 2  MaxTokens = 3  MaxSamples = 3  MaxRestarts = 1
  MaxWords = 2  MaxFaults = 1  MaxReloads = 1
  CutsTried = {0, 3, 4, 7, 8, 10, 14}
  Containers = {c1}  Pids = {q1, q2}  Outside = Outside
SYMMETRY MCSymmetry
INVARIANTS FoundInTime RateHonest UseHonest
PROPERTIES KeptWhileAnswering TrafficHonest
