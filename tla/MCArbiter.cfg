SPECIFICATION Spec
CONSTANTS
  Ring = {r1, r2, r3, r4}
  EjPorts = 2
  MaxTime = 2
INVARIANTS
  LaterFlitsFirst
  OldestHeaderWins
  OldestWinsAlone
