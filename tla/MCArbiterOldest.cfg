SPECIFICATION Spec
CONSTANTS
  Ring = {r1, r2, r3}
  EjPorts = 1
  MaxTime = 3
INVARIANT OldestWins
