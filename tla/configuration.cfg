SPECIFICATION Spec
CONSTANTS
  Models = {m1, m2}
  m1 = m1
  m2 = m2
  None = None
  Sessions = {s1, s2}
  Defaults <- MCDefaults
  Patches <- MCPatches
  Overrides <- MCOverrides
  MaxTurns = 2
  MaxSideRequests = 3
  MaxFaults = 1
SYMMETRY TwoSessions
CHECK_DEADLOCK FALSE
INVARIANTS
    RoundsNameTheirSession
PROPERTIES
    RoundsAreGoverned
