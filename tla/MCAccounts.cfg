SPECIFICATION AccountsSpec
CONSTANTS
  Tenants = {t1}
  Requests = {q1, q2}
  Agents = {a1}
  None = None
  MaxTokens = 3
  MaxEvents = 4
  MaxFaults = 1
SYMMETRY AccountsSymmetry
CONSTRAINT Focus
CHECK_DEADLOCK FALSE
INVARIANTS AccountsSound RotationYieldsOne
PROPERTIES SessionsAreEarned ProfileKeepsTheRest
