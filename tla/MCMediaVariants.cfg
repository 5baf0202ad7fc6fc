SPECIFICATION FairMediaSpec
CONSTANTS
  Presets = {small}
  Replicas = {r1, r2}
  Requests = {q1, q2}
  MaxAttempts = 2
  MaxFaults = 1
CHECK_DEADLOCK FALSE
INVARIANTS RenditionsSound ClaimHolds
PROPERTIES ReferencedSurvives RenderingsSettle
