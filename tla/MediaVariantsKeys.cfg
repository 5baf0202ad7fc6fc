SPECIFICATION MediaSpec
CONSTANTS
  Presets = {small}
  Replicas = {r1}
  Requests = {q1}
  MaxAttempts = 1
  MaxFaults = 0
CHECK_DEADLOCK FALSE
PROPERTIES CommittedKeysReturned
