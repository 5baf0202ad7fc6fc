SPECIFICATION Spec
CONSTANTS
  Editors = {e1}
  Sweepers = {w1}
  Bodies = {a, b}
  MaxWrites = 5
  MaxSchedules = 1
  MaxFaults = 0
  Nobody = Nobody
  NoBody = NoBody
CHECK_DEADLOCK FALSE
PROPERTIES PublishedVersionTracks
