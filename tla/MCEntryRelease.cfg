\* Two editors and one schedule, or one editor and two, with two workers.
SPECIFICATION MCFairSpec
CONSTANTS
  Editors = {e1, e2}
  Sweepers = {w1, w2}
  Bodies = {a, b}
  MaxWrites = 3
  MaxSchedules = 2
  MaxFaults = 1
  Nobody = Nobody
  NoBody = NoBody
CHECK_DEADLOCK FALSE
INVARIANTS SchedulesSound
PROPERTIES TakesEffectAtOnce NoLostUpdate ShelfFollowsLedger DueSettles
