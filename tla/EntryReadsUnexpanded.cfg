SPECIFICATION ReadsSpec
CONSTANTS
  Articles = {"a1", "a2"}
  Profiles = {"w1"}
  WrittenBy <- Authors
  GroupOf <- Groups
  LocaleOf <- Locales
  Lists <- SomeLists
  Worlds <- SomeWorlds
  Readers <- SomeReaders
  Populates <- SomePaths
  MaxDepth = 3
  MaxTargets = 2
  MaxEdits = 1
CHECK_DEADLOCK FALSE
INVARIANT UnexpandedWasComputed
