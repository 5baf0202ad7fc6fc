\* Two replicas, and a content event with two endpoints or a mixed batch;
\* one read of three entries beside a write.
SPECIFICATION MCFairSpec
CONSTANTS
  N = 3
  UserRows = {1}
  UnroutedRows = {2}
  Workers = {w1, w2}
  NHooks = 2
  BatchSize = 2
  MaxRetries = 2
  MaxFaults = 1
  Articles = {"a1", "a2"}
  Profiles = {"w1"}
  WrittenBy <- Authors
  GroupOf <- Groups
  LocaleOf <- Locales
  Lists <- SomeLists
  Worlds <- SomeWorlds
  Readers <- SomeReaders
  Populates <- SomePaths
  MaxDepth = 3
  MaxTargets = 2
  MaxEdits = 1
INVARIANTS RowsSound RetryBudget ExclusiveClaim ReadsSound
PROPERTIES KeepsPromise EveryEventSettles
