SPECIFICATION ServicesSpec
CONSTANTS
  Operators = {o1, o2}
  Builds = {"old", "new", "edited"}
  Disk <- Files
  Legacy = {0, 2}
  MaxCommands = 3
  Clients = {c1, c2}
  EntryIds = {i1, i2}
  Payloads = {x1, x2}
  IdemKeys = {k1}
  NoKey = NoKey
  MaxRequests = 3
  MaxMishaps = 1
  Nodes = {n1, n2}
  Sites = {s1}
  MaxReads = 2
  MaxLosses = 2
  Bodies = {"a", "b"}
  MaxChanges = 3
  LogLimit = 2
  MaxActs = 2
  MaxFailures = 1
  Ids = {1, 2, 3}
  CreatedAt <- Created
  Ranks = {1, 2}
  Limit = 1
  MaxWrites = 2
  People = {ann, bob}
  Documents = {d1}
  ListRoles = {"admin", "editor"}
  NoAuthor = NoAuthor
  Callers = {"ann", "bob", "bot"}
  Chiefs = {"ann"}
  Agents = {"bot"}
  Services = {}
  FieldKeys = {"open", "closed"}
  Restricted = {"closed"}
  Veiled = {"closed"}
  FieldValues = {"f1", "f2"}
  Blank = "blank"
  Founder = "founder"
  MaxReleases = 1
  MaxCalls = 3
CONSTRAINT Bounded
CHECK_DEADLOCK FALSE
INVARIANTS
  MigrationsSound
  RequestsSound
  CountsSound
  MirrorSound
  PagesSound
  ListsSound
  HistorySound
PROPERTIES
  RestoresAsShown
