CONSTANTS
  p = p
  b1 = b1
  b2 = b2
  Streams = {s1, s2}
  QueueSize = 2
  MaxEvents = 5
  Runners = {r1, r2}
  Managers = {m1}
  NoHolder = NoHolder
  FloodSeconds = {1, 2}
  TicksPerSecond = 2
  MinInterval = 1
  MaxFloods = 2
  Handlers = {1, 2}
  Workers = {w1}
  Logins = {l1}
  Keys = {0, 1, 2}
  LegacyKey = 0
  Nothing = Nothing
  MaxAccounts = 2
  Qrs = {q1}
  Coroutines = {1, 2, 3}
  Parent = p
  Branch = {b1, b2}
  Tasks = {p, b1, b2}
  Elsewhere = Elsewhere
  Gone = Gone
  NoTask = NoTask
  Units <- UnitNames
  Program <- UnitPrograms
  NoUnit = NoUnit
  MaxLosses = 3
  Texts <- TextNames
  Normalised <- SpellingsOf
  NotANumber = NotANumber
  Folded <- CasefoldOf
  Lines <- FileLines
  MaxLines = 4
  MaxSelected = 3
  Tokens = {t1, t2}
  SecondTicks = 2
  FailureLimit = 2
  WindowSeconds = 4
  BlockSeconds = 4
  MaxAge = 2
  Services = {"events", "limiter", "accounts", "branches", "database", "import", "auth"}
SPECIFICATION ServicesSpec
CHECK_DEADLOCK FALSE
SYMMETRY BranchSymmetry
INVARIANTS
  StreamsAreGapFree
  CooldownsAreTelegrams
  
  SessionsHaveAccounts
  NothingLeftBehind
  WaitingIsWaitedFor
  TasksTracked
  
  AllOrNothing
  SuccessIsDurable
  NoStrayWrites
  EveryNumberImported
  FilesAreDealtFairly
  GuessesThrottled
  WebSessionsLast
PROPERTIES
  WorkersHonourStoredCooldown
  RunsKeepTheirSession
  
