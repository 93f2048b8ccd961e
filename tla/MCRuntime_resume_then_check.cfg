\* A resume, then a run.
SPECIFICATION Spec

CONSTANTS
  None = None
  w1 = w1
  w2 = w2
  m1 = m1
  o1 = o1
  o2 = o2
  j1 = j1
  j2 = j2
  a1 = a1
  Workers = {w1}
  Monitors = {}
  Operators = {o1}
  Commands = {"resume"}
  Jobs = {j1}
  Accounts = {a1}
  Items = {1}
  AccountOf <- OneAccount
  JobOfItem <- AllOfJob1
  Answers = {"FOUND"}
  RetryDelays = {1}
  LeaseSeconds = 2
  TakeoverGrace = 0
  RecoveryGrace = 1
  MaxAttempts = 1
  Horizon = 1
  RenewFailureLimit = 1
  MaxStall = 1
  Faults = {}

PROPERTY ResumedIsNotPaused
