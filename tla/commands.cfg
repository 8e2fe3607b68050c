SPECIFICATION Spec
CONSTANTS
  Sockets = {s1}
  Cmds = {c1, c2}
  None = None
  Reasons <- MCReasons
  Answers <- MCAnswers
  Statuses = {"AVAILABLE", "PREPARING"}
  INTERVAL = 1
  MAX_POLLS = 2
  RATE_LIMIT_FLOOR = 0
  RATE_LIMIT = 1
  MOST_REQUESTS = 1
INVARIANT TypeOK WithinTimeout
PROPERTY LastCheckCounts EveryCommandFinishes
