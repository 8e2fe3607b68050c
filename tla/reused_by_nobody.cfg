SPECIFICATION Spec
CONSTANTS
  Sockets = {s1}
  Chargers = {{s1}}
  Mine = {s1}
  Commands = {}
  Polls = {p1}
  None = None
  Statuses = {"AVAILABLE", "CHARGING"}
  PUSHED_END_TRUST = 1
  OWN_START_WINDOW = 1
  MaxChanges = 1
  MaxPushes = 1
  MaxPresses = 0
  MaxFailures = 1
INVARIANT ReusedWasUsed
