SPECIFICATION Spec
CONSTANTS
  Sockets = {s1, s2}
  Chargers = {{s1}, {s2}}
  Mine = {s1}
  Commands = {c1}
  Polls = {p1}
  None = None
  Statuses = {"AVAILABLE", "CHARGING"}
  PUSHED_END_TRUST = 1
  OWN_START_WINDOW = 1
  MaxChanges = 1
  MaxPushes = 1
  MaxPresses = 1
  MaxFailures = 0
INVARIANT TypeOK PublishedEndHolds
PROPERTY ImplementsTracker
