SPECIFICATION FairSpec
CONSTANTS
  Chargers = {a}
  Presses = {p}
  RefreshNow = RefreshNow
  NoCharger = NoCharger
  MaxChanges = 3
  MayFail = TRUE
INVARIANT TypeOK ChangesAreRead
PROPERTY PendingEnds
