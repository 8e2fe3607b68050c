SPECIFICATION DetailSpec
CONSTANTS
  N = 3
  DETAIL_REFRESH = 6
  MaxAborts = 1
INVARIANT DetailTypeOK PrimedWhole RefreshedHourly
