SPECIFICATION DetailSpec
CONSTANTS
  N = 13
  DETAIL_REFRESH = 12
  MaxAborts = 0
INVARIANT RefreshedHourly
