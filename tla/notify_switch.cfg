SPECIFICATION FairSpec
CONSTANTS
  Stations = {a, b}
  Toggles = {t1, t2}
  Refresh = refresh
  NoStation = NoStation
INVARIANT TypeOK CacheFollowsPortal
PROPERTY EveryToggleEnds
