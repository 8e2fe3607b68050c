SPECIFICATION OfferSpec
CONSTANTS
  s1 = s1
  s2 = s2
  s3 = s3
  None = None
  Reasons <- MCReasons
  capabilities <- MCCapabilities
  Statuses = {"AVAILABLE", "CHARGING"}
  Sockets = {s1, s2, s3}
  Commands = {c1}
  PUSHED_END_TRUST = 1
  OWN_START_WINDOW = 1
  sockets <- MCPreference
  names <- MCNames
  freed_for = 1
  notify_none_free = TRUE
  BOUNCE = 0
  RECENT = 1
  MaxRuns = 3
  MaxEvents = 4
INVARIANT OfferTypeOK OffersOnlyWhereWanted
PROPERTY NothingUntouchedOffered EveryRunEnds
