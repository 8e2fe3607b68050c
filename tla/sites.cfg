SPECIFICATION FairSpec
CONSTANTS
  a = a
  b = b
  c = c
  s = s
  t = t
  Sites = {s, t}
  Chargers = {a, b, c}
  SiteOf <- MCSiteOf
  Flows = {f1, f2}
  NoSite = NoSite
  Passwords = {"old", "new"}
  Intervals = {60, 300}
  Password = "old"
  Interval = 60
  MaxChanges = 2
  MaxFailures = 1
INVARIANT TypeOK NoChangeMissed DevicesFollow
PROPERTY UserDecides EventuallyLoaded
