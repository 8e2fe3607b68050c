SPECIFICATION HSpec
CONSTANTS
  Sockets = {s1, s2}
  Commands = {c1}
  None = None
  Statuses = {"AVAILABLE", "CHARGING"}
  PUSHED_END_TRUST = 2
  OWN_START_WINDOW = 1
SYMMETRY Symm
INVARIANT TypeOK PushedEndHolds LeftSocketHeld HeldBackFreeThroughout OwnStartsSound
PROPERTY EndIsKept NewestPushedEndTrusted
