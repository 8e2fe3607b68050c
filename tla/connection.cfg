SPECIFICATION ConnectionSpec
CONSTANTS
  Requests = {r1, r2}
  Push = push
  MaxTroubles = 3
  MIN_SECONDS = 1
  MAX_SECONDS = 3
  SILENCE_TIMEOUT = 1
INVARIANT ConnectionTypeOK UndisturbedIsAnswered NoStaleCookie
PROPERTY EveryRequestEnds PushOpens BacksOff
