SPECIFICATION Spec
CONSTANTS
  Calls = {c1, c2}
  Life = 4
  Skew = 2
  TokenDelay = 1
  ApiDelay = 1
  EffectRuns = 2
  MaxLogins = 3
  None = None
INVARIANTS NeverExpiredInFlight ExchangeOnceWithItsVerifier
CHECK_DEADLOCK FALSE
