\* Cooldowns against the trailing clock, the quota ladder across a day boundary, and the trail.
SPECIFICATION HealthSpec
CONSTANTS
  Scopes = {s1}
  Faults = {"retryable", "rateLimitHinted", "quotaStated", "quotaGuessed", "streamFailure"}
  TickPeriod = 2
  Transient = 3
  Rung1 = 2
  Rung2 = 3
  Rung3 = 4
  Rung4 = 6
  RetryAfter = 5
  StatedReset = 5
  Day = 6
  RingSize = 2
  MaxClock = 8
  MaxRepeats = 6
INVARIANTS
  CooldownEndsOnTime
  TrailExplainsStates
PROPERTY
  CooldownNotCutShort
  RepeatsClimb
CHECK_DEADLOCK FALSE
