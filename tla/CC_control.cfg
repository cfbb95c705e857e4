SPECIFICATION Spec
CONSTANTS
  None = None
  LongAgo = 3
  PowerGrain = 920
  Sites <- MCSites
  MinBetween = 2
  PendingMaxAge = 3
  StartupTime = 5
  DlbGuardTime = 1
  SolarGuardTime = 1
INVARIANTS
  TypeOK
  MismatchIsBounded
  ReductionWaitsOnce
  FallbackOnlyWithoutSensors
  EcoStopsInTime
PROPERTIES
  ChargeableOrZero
  LimitsAreKept
  StartNeedsLastingSun
  PauseIsKept
