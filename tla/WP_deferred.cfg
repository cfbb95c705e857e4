SPECIFICATION Spec
CONSTANTS
  ControlMode = "external"
  PhaseSwitching = "manual"
  SensorsTracked = FALSE
  Callers = {c1}
  Targets = {6}
  Requests = {0, 6}
  MinCurrent = 6
  PhaseRequests = {"manual"}
  Modes = {"normal"}
  DefaultMode = "normal"
INVARIANTS
  DeferredOnlyDuringTask
