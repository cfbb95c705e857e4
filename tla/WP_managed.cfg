SPECIFICATION Spec
CONSTANTS
  ControlMode = "managed"
  PhaseSwitching = "automatic"
  SensorsTracked = TRUE
  Callers = {}
  Targets = {16}
  Requests = {}
  MinCurrent = 6
  PhaseRequests = {"manual"}
  Modes = {"normal", "solar"}
  DefaultMode = "normal"
INVARIANTS
  TypeOK
  LockDiscipline
  PhaseWriteLeavesNoTarget
  DecisionLands
