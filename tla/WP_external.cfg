SPECIFICATION Spec
CONSTANTS
  ControlMode = "external"
  PhaseSwitching = "manual"
  SensorsTracked = TRUE
  Callers = {c1}
  Targets = {6}
  Requests = {6}
  MinCurrent = 6
  PhaseRequests = {"manual"}
  Modes = {"normal"}
  DefaultMode = "normal"
INVARIANTS
  RegisterMatchesRecord
  OwnerOnly
  LockDiscipline
PROPERTIES
  PortIsSerial
