SPECIFICATION Spec
CONSTANTS
  ControlMode = "managed"
  PhaseSwitching = "off"
  SensorsTracked = FALSE
  Callers = {}
  Targets = {16}
  Requests = {}
  MinCurrent = 6
  PhaseRequests = {}
  Modes = {"normal"}
  DefaultMode = "normal"
PROPERTIES
  NoTargetWithoutVehicle
