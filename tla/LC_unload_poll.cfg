SPECIFICATION Spec
CONSTANTS
  ControlModes <- Managed
  Sensors = FALSE
INVARIANT TasksEndWithEntry
