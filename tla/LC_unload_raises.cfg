SPECIFICATION Spec
CONSTANTS
  ControlModes <- External
  Sensors = FALSE
INVARIANT TasksEndWithFailedUnload
