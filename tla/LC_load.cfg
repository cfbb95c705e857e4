SPECIFICATION FairSpec
CONSTANTS
  ControlModes <- Both
  Sensors = TRUE
INVARIANTS TypeOK NothingOutlives OffSurvives
PROPERTY UnloadEnds
