SPECIFICATION Spec
CONSTANTS
  Automatic = TRUE
  UserRequests = {}
  Modes = {"normal"}
  DefaultMode = "solar"
  SettleTime = 1
  StableTo1P = 1
  StableTo3P = 2
  Cooldown = 2
  MaxSwitches = 2
INVARIANTS
  TypeOK
  AutomaticSwitchesAreBounded
PROPERTIES
  AutomaticSwitchesAreSpaced
