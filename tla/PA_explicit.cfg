SPECIFICATION Spec
CONSTANTS
  Automatic = FALSE
  UserRequests = {"1P"}
  Modes = {}
  DefaultMode = "normal"
  SettleTime = 1
  StableTo1P = 1
  StableTo3P = 1
  Cooldown = 1
  MaxSwitches = 1
PROPERTIES
  ExplicitRequestIsKept
