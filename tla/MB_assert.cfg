SPECIFICATION Spec
CONSTANTS
  Users = {u1, u2}
  Reconnecters = {r}
  Retries = 2
INVARIANTS
  ClientPresent
