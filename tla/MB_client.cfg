SPECIFICATION FairSpec
CONSTANTS
  Users = {u1, u2}
  Reconnecters = {r}
  Retries = 2
INVARIANTS
  TypeOK
  OneConnection
  RequestUndisturbed
PROPERTIES
  CallsEnd
  LinkIsKept
