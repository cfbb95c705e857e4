----------------------------- MODULE ModbusLink -----------------------------
(***************************************************************************)
(* What modbus/client.py promises, seen from the network: at most one TCP  *)
(* connection to the charger, at most one request on it, and a connection  *)
(* that is opened, closed or replaced only between two requests.           *)
(* ModbusClient implements this with a lock, reconnects and retries.       *)
(***************************************************************************)
EXTENDS Integers

CONSTANT Users   \* the coroutines that send requests

VARIABLES
  client,    \* "none", "open", or "lost" while nobody has noticed
  sockets,   \* TCP connections that are open
  busy,      \* the coroutines whose request is under way
  carried    \* the charger has carried it out

linkVars == <<client, sockets, busy, carried>>

LinkInit ==
  /\ client = "open" /\ sockets = 1
  /\ busy = {} /\ carried = FALSE

Open ==
  /\ busy = {} /\ client # "open" /\ sockets = 0
  /\ client' = "open" /\ sockets' = 1
  /\ UNCHANGED <<busy, carried>>

Lose ==
  /\ client = "open"
  /\ client' = "lost" /\ sockets' = 0
  /\ UNCHANGED <<busy, carried>>

Shut ==
  /\ busy = {} /\ client # "none"
  /\ client' = "none" /\ sockets' = 0
  /\ UNCHANGED <<busy, carried>>

Begin ==
  /\ busy = {} /\ client # "none"
  /\ \E a \in Users : busy' = {a}
  /\ UNCHANGED <<client, sockets, carried>>

Perform ==
  /\ busy # {} /\ client = "open" /\ ~carried
  /\ carried' = TRUE
  /\ UNCHANGED <<client, sockets, busy>>

(* An answer, or none: a timeout, an error or a cancellation.              *)
End ==
  /\ busy # {}
  /\ busy' = {} /\ carried' = FALSE
  /\ UNCHANGED <<client, sockets>>

LinkNext == Open \/ Lose \/ Shut \/ Begin \/ Perform \/ End

LinkSpec == LinkInit /\ [][LinkNext]_linkVars
=============================================================================
