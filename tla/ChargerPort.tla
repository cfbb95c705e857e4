----------------------------- MODULE ChargerPort ----------------------------
(***************************************************************************)
(* What the write path promises, seen from the charger: requests arrive    *)
(* one at a time, each is carried out at most once, and the integration's  *)
(* record of the current limit follows the acknowledged requests only.     *)
(* WritePath implements this with a queue, a lock and many coroutines.     *)
(***************************************************************************)
EXTENDS WriteQueue

CONSTANT Permitted   \* the writes the configured owner may make

VARIABLES
  limit,        \* the charger's current-limit register
  wire,         \* the request under way, or NoItem
  landed,       \* the charger has carried it out
  lastWrite,    \* the last acknowledged current write
  unconfirmed   \* a later current write got no answer

portVars == <<limit, wire, landed, lastWrite, unconfirmed>>

IsCurrent == wire.key = "current_limit"

PortInit ==
  /\ limit \in Nat
  /\ wire = NoItem /\ landed = FALSE
  /\ lastWrite = [value |-> -1, reason |-> "none"]
  /\ unconfirmed = FALSE

Send ==
  /\ wire = NoItem
  /\ wire' \in Permitted
  /\ UNCHANGED <<limit, landed, lastWrite, unconfirmed>>

CarryOut ==
  /\ wire # NoItem /\ ~landed
  /\ landed' = TRUE
  /\ limit' = IF IsCurrent THEN wire.value ELSE limit
  /\ UNCHANGED <<wire, lastWrite, unconfirmed>>

Acknowledge ==
  /\ landed
  /\ wire' = NoItem /\ landed' = FALSE
  /\ lastWrite' = IF IsCurrent THEN [value |-> wire.value, reason |-> wire.reason]
                  ELSE lastWrite
  /\ unconfirmed' = (unconfirmed /\ ~IsCurrent)
  /\ UNCHANGED limit

(* No answer: whether the request was carried out stays unknown.           *)
GiveUp ==
  /\ wire # NoItem
  /\ wire' = NoItem /\ landed' = FALSE
  /\ unconfirmed' = (unconfirmed \/ IsCurrent)
  /\ UNCHANGED <<limit, lastWrite>>

PortNext == Send \/ CarryOut \/ Acknowledge \/ GiveUp

PortSpec == PortInit /\ [][PortNext]_portVars
=============================================================================
