---------------------------- MODULE ModbusClient ----------------------------
(***************************************************************************)
(* modbus/client.py: one TCP connection shared by every coroutine that     *)
(* reads or writes a register.  A request that fails is repeated after a   *)
(* reconnect; connecting, closing and each single attempt take the         *)
(* client's own lock, but a request does not keep it from the check of the *)
(* connection to the attempt, nor from one attempt to the next.            *)
(* As in WritePath, `running' names the coroutine that goes on without a   *)
(* suspension, here because it took a free lock.                           *)
(***************************************************************************)
EXTENDS Integers, Sequences

CONSTANTS
  Users,         \* coroutines that read and write registers
  Reconnecters,  \* the reconnect service and the reconnect after an unplug
  Retries        \* config.retries: attempts of one request

ASSUME ClientConstants ==
  /\ Users \cap Reconnecters = {}
  /\ "shutdown" \notin Users \cup Reconnecters
  /\ Retries \in Nat \ {0}

Tasks == Users \cup Reconnecters \cup {"shutdown"}

VARIABLES
  client,    \* _client: "none", "open" or "lost" (the peer is gone)
  sockets,   \* TCP connections to the charger that are open
  lock,      \* _lock: the holder, then the waiters in FIFO order
  running,   \* the coroutine that has the event loop, or "loop"
  pc,        \* where each coroutine is suspended
  attempt,   \* the running attempt of each coroutine's request
  retrying   \* it is inside reconnect(), not inside ensure_connected()

vars == <<client, sockets, lock, running, pc, attempt, retrying>>

(* Suspended at the lock in connect, before a request, in reconnect or in  *)
(* close; at the TCP connect; at a request before and after the charger    *)
(* carried it out; in the delay of reconnect.                              *)
PCs == {"idle", "connect", "dial", "request", "sent", "landed", "drop", "sleep",
        "close"}

TypeOK ==
  /\ client \in {"none", "open", "lost"}
  /\ sockets \in Nat
  /\ lock \in Seq(Tasks)
  /\ running \in Tasks \cup {"loop"}
  /\ pc \in [Tasks -> PCs]
  /\ attempt \in [Tasks -> 0..Retries]
  /\ retrying \in [Tasks -> BOOLEAN]

-----------------------------------------------------------------------------
LoopFree     == running = "loop"
OnTurn(a)    == running \in {"loop", a}
HoldsLock(a) == lock # <<>> /\ Head(lock) = a

(* `async with self._lock', the lock being l: a free lock is taken without *)
(* suspending, otherwise a waits behind the others.                        *)
Takes(a, l) ==
  /\ lock' = Append(l, a)
  /\ running' = IF l = <<>> THEN a ELSE "loop"

(* The holder leaves, or leaves and asks for the lock again at once.       *)
Releases   == lock' = Tail(lock) /\ running' = "loop"
Requeue(a) == Takes(a, Tail(lock))

(* It suspends at the network and keeps the lock.                          *)
Holds == UNCHANGED lock /\ running' = "loop"

Goes(a, where) == pc' = [pc EXCEPT ![a] = where]

(* ensure_connected, then the lock for the attempt: without a connection   *)
(* the lock is first taken to connect.                                     *)
Attempted(c) == IF c = "open" THEN "request" ELSE "connect"

(* The end of a coroutine's call, by a return or an exception.             *)
Finish(a) ==
  /\ Goes(a, "idle")
  /\ attempt' = [attempt EXCEPT ![a] = 0]
  /\ retrying' = [retrying EXCEPT ![a] = FALSE]
  /\ Releases

(* The next attempt, after a reconnect that ended in any way (mutant: the  *)
(* attempts are not counted).                                              *)
UncountedAttempt(a) == attempt[a]
NextAttempt(a)      == attempt[a] + 1

Again(a) ==
  /\ Goes(a, Attempted(client'))
  /\ attempt' = [attempt EXCEPT ![a] = NextAttempt(a)]
  /\ retrying' = [retrying EXCEPT ![a] = FALSE]
  /\ Requeue(a)

(* connect() is over: in a retry its outcome does not matter.              *)
Reconnected(a) == IF a \in Reconnecters THEN Finish(a) ELSE Again(a)

(* The last attempt raises, another one reconnects first (mutant: one      *)
(* attempt too many).                                                      *)
LastAttemptLate(a) == attempt[a] > Retries
LastAttempt(a)     == attempt[a] >= Retries

AttemptFails(a) ==
  IF LastAttempt(a) THEN Finish(a)
  ELSE /\ Goes(a, "drop")
       /\ retrying' = [retrying EXCEPT ![a] = TRUE]
       /\ Requeue(a)
       /\ UNCHANGED attempt

-----------------------------------------------------------------------------
(* read, write and read_input_registers_block *)

StartRequest(a) ==
  /\ LoopFree /\ a \in Users /\ pc[a] = "idle"
  /\ Goes(a, Attempted(client))
  /\ attempt' = [attempt EXCEPT ![a] = 1]
  /\ Takes(a, lock)
  /\ UNCHANGED <<client, sockets, retrying>>

(* The connection found before waiting for the lock may be gone: then the  *)
(* assertion raises, which no retry catches.                               *)
Send(a) ==
  /\ pc[a] = "request" /\ OnTurn(a) /\ HoldsLock(a)
  /\ IF client = "none" THEN Finish(a)
     ELSE Goes(a, "sent") /\ Holds /\ UNCHANGED <<attempt, retrying>>
  /\ UNCHANGED <<client, sockets>>

CarryOut(a) ==
  /\ LoopFree /\ pc[a] = "sent" /\ client = "open"
  /\ Goes(a, "landed")
  /\ UNCHANGED <<client, sockets, lock, running, attempt, retrying>>

Answer(a) ==
  /\ LoopFree /\ pc[a] = "landed" /\ client = "open"
  /\ Finish(a)
  /\ UNCHANGED <<client, sockets>>

(* A timeout, an error response or a lost connection, whether the charger  *)
(* has carried the request out or not.                                     *)
RequestFails(a) ==
  /\ LoopFree /\ pc[a] \in {"sent", "landed"}
  /\ AttemptFails(a)
  /\ UNCHANGED <<client, sockets>>

-----------------------------------------------------------------------------
(* connect, reconnect and close *)

(* Whoever waited for the lock looks again (mutant: it does not).          *)
AlreadyConnectedNever == FALSE
AlreadyConnected      == client = "open"

Connect(a) ==
  /\ pc[a] = "connect" /\ OnTurn(a) /\ HoldsLock(a)
  /\ UNCHANGED <<client, sockets>>
  /\ IF ~AlreadyConnected
     THEN Goes(a, "dial") /\ Holds /\ UNCHANGED <<attempt, retrying>>
     ELSE IF retrying[a] THEN Reconnected(a)
     ELSE /\ Goes(a, "request")
          /\ Requeue(a)
          /\ UNCHANGED <<attempt, retrying>>

Dialled(a) ==
  /\ LoopFree /\ pc[a] = "dial"
  /\ client' = "open" /\ sockets' = sockets + 1
  /\ IF retrying[a] THEN Reconnected(a)
     ELSE /\ Goes(a, "request")
          /\ Requeue(a)
          /\ UNCHANGED <<attempt, retrying>>

DialFails(a) ==
  /\ LoopFree /\ pc[a] = "dial"
  /\ UNCHANGED <<client, sockets>>
  /\ IF retrying[a] THEN Reconnected(a) ELSE AttemptFails(a)

StartReconnect(a) ==
  /\ LoopFree /\ a \in Reconnecters /\ pc[a] = "idle"
  /\ Goes(a, "drop")
  /\ retrying' = [retrying EXCEPT ![a] = TRUE]
  /\ Takes(a, lock)
  /\ UNCHANGED <<client, sockets, attempt>>

(* _client = None and close() on the old one (mutant: forgotten).          *)
DisconnectLeaks == client' = "none" /\ UNCHANGED sockets
Disconnect ==
  /\ client' = "none"
  /\ sockets' = IF client = "open" THEN sockets - 1 ELSE sockets

(* Whose turn it is to close the connection (mutant: anybody's).           *)
AnyoneDrops(a) == lock # <<>>
MayDrop(a)     == HoldsLock(a)

Drop(a) ==
  /\ pc[a] = "drop" /\ OnTurn(a) /\ MayDrop(a)
  /\ Disconnect
  /\ Goes(a, "sleep")
  /\ Releases
  /\ UNCHANGED <<attempt, retrying>>

(* After reconnect_delay_s.                                                *)
Wake(a) ==
  /\ LoopFree /\ pc[a] = "sleep"
  /\ Goes(a, "connect")
  /\ Takes(a, lock)
  /\ UNCHANGED <<client, sockets, attempt, retrying>>

StartClose ==
  /\ LoopFree /\ pc["shutdown"] = "idle"
  /\ Goes("shutdown", "close")
  /\ Takes("shutdown", lock)
  /\ UNCHANGED <<client, sockets, attempt, retrying>>

Close ==
  /\ pc["shutdown"] = "close" /\ OnTurn("shutdown") /\ HoldsLock("shutdown")
  /\ Disconnect
  /\ Finish("shutdown")

-----------------------------------------------------------------------------
(* The network, and tasks cancelled at any suspension *)

ConnectionLost ==
  /\ LoopFree /\ client = "open"
  /\ client' = "lost" /\ sockets' = sockets - 1
  /\ UNCHANGED <<lock, running, pc, attempt, retrying>>

Without(i) ==
  [j \in 1..(Len(lock) - 1) |-> IF j < i THEN lock[j] ELSE lock[j + 1]]

(* A poll cancelled by a sensor event, a background task by the shutdown.  *)
Cancelled(a) ==
  /\ LoopFree /\ a # "shutdown" /\ pc[a] # "idle"
  /\ Goes(a, "idle")
  /\ attempt' = [attempt EXCEPT ![a] = 0]
  /\ retrying' = [retrying EXCEPT ![a] = FALSE]
  /\ \/ /\ pc[a] = "sleep"
        /\ UNCHANGED lock
     \/ \E i \in DOMAIN lock : lock[i] = a /\ lock' = Without(i)
  /\ UNCHANGED <<client, sockets, running>>

-----------------------------------------------------------------------------
(* async_setup has connected before anybody uses the client.               *)
Init ==
  /\ client = "open" /\ sockets = 1
  /\ lock = <<>> /\ running = "loop"
  /\ pc = [a \in Tasks |-> "idle"]
  /\ attempt = [a \in Tasks |-> 0]
  /\ retrying = [a \in Tasks |-> FALSE]

Proceeds(a) ==
  \/ Send(a) \/ CarryOut(a) \/ Answer(a) \/ RequestFails(a)
  \/ Connect(a) \/ Dialled(a) \/ DialFails(a) \/ Drop(a) \/ Wake(a)

TaskStep(a) == StartRequest(a) \/ StartReconnect(a) \/ Proceeds(a) \/ Cancelled(a)

Next == (\E a \in Tasks : TaskStep(a)) \/ StartClose \/ Close \/ ConnectionLost

Spec == Init /\ [][Next]_vars

-----------------------------------------------------------------------------
(* Properties *)

(* docs/configuration.md: the charger accepts one Modbus client at a time. *)
(* However many coroutines find the connection gone at once, reconnect and *)
(* are cancelled, the only socket ever open is that of _client.            *)
OneConnection == sockets = IF client = "open" THEN 1 ELSE 0

(* One attempt at a time, and nobody closes or replaces the connection     *)
(* under it: a reconnect for one request waits for the other's.            *)
RequestUndisturbed ==
  \A a \in Tasks : pc[a] \in {"sent", "landed"} =>
    /\ client # "none"
    /\ \A b \in Tasks \ {a} : pc[b] \notin {"dial", "sent", "landed"}

(* The client implements the link: whatever its callers repeat, reconnect, *)
(* close and cancel, the charger sees one request at a time, of a user of  *)
(* the client, and no connection made or dropped in the middle of one.     *)
Link == INSTANCE ModbusLink WITH
  busy    <- {a \in Tasks : pc[a] \in {"sent", "landed"}},
  carried <- \E a \in Tasks : pc[a] = "landed"

LinkIsKept == Link!LinkSpec

(* The `assert self._client is not None' of an attempt.                    *)
ClientPresent ==
  \A a \in Tasks : pc[a] = "request" /\ HoldsLock(a) => client # "none"

(* The network answers, refuses or times out, and asyncio serves every     *)
(* ready coroutine between the steps of the others; who succeeds is open.  *)
Fairness == (\A a \in Tasks : SF_vars(Proceeds(a))) /\ SF_vars(Close)

FairSpec == Spec /\ Fairness

(* Every request, reconnect and close ends, by a result or an exception,   *)
(* whatever fails and whoever reconnects meanwhile.                        *)
CallsEnd == \A a \in Tasks : []<>(pc[a] = "idle")
=============================================================================
