----------------------------- MODULE WritePath ------------------------------
(***************************************************************************)
(* The path every charger write takes: the poll cycle, the keepalive loop, *)
(* the callers of the external-controller entities and services, and the   *)
(* phase task share one write queue, one flush lock and one Modbus client. *)
(*                                                                         *)
(* The program runs on one asyncio loop.  `running' names the coroutine    *)
(* that still has code to execute before its next suspension ("loop" when  *)
(* all are suspended), so a step sequence that the code runs without an    *)
(* await is not interleaved with anything.                                 *)
(***************************************************************************)
EXTENDS WriteQueue, Sequences, FiniteSets

CONSTANTS
  ControlMode,     \* "monitoring", "managed" or "external"; fixed until reload
  PhaseSwitching,  \* "off", "manual" or "automatic"; fixed until reload
  SensorsTracked,  \* whether control sensors are configured (sensors.py)
  Callers,         \* concurrent users of the external-current controls
  Targets,         \* currents the controller may decide on
  Requests,        \* currents an external controller may ask for
  MinCurrent,      \* config.min_current_a
  PhaseRequests,   \* phase actions a user may ask for
  Modes,           \* charge modes a user may select
  DefaultMode      \* resolve_startup_mode

ASSUME ConstantsAssumption ==
  /\ ControlMode \in {"monitoring", "managed", "external"}
  /\ PhaseSwitching \in {"off", "manual", "automatic"}
  /\ SensorsTracked \in BOOLEAN
  /\ Callers \cap {"poll", "keepalive", "phase", "loop"} = {}
  /\ Targets \subseteq Nat \ {0}
  /\ Requests \subseteq Nat
  /\ MinCurrent \in Nat \ {0}
  /\ PhaseRequests \subseteq {"manual", "user_restore"}
  /\ Modes \subseteq {"off", "normal", "solar"}
  /\ DefaultMode \in {"off", "normal", "solar"}

Flushers == {"poll", "keepalive"}
Actors   == Flushers \cup {"phase"} \cup Callers

NoAmps == -1     \* a current that is None
Amps   == Nat \cup {NoAmps}

VARIABLES
  plugged,      \* charger: a vehicle is connected (cable state >= 2)
  limit,        \* charger: the current-limit register
  data,         \* coordinator.data: "none", "connected" or "empty"
  lastSeen,     \* session_runtime: the connection the last poll observed
  mode, paused, \* mode_runtime
  due,          \* the keepalive interval has elapsed
  queue,        \* write_queue
  lock,         \* flush_lock: the holder, then the waiters in FIFO order
  running,      \* the coroutine holding the event loop
  pc,           \* where each coroutine is suspended
  job,          \* the write each coroutine is making or waiting to make
  seen,         \* the running poll's wallbox.vehicle_connected
  verdict,      \* the current the poll's decision asked to write
  task,         \* the phase task: who asked, where it is, what it saw
  pendingA,     \* _pending_external_current_a
  externalA,    \* _external_current_a
  lastWrite,    \* the recorded current write: value and reason
  unconfirmed   \* a current write failed since the last recorded one

charger == <<plugged, limit>>
user    == <<mode, paused, externalA>>
session == <<data, lastSeen, seen>>
record  == <<lastWrite, unconfirmed>>
vars == <<charger, session, verdict, user, due, queue, lock, running, pc, job,
          task, pendingA, record>>

PCs == {"idle", "read", "flush", "direct", "writing", "landed", "publish",
        "saving_on", "saving_off", "queued", "fetch", "pend", "refresh"}

TypeOK ==
  /\ plugged \in BOOLEAN
  /\ limit \in Nat
  /\ data \in {"none", "connected", "empty"}
  /\ lastSeen \in {"none", "connected", "empty"}
  /\ mode \in {"off", "normal", "solar"}
  /\ paused \in BOOLEAN
  /\ due \in BOOLEAN
  /\ queue \in Queues
  /\ lock \in Seq(Actors)
  /\ running \in Actors \cup {"loop"}
  /\ pc \in [Actors -> PCs]
  /\ job \in [Actors -> QueuedWrite \cup {NoItem}]
  /\ seen \in BOOLEAN
  /\ verdict \in Amps
  /\ task \in [kind: {"manual", "automatic", "restore", "user_restore"},
               stage: {"try", "finally"}, conn: BOOLEAN]
  /\ pendingA \in Amps
  /\ externalA \in Nat
  /\ lastWrite \in [value: Amps, reason: Reasons]
  /\ unconfirmed \in BOOLEAN

-----------------------------------------------------------------------------
(* Writes *)

KeepaliveWrite == [key |-> "keepalive", value |-> 1, priority |-> KEEPALIVE,
                   reason |-> "none"]
ControlPause   == [key |-> "current_limit", value |-> 0, priority |-> CONTROL,
                   reason |-> "automatic"]
CurrentWrite(v) == [key |-> "current_limit", value |-> v, priority |-> CURRENT,
                    reason |-> "automatic"]
ExternalWrite(v) == [key |-> "current_limit", value |-> v, priority |-> CURRENT,
                     reason |-> "external_controller"]
PhaseWrite == [key |-> "phase_switch_mode", value |-> 0, priority |-> CONTROL,
               reason |-> "none"]

NoTask == [kind |-> "manual", stage |-> "try", conn |-> FALSE]

(* enqueue_keepalive_if_needed *)
WithKeepalive(q) == IF due THEN Enqueue(q, KeepaliveWrite) ELSE q

LoopFree    == running = "loop"
OnTurn(a)   == running \in {"loop", a}
OnWire(a)   == pc[a] \in {"writing", "landed"}

(* _phase_switch_in_progress: the task exists and is not done.             *)
PhaseInProgress == pc["phase"] # "idle"

(* `async with flush_lock': an uncontended lock is taken without           *)
(* suspending, a contended one suspends the caller behind the waiters.     *)
Enter(a, where) ==
  /\ lock' = Append(lock, a)
  /\ pc' = [pc EXCEPT ![a] = where]
  /\ running' = IF lock = <<>> THEN a ELSE "loop"

(* The holder of flush_lock (mutant: whoever waits goes ahead).            *)
HoldsNoLock(a) == lock # <<>>
HoldsLock(a)   == lock # <<>> /\ Head(lock) = a

(* Leaving the `async with', normally or by an exception, and leaving the  *)
(* queue of waiters when cancelled (mutant: the holder's place is given    *)
(* away instead).                                                          *)
ReleaseLock == lock' = Tail(lock)

LockWithoutHead(i) == Tail(lock)
LockWithout(i) ==
  [j \in 1..(Len(lock) - 1) |-> IF j < i THEN lock[j] ELSE lock[j + 1]]

(* _record_current_write, and the bookkeeping of flush_write_queue         *)
(* (mutants: the time of the last keepalive is not kept; a 0 is taken for  *)
(* no value and not recorded).                                             *)
RecordCurrentOnly(item) ==
  /\ due' = due
  /\ IF item.key = "current_limit"
     THEN /\ lastWrite' = [value |-> item.value, reason |-> item.reason]
          /\ unconfirmed' = FALSE
     ELSE UNCHANGED record
RecordPositive(item) ==
  /\ due' = (due /\ item.key # "keepalive")
  /\ IF item.key = "current_limit" /\ item.value > 0
     THEN /\ lastWrite' = [value |-> item.value, reason |-> item.reason]
          /\ unconfirmed' = FALSE
     ELSE UNCHANGED record
Record(item) ==
  /\ due' = (due /\ item.key # "keepalive")
  /\ IF item.key = "current_limit"
     THEN /\ lastWrite' = [value |-> item.value, reason |-> item.reason]
          /\ unconfirmed' = FALSE
     ELSE UNCHANGED record

(* A current write that ended without an answer the code could record.     *)
Unrecorded(a) ==
  unconfirmed' = (unconfirmed \/ (OnWire(a) /\ job[a].key = "current_limit"))

-----------------------------------------------------------------------------
(* The poll cycle: features/control_cycle.py *)

(* A coroutine that asyncio has made ready: it runs before any answer that *)
(* is still to come from the network.                                      *)
SomeoneReady ==
  \/ pc["phase"] = "queued" /\ task.kind \in {"manual", "automatic"}
  \/ lock # <<>> /\ pc[Head(lock)] \in {"flush", "direct"}

(* Cable state is read early; the poll goes on reading registers.          *)
PollRead ==
  /\ LoopFree /\ ~SomeoneReady /\ pc["poll"] = "idle"
  /\ seen' = plugged
  /\ pc' = [pc EXCEPT !["poll"] = "read"]
  /\ UNCHANGED <<charger, data, lastSeen, verdict, user, due, queue, lock,
                 running, job, task, pendingA, record>>

(* A failing read raises UpdateFailed; coordinator.data keeps its value.   *)
PollReadFails ==
  /\ LoopFree /\ pc["poll"] = "read"
  /\ seen' = FALSE
  /\ pc' = [pc EXCEPT !["poll"] = "idle"]
  /\ UNCHANGED <<charger, data, lastSeen, verdict, user, due, queue, lock,
                 running, job, task, pendingA, record>>

Effective(m) == IF paused THEN "off" ELSE m

(* What controller.evaluate may return: OFF always asks for 0 A while a    *)
(* vehicle is connected; otherwise a target that may or may not need a     *)
(* write, no target because a DLB, cable or EV limit is below the minimum, *)
(* or no target for another reason (in Solar: no surplus or no input).     *)
Decisions(eff, conn) ==
  IF eff = "off" THEN {[why |-> "off", value |-> 0, write |-> conn]}
  ELSE {[why |-> "target", value |-> v, write |-> w] : v \in Targets, w \in BOOLEAN}
       \cup {[why |-> y, value |-> NoAmps, write |-> FALSE] : y \in {"limited", "none"}}

(* The two branches of enqueue_decision that pause without should_write.   *)
MustPause(d, eff) == d.why = "limited" \/ (eff = "solar" /\ d.why = "none")

(* resolve_control_write_access(...).automatic_control_writes (mutants:    *)
(* the phase task, or the owner, is forgotten).                            *)
AllowedDuringPhaseTask(busy) == ControlMode = "managed"
AllowedToAnyOwner(busy)      == ~busy
AutomaticWritesAllowed(busy) == ControlMode = "managed" /\ ~busy

(* WriteRuntime.enqueue_decision on the queue q (mutants: a decision that  *)
(* has no target is queued like one that has; Off clears the queue and     *)
(* takes that for a stop).                                                 *)
EnqueueWithoutTarget(q, d, eff, allowed, conn) ==
  IF ~allowed THEN q
  ELSE IF ~conn THEN WithKeepalive(q)
  ELSE IF MustPause(d, eff) THEN Enqueue(WithKeepalive(EmptyQueue), ControlPause)
  ELSE Enqueue(q, CurrentWrite(d.value))
EnqueueUnlessOff(q, d, eff, allowed, conn) ==
  IF d.why = "off" THEN WithKeepalive(EmptyQueue)
  ELSE IF ~allowed THEN q
  ELSE IF ~conn THEN WithKeepalive(q)
  ELSE IF MustPause(d, eff) THEN Enqueue(WithKeepalive(EmptyQueue), ControlPause)
  ELSE IF d.write THEN Enqueue(q, CurrentWrite(d.value))
  ELSE q
EnqueueDecision(q, d, eff, allowed, conn) ==
  LET cleared == IF d.why = "off" THEN WithKeepalive(EmptyQueue) ELSE q
  IN  IF ~allowed THEN cleared
      ELSE IF ~conn THEN WithKeepalive(cleared)
      ELSE IF MustPause(d, eff) THEN Enqueue(WithKeepalive(EmptyQueue), ControlPause)
      ELSE IF d.write THEN Enqueue(cleared, CurrentWrite(d.value))
      ELSE cleared

(* What the decision wants written, for the properties below.              *)
Wanted(d, eff, allowed, conn) ==
  IF ~allowed \/ ~conn THEN NoAmps
  ELSE IF MustPause(d, eff) THEN 0
  ELSE IF d.write THEN d.value ELSE NoAmps

(* The phase actions a poll may schedule; PhaseActions has their policy.   *)
Schedulable(eff) ==
  IF ControlMode # "managed" \/ PhaseSwitching = "off" THEN {}
  ELSE IF eff # "solar" THEN {"restore"}
  ELSE IF PhaseSwitching = "automatic" THEN {"automatic"} ELSE {}

(* From the end of the reads to the request for flush_lock nothing awaits: *)
(* session transition, decision, phase scheduling, guards, enqueueing.     *)
(* hass.async_create_task starts the phase task at once (eager, the newer  *)
(* Home Assistant releases) or on the next turn; only an eager automatic   *)
(* switch reaches flush_lock before the poll does.                         *)
PollDecide ==
  /\ LoopFree /\ pc["poll"] = "read"
  /\ lastSeen' = IF seen THEN "connected" ELSE "empty"
  /\ seen' = FALSE
  /\ mode' = IF lastSeen = "connected" /\ ~seen THEN DefaultMode ELSE mode
  /\ LET eff == Effective(mode')
         may == IF seen /\ ~PhaseInProgress THEN Schedulable(eff) ELSE {}
     IN \E d \in Decisions(eff, seen), act \in {"none"} \cup may :
          LET allowed == AutomaticWritesAllowed(PhaseInProgress \/ act # "none")
          IN /\ queue' = EnqueueDecision(queue, d, eff, allowed, seen)
             /\ verdict' = Wanted(d, eff, allowed, seen)
             /\ task' = IF act = "none" THEN task
                        ELSE [kind |-> act, stage |-> "try", conn |-> TRUE]
             /\ \/ /\ pc' = [pc EXCEPT !["poll"] = "flush",
                               !["phase"] = IF act = "none" THEN @ ELSE "queued"]
                   /\ lock' = Append(lock, "poll")
                   /\ running' = IF lock = <<>> THEN "poll" ELSE "loop"
                   /\ UNCHANGED job
                \/ /\ act = "automatic"
                   /\ pc' = [pc EXCEPT !["poll"] = "flush", !["phase"] = "direct"]
                   /\ lock' = lock \o <<"phase", "poll">>
                   /\ running' = IF lock = <<>> THEN "phase" ELSE "loop"
                   /\ job' = [job EXCEPT !["phase"] = PhaseWrite]
  /\ UNCHANGED <<charger, data, paused, externalA, due, pendingA, record>>

(* REST diagnostics may suspend here; then the snapshot is published.      *)
PollPublish ==
  /\ LoopFree /\ pc["poll"] = "publish"
  /\ data' = lastSeen
  /\ verdict' = NoAmps
  /\ pc' = [pc EXCEPT !["poll"] = "idle"]
  /\ UNCHANGED <<charger, lastSeen, seen, user, due, queue, lock,
                 running, job, task, pendingA, record>>

(* A sensor event cancels the debounced refresh task; a poll running       *)
(* inside it is cancelled at its suspension point and leaves flush_lock.   *)
PollCancelled ==
  /\ SensorsTracked /\ LoopFree
  /\ pc["poll"] # "idle"
  /\ Unrecorded("poll")
  /\ seen' = FALSE /\ verdict' = NoAmps
  /\ pc' = [pc EXCEPT !["poll"] = "idle"]
  /\ job' = [job EXCEPT !["poll"] = NoItem]
  /\ \/ /\ pc["poll"] \in {"read", "publish"}
        /\ UNCHANGED lock
     \/ \E i \in DOMAIN lock :
          /\ lock[i] = "poll"
          /\ lock' = LockWithout(i)
  /\ UNCHANGED <<charger, data, lastSeen, user, due, queue, running, task,
                 pendingA, lastWrite>>

-----------------------------------------------------------------------------
(* The keepalive loop *)

KeepaliveDue ==
  /\ LoopFree /\ ~due
  /\ due' = TRUE
  /\ UNCHANGED <<charger, session, verdict, user, queue, lock, running, pc, job, task,
                 pendingA, record>>

KeepaliveIteration ==
  /\ LoopFree /\ pc["keepalive"] = "idle"
  /\ queue' = WithKeepalive(queue)
  /\ Enter("keepalive", "flush")
  /\ UNCHANGED <<charger, session, verdict, user, due, job, task, pendingA, record>>

-----------------------------------------------------------------------------
(* flush_write_queue, write_current_now and _write_phase_register *)

(* The flush loop takes the most urgent write, or releases the lock.       *)
FlushNext(a) ==
  /\ pc[a] = "flush" /\ OnTurn(a) /\ HoldsLock(a)
  /\ IF Pending(queue) = {}
     THEN /\ ReleaseLock
          /\ pc' = [pc EXCEPT ![a] = IF a = "poll" THEN "publish" ELSE "idle"]
          /\ UNCHANGED <<queue, job>>
     ELSE LET k == MostUrgent(queue)
          IN /\ job' = [job EXCEPT ![a] = queue[k]]
             /\ queue' = Without(queue, k)
             /\ pc' = [pc EXCEPT ![a] = "writing"]
             /\ UNCHANGED lock
  /\ running' = "loop"
  /\ UNCHANGED <<charger, session, verdict, user, due, task, pendingA, record>>

(* write_current_now and _write_phase_register clear the queue first.      *)
DirectStart(a) ==
  /\ pc[a] = "direct" /\ OnTurn(a) /\ HoldsLock(a)
  /\ queue' = EmptyQueue
  /\ pc' = [pc EXCEPT ![a] = "writing"]
  /\ running' = "loop"
  /\ UNCHANGED <<charger, session, verdict, user, due, lock, job, task, pendingA, record>>

(* The charger carries the request out; the answer is still under way.     *)
Land(a) ==
  /\ LoopFree /\ pc[a] = "writing"
  /\ limit' = IF job[a].key = "current_limit" THEN job[a].value ELSE limit
  /\ pc' = [pc EXCEPT ![a] = "landed"]
  /\ UNCHANGED <<plugged, session, verdict, user, due, queue, lock, running, job, task,
                 pendingA, record>>

FlushWriteOk(a) ==
  /\ LoopFree /\ a \in Flushers /\ pc[a] = "landed"
  /\ Record(job[a])
  /\ job' = [job EXCEPT ![a] = NoItem]
  /\ pc' = [pc EXCEPT ![a] = "flush"]
  /\ running' = a
  /\ UNCHANGED <<charger, session, verdict, user, queue, lock, task, pendingA>>

CallerWriteOk(a) ==
  /\ LoopFree /\ a \in Callers /\ pc[a] = "landed"
  /\ Record(job[a])
  /\ job' = [job EXCEPT ![a] = NoItem]
  /\ pc' = [pc EXCEPT ![a] = "idle"]
  /\ ReleaseLock
  /\ UNCHANGED <<charger, session, verdict, user, queue, running, task, pendingA>>

(* Retries are used up: the exception ends the poll (UpdateFailed), the    *)
(* keepalive iteration or the caller; the write may have landed.           *)
WriteFails(a) ==
  /\ LoopFree /\ a # "phase" /\ OnWire(a)
  /\ Unrecorded(a)
  /\ job' = [job EXCEPT ![a] = NoItem]
  /\ pc' = [pc EXCEPT ![a] = "idle"]
  /\ ReleaseLock
  /\ verdict' = IF a = "poll" THEN NoAmps ELSE verdict
  /\ UNCHANGED <<charger, session, user, due, queue, running, task, pendingA,
                 lastWrite>>

-----------------------------------------------------------------------------
(* External current: coordinator.py *)

(* _enqueue_external_current_limit: a positive request is dropped when the *)
(* latest snapshot says that no vehicle is connected.                      *)
Accepted(v) == v = 0 \/ data # "empty"

(* async_set_external_current_limit; controls exist once data does.        *)
RequestCurrent(c, v) ==
  /\ externalA' = IF v > 0 THEN v ELSE externalA
  /\ IF PhaseInProgress
     THEN /\ pendingA' = v
          /\ pc' = [pc EXCEPT ![c] = "idle"]
          /\ UNCHANGED <<lock, running, job>>
     ELSE /\ UNCHANGED pendingA
          /\ IF Accepted(v)
             THEN /\ Enter(c, "direct")
                  /\ job' = [job EXCEPT ![c] = ExternalWrite(v)]
             ELSE /\ pc' = [pc EXCEPT ![c] = "idle"]
                  /\ UNCHANGED <<lock, running, job>>

SetExternalCurrent(c) ==
  /\ LoopFree /\ ControlMode = "external" /\ data # "none" /\ pc[c] = "idle"
  /\ \E v \in Requests : RequestCurrent(c, v)
  /\ UNCHANGED <<charger, session, verdict, mode, paused, due, queue, task, record>>

(* async_set_charging_enabled under an external controller: the flag is    *)
(* set, saving it suspends, and only then is the current written.          *)
SetChargingEnabled(c) ==
  /\ LoopFree /\ ControlMode = "external" /\ data # "none" /\ pc[c] = "idle"
  /\ \E enabled \in BOOLEAN :
       /\ paused' = ~enabled
       /\ pc' = [pc EXCEPT ![c] = IF enabled THEN "saving_on" ELSE "saving_off"]
  /\ UNCHANGED <<charger, session, verdict, mode, externalA, due, queue, lock, running,
                 job, task, pendingA, record>>

ChargingEnabledSaved(c) ==
  /\ LoopFree /\ pc[c] \in {"saving_on", "saving_off"}
  /\ RequestCurrent(c, IF pc[c] = "saving_off" THEN 0
                       ELSE IF externalA > 0 THEN externalA ELSE MinCurrent)
  /\ UNCHANGED <<charger, session, verdict, mode, paused, due, queue, task, record>>

-----------------------------------------------------------------------------
(* The phase task: features/phase_actions.py and features/phase_engine.py *)

(* async_schedule_phase_switch and async_schedule_restore_default_phase_mode *)
RequestPhase(kind) ==
  /\ LoopFree /\ data # "none" /\ ~PhaseInProgress
  /\ task' = [kind |-> kind, stage |-> "try", conn |-> FALSE]
  /\ pc' = [pc EXCEPT !["phase"] = "queued"]
  /\ running' \in IF kind = "manual" THEN {"loop", "phase"} ELSE {"loop"}
  /\ UNCHANGED <<charger, session, verdict, user, due, queue, lock, job, pendingA,
                 record>>

(* build_manual_phase_switch_decision, beyond the vehicle (mutant: the     *)
(* control mode is not looked at).                                         *)
PhaseWritesAllowed == PhaseSwitching # "off" /\ ControlMode # "monitoring"

(* manager.request: write register 405, or raise and reach the finally.    *)
RequestRegister(allowed) ==
  IF allowed
  THEN /\ Enter("phase", "direct")
       /\ job' = [job EXCEPT !["phase"] = PhaseWrite]
       /\ UNCHANGED task
  ELSE /\ pc' = [pc EXCEPT !["phase"] = "pend"]
       /\ task' = [task EXCEPT !.stage = "finally"]
       /\ running' = "phase"
       /\ UNCHANGED <<lock, job>>

(* A switch is validated against the snapshot, an automatic one against    *)
(* the wallbox of the poll that scheduled it; neither reads again.         *)
SwitchStart ==
  /\ OnTurn("phase") /\ pc["phase"] = "queued" /\ task.kind \in {"manual", "automatic"}
  /\ RequestRegister(/\ PhaseWritesAllowed
                     /\ task.kind = "automatic" \/ data = "connected")
  /\ UNCHANGED <<charger, session, verdict, user, due, queue, pendingA, record>>

(* A restore reads the charger first and falls back on the old wallbox.    *)
RestoreRead ==
  /\ LoopFree /\ pc["phase"] = "queued" /\ task.kind \in {"restore", "user_restore"}
  /\ \E ok \in BOOLEAN :
       task' = [task EXCEPT !.conn =
                  IF ok THEN plugged ELSE @ \/ data = "connected"]
  /\ pc' = [pc EXCEPT !["phase"] = "fetch"]
  /\ UNCHANGED <<charger, session, verdict, user, due, queue, lock, running, job,
                 pendingA, record>>

(* No vehicle, or already in the target phase: nothing is written.         *)
RestoreDecide ==
  /\ LoopFree /\ pc["phase"] = "fetch"
  /\ \E needed \in BOOLEAN :
       RequestRegister(task.conn /\ needed /\ PhaseWritesAllowed)
  /\ UNCHANGED <<charger, session, verdict, user, due, queue, pendingA, record>>

(* The end of one _flush_pending_external_current_limit: the one in the    *)
(* try is followed by the one in the finally, then by the refresh.         *)
AfterPending ==
  IF task.stage = "try"
  THEN /\ pc' = [pc EXCEPT !["phase"] = "pend"]
       /\ task' = [task EXCEPT !.stage = "finally"]
       /\ running' = "phase"
  ELSE /\ pc' = [pc EXCEPT !["phase"] = "refresh"]
       /\ running' = "loop"
       /\ UNCHANGED task

FlushPending ==
  /\ running = "phase" /\ pc["phase"] = "pend"
  /\ pendingA' = NoAmps
  /\ IF pendingA # NoAmps /\ Accepted(pendingA)
     THEN /\ Enter("phase", "direct")
          /\ job' = [job EXCEPT !["phase"] = ExternalWrite(pendingA)]
          /\ UNCHANGED task
     ELSE /\ AfterPending
          /\ UNCHANGED <<lock, job>>
  /\ UNCHANGED <<charger, session, verdict, user, due, queue, record>>

(* Register 405 is written: the lock is released, the pending request of   *)
(* the try is next.                                                        *)
PhaseRegisterOk ==
  /\ LoopFree /\ pc["phase"] = "landed" /\ job["phase"].key = "phase_switch_mode"
  /\ job' = [job EXCEPT !["phase"] = NoItem]
  /\ ReleaseLock
  /\ pc' = [pc EXCEPT !["phase"] = "pend"]
  /\ running' = "phase"
  /\ UNCHANGED <<charger, session, verdict, user, due, queue, task, pendingA, record>>

PhaseCurrentOk ==
  /\ LoopFree /\ pc["phase"] = "landed" /\ job["phase"].key = "current_limit"
  /\ Record(job["phase"])
  /\ job' = [job EXCEPT !["phase"] = NoItem]
  /\ ReleaseLock
  /\ AfterPending
  /\ UNCHANGED <<charger, session, verdict, user, queue, pendingA>>

(* A failure in the try is logged and leads to the finally; one in the     *)
(* finally ends the task.                                                  *)
PhaseWriteFails ==
  /\ LoopFree /\ OnWire("phase")
  /\ Unrecorded("phase")
  /\ job' = [job EXCEPT !["phase"] = NoItem]
  /\ ReleaseLock
  /\ IF task.stage = "try"
     THEN AfterPending
     ELSE /\ pc' = [pc EXCEPT !["phase"] = "idle"]
          /\ task' = NoTask
          /\ UNCHANGED running
  /\ UNCHANGED <<charger, session, verdict, user, due, queue, pendingA, lastWrite>>

(* async_request_refresh returns, after a poll or at once, and the task is *)
(* done.                                                                   *)
PhaseTaskEnds ==
  /\ LoopFree /\ pc["phase"] = "refresh"
  /\ pc' = [pc EXCEPT !["phase"] = "idle"]
  /\ task' = NoTask
  /\ UNCHANGED <<charger, session, verdict, user, due, queue, lock, running,
                 job, pendingA, record>>

-----------------------------------------------------------------------------
(* The user and the vehicle *)

PlugOrUnplug ==
  /\ LoopFree
  /\ plugged' = ~plugged
  /\ UNCHANGED <<limit, session, verdict, user, due, queue, lock, running, pc, job, task,
                 pendingA, record>>

SetMode ==
  /\ LoopFree /\ data # "none"
  /\ \E m \in Modes \ {mode} : mode' = m
  /\ UNCHANGED <<charger, session, verdict, paused, externalA, due, queue, lock, running,
                 pc, job, task, pendingA, record>>

(* Charging Enabled when no external controller owns the current.          *)
PauseOrResume ==
  /\ LoopFree /\ data # "none" /\ ControlMode # "external"
  /\ paused' = ~paused
  /\ UNCHANGED <<charger, session, verdict, mode, externalA, due, queue, lock, running,
                 pc, job, task, pendingA, record>>

-----------------------------------------------------------------------------
Init ==
  /\ plugged \in BOOLEAN
  /\ limit \in {0} \cup Targets
  /\ data = "none" /\ lastSeen = "none"
  /\ mode = DefaultMode /\ paused = FALSE
  /\ due = FALSE
  /\ queue = EmptyQueue
  /\ lock = <<>> /\ running = "loop"
  /\ pc = [a \in Actors |-> "idle"]
  /\ job = [a \in Actors |-> NoItem]
  /\ seen = FALSE /\ verdict = NoAmps
  /\ task = NoTask
  /\ pendingA = NoAmps /\ externalA = 0
  /\ lastWrite = [value |-> NoAmps, reason |-> "none"]
  /\ unconfirmed = FALSE

PollStep  == PollRead \/ PollReadFails \/ PollDecide \/ PollPublish \/ PollCancelled
PhaseTaskStep ==
  \/ SwitchStart \/ RestoreRead \/ RestoreDecide \/ FlushPending
  \/ PhaseRegisterOk \/ PhaseCurrentOk \/ PhaseWriteFails \/ PhaseTaskEnds
PhaseStep == (\E kind \in PhaseRequests : RequestPhase(kind)) \/ PhaseTaskStep
CallerStep(c) == SetExternalCurrent(c) \/ SetChargingEnabled(c) \/ ChargingEnabledSaved(c)
WriteStep(a) ==
  FlushNext(a) \/ DirectStart(a) \/ Land(a) \/ FlushWriteOk(a) \/ CallerWriteOk(a)
  \/ WriteFails(a)
UserStep == PlugOrUnplug \/ SetMode \/ PauseOrResume

Next ==
  \/ PollStep
  \/ KeepaliveDue \/ KeepaliveIteration
  \/ PhaseStep
  \/ \E c \in Callers : CallerStep(c)
  \/ \E a \in Actors : WriteStep(a)
  \/ UserStep

Spec == Init /\ [][Next]_vars

(* The write path as the charger sees it: one request at a time, each of   *)
(* them one the configured owner may make.                                 *)
MayBeSent(item) ==
  /\ item.key \in Registers
  /\ item.reason = "automatic" => ControlMode = "managed"
  /\ item.reason = "external_controller" => ControlMode = "external"
  /\ item.key = "phase_switch_mode" =>
       ControlMode # "monitoring" /\ PhaseSwitching # "off"

OnTheWire == {a \in Actors : OnWire(a)}

Port == INSTANCE ChargerPort WITH
  Permitted <- {item \in QueuedWrite : MayBeSent(item)},
  wire      <- IF OnTheWire = {} THEN NoItem ELSE job[CHOOSE a \in OnTheWire : TRUE],
  landed    <- \E a \in OnTheWire : pc[a] = "landed"
-----------------------------------------------------------------------------
(* Properties *)

(* flush_lock serialises the Modbus writes: who is in the lock is exactly  *)
(* who is inside an `async with flush_lock', nobody is in it twice, and    *)
(* only the holder has a request on the wire.                              *)
LockDiscipline ==
  /\ \A i, j \in DOMAIN lock : lock[i] = lock[j] => i = j
  /\ \A a \in Actors :
       (\E i \in DOMAIN lock : lock[i] = a)
         <=> pc[a] \in {"flush", "direct", "writing", "landed"}
  /\ \A a \in Actors : OnWire(a) => Head(lock) = a

(* The diagnostics and the write decider trust last_control_write_value_a: *)
(* unless a write failed since, it is what the charger's register holds.   *)
(* It takes two writers whose requests and records interleave to break it. *)
RegisterMatchesRecord ==
  \/ unconfirmed
  \/ lastWrite.value = NoAmps
  \/ \E a \in Actors : pc[a] = "landed" /\ job[a].key = "current_limit"
  \/ limit = lastWrite.value

(* One owner for every write: the controller's targets only in managed     *)
(* mode, an external controller's only in external mode, and none of them  *)
(* nor register 405 in monitoring mode.                                    *)
OwnerOnly ==
  \A item \in ({job[a] : a \in Actors} \cup {queue[k] : k \in Keys}) \ {NoItem} :
    MayBeSent(item)

(* The write path implements the port: whatever the pollers, callers and   *)
(* tasks do, the charger is asked one thing at a time, by its owner, and   *)
(* the record changes only with an acknowledged current write.             *)
PortIsSerial == Port!PortSpec

(* While the phase task has register 405 (or its deferred current) on the  *)
(* wire, no current computed for the previous phase is left in the queue,  *)
(* where the next flush would send it after the phase change.              *)
PhaseWriteLeavesNoTarget ==
  OnWire("phase") => queue["current_limit"] = NoItem

(* What a poll's decision counts as carried out by: the current it asked   *)
(* for, or, when sensor events cancel polls, the pause of an earlier poll  *)
(* that was cancelled before its flush and that a target cannot replace.   *)
Answers(v) == v = verdict \/ (SensorsTracked /\ v = 0)

(* A poll that returns without an error has carried out what it decided:   *)
(* the last recorded current answers its decision, whoever flushed it, and *)
(* it is what the charger's register holds, unless a current write failed  *)
(* on the way.                                                             *)
DecisionLands ==
  pc["poll"] = "publish" /\ verdict # NoAmps =>
    unconfirmed \/ (Answers(lastWrite.value) /\ limit = lastWrite.value)

(* docs/behavior_contract.md, "When no vehicle is connected: automatic     *)
(* control does not write current targets": no automatic current goes on   *)
(* the wire after a poll has seen the vehicle gone.                        *)
NoTargetWithoutVehicle ==
  [][\A a \in Actors :
       (OnWire(a)' /\ ~OnWire(a) /\ job'[a].reason = "automatic")
         => lastSeen # "empty"]_vars

(* docs/behavior_contract.md: "external current requests are deferred only *)
(* while the phase-register write task is running".                        *)
DeferredOnlyDuringTask == pendingA # NoAmps => PhaseInProgress

(* What the program runs on: every coroutine that can take a step does so  *)
(* eventually (asyncio serves ready coroutines in turn, a Modbus request   *)
(* is answered or times out), and neither the reads of a poll nor the      *)
(* writes of one register fail for ever.  The user, the vehicle and the    *)
(* external controller promise nothing.                                    *)
Proceeds(a) ==
  CASE a = "poll"      -> PollStep \/ WriteStep("poll")
    [] a = "keepalive" -> KeepaliveIteration \/ WriteStep("keepalive")
    [] a = "phase"     -> PhaseTaskStep \/ WriteStep("phase")
    [] OTHER           -> ChargingEnabledSaved(a) \/ WriteStep(a)

Arrives(key)      == \E a \in Flushers : Land(a) /\ job[a].key = key
Acknowledged(key) == \E a \in Flushers : FlushWriteOk(a) /\ job[a].key = key

Fairness ==
  /\ \A a \in Actors : SF_vars(Proceeds(a))
  /\ SF_vars(PollDecide)
  /\ \A key \in Keys : SF_vars(Arrives(key)) /\ SF_vars(Acknowledged(key))

FairSpec == Spec /\ Fairness

(* Off (or a pause) that stays selected ends at 0 A and stays there, even  *)
(* though older positive targets may be queued, on the wire or held by the *)
(* keepalive loop when it is selected.                                     *)
OffHolds ==
  <>[](Effective(mode) = "off" /\ plugged /\ ~PhaseInProgress) => <>[](limit = 0)

(* A keepalive that is due is eventually acknowledged by the charger,      *)
(* whatever clears the queue in between.                                   *)
KeepaliveFlows == []<>~due
=============================================================================
