----------------------------- MODULE Lifecycle -----------------------------
(***************************************************************************)
(* Loading, unloading and restarting the integration (__init__.py,         *)
(* async_setup and async_shutdown of coordinator.py, runtime/tasks.py,     *)
(* runtime/storage.py): which of the coordinator's tasks outlive it,       *)
(* whether its Modbus connection stays open, and whether a stored Off      *)
(* survives.  A task, a poll or a call of a user is only as detailed as    *)
(* its end requires: WritePath and PhaseActions look inside.  One call of  *)
(* a user is under way at a time, and a new load is modelled only once     *)
(* nothing of the previous one is left but the save of a flag.             *)
(***************************************************************************)
EXTENDS Integers, Sequences

CONSTANTS
  ControlModes, \* the control modes a user may configure
  Sensors       \* control-input sensors are configured

ASSUME LifecycleConstants == ControlModes \subseteq {"managed_control", "external_controller"} /\ Sensors \in BOOLEAN

VARIABLES
  mode,       \* the control mode of this load
  entry,      \* what Home Assistant and the coordinator are doing with the config entry
  stage,      \* async_shutdown: the position in ShutdownOrder
  awaiting,   \* whether it awaits the task it has cancelled at this position, or that is over
  task,       \* the tasks the coordinator owns, and the call of a user
  poll,       \* in whose call the poll in progress runs, or "none"
  again,      \* a refresh was requested while the debouncer cools down: it polls afterwards
  decided,    \* that poll has decided
  connected,  \* the Modbus client has a connection
  pending,    \* _pending_external_current_a is set
  paused,     \* _charging_paused
  stored,     \* charging_enabled in the file
  saving,     \* the flag an async_save under way writes, and whether its coordinator is loaded
  expected,   \* history: the flags a user may find after a restart
  disturbed   \* history: what is in the way of this shutdown, see InTheWay

vars == <<mode, entry, stage, awaiting, task, poll, again, decided, connected, pending, paused,
          stored, saving, expected, disturbed>>
storage == <<paused, stored, saving, expected>>

(* async_shutdown (mutant: the reconnect task before the phase tasks).     *)
ReconnectFirst == <<"keepalive", "refresh", "reconnect", "switch", "restore", "close">>
ShutdownOrder == <<"keepalive", "refresh", "switch", "restore", "reconnect", "close">>

PhaseTasks == {"switch", "restore"}
Requesters == {"refresh", "call"} \cup PhaseTasks
Tasks == {"keepalive", "reconnect"} \cup Requesters

(* A phase task is in its body, in the deferred write of its finally, or   *)
(* about to request the refresh that ends it; a call is in its requests to *)
(* the charger or about to request the refresh; "polling" is the poll      *)
(* inside one of them or a sensor refresh.  "raised": the task ended with  *)
(* an exception that nobody has retrieved.                                 *)
Live == {"running", "deferred", "requesting", "polling"}
TaskStates == {"none", "raised"} \cup Live

Loading == {"restoring", "connecting", "starting"}
Closing == {"aborting", "closing"}
NoSave == [on |-> TRUE, loaded |-> FALSE, active |-> FALSE]

TypeOK ==
  /\ mode \in ControlModes
  /\ entry \in {"down", "loaded", "failed"} \cup Loading \cup Closing
  /\ stage \in 1..6 /\ awaiting \in {"no", "waiting", "over"} /\ task \in [Tasks -> TaskStates]
  /\ poll \in {"none", "first", "own"} \cup Requesters
  /\ again \in BOOLEAN /\ decided \in BOOLEAN /\ connected \in BOOLEAN /\ pending \in BOOLEAN
  /\ paused \in BOOLEAN /\ stored \in BOOLEAN /\ expected \subseteq BOOLEAN
  /\ saving \in [on : BOOLEAN, loaded : BOOLEAN, active : BOOLEAN] /\ disturbed \in BOOLEAN
  /\ \A t \in Requesters : poll = t <=> task[t] = "polling"

Alive(t) == task[t] \in Live
PhaseSwitchInProgress == \E t \in PhaseTasks : Alive(t)
Awaited(t) == awaiting = "waiting" /\ ShutdownOrder[stage] = t
Nothing == poll = "none" /\ ~again /\ \A t \in Tasks : ~Alive(t)

(* What a shutdown neither cancels nor awaits: a poll of Home Assistant,   *)
(* and the call of a user, also while it saves the flag.                   *)
InTheWay == poll = "own" \/ Alive("call") \/ (saving.active /\ saving.loaded)

Init ==
  /\ mode \in ControlModes
  /\ entry = "down" /\ stage = 1 /\ awaiting = "no" /\ task = [t \in Tasks |-> "none"]
  /\ poll = "none" /\ again = FALSE /\ decided = FALSE /\ connected = FALSE /\ pending = FALSE
  /\ paused = FALSE /\ stored = TRUE /\ saving = NoSave /\ expected = {TRUE}
  /\ disturbed = FALSE

-----------------------------------------------------------------------------
(* async_setup_entry: a new coordinator.                                   *)
SetupEntry ==
  /\ entry = "down" /\ Nothing /\ ~connected
  /\ mode' \in ControlModes
  /\ entry' = "restoring" /\ task' = [t \in Tasks |-> "none"]
  /\ pending' = FALSE /\ disturbed' = FALSE
  /\ saving' = [saving EXCEPT !.loaded = FALSE]
  /\ UNCHANGED <<stage, awaiting, poll, again, decided, connected, paused, stored, expected>>

(* restore_charging_enabled (mutant: the flag is not restored); the sensor *)
(* listeners and REST diagnostics are set up in the same turn.             *)
StartsEnabled(flag) == FALSE
RestoredPause(flag) == ~flag

ChargingStateRestored ==
  /\ entry = "restoring"
  /\ paused' = RestoredPause(stored)
  /\ entry' = "connecting"
  /\ UNCHANGED <<mode, stage, awaiting, task, poll, again, decided, connected, pending, stored, saving,
                 expected, disturbed>>

(* client.connect() succeeds; the keepalive loop starts.                   *)
Connected ==
  /\ entry = "connecting"
  /\ entry' = "starting" /\ connected' = TRUE /\ task' = [task EXCEPT !["keepalive"] = "running"]
  /\ UNCHANGED <<mode, stage, awaiting, poll, again, decided, pending, storage, disturbed>>

(* The file cannot be read, or the charger does not answer: the entry is   *)
(* cleaned up and Home Assistant tries again later.  Before the flag is    *)
(* restored there are no listeners and no tasks, so the first positions of *)
(* the shutdown have nothing to do.                                        *)
SetupFails ==
  /\ entry \in {"restoring", "connecting"}
  /\ entry' = "aborting" /\ stage' = (IF entry = "restoring" THEN 3 ELSE 1)
  /\ disturbed' = (InTheWay \/ again)
  /\ UNCHANGED <<mode, awaiting, task, poll, again, decided, connected, pending, storage>>

(* async_unload_entry, once the platforms are gone.  With the last of      *)
(* their entities the debouncer is taken down, unless a call that goes on  *)
(* has started it again.                                                   *)
UnloadEntry ==
  /\ entry = "loaded"
  /\ entry' = "closing" /\ stage' = 1
  /\ again' \in {FALSE, again} /\ disturbed' = (InTheWay \/ again')
  /\ UNCHANGED <<mode, awaiting, task, poll, decided, connected, pending, storage>>

-----------------------------------------------------------------------------
(* A cancelled task takes its poll along (mutant: the poll goes on); a     *)
(* task that ends releases the shutdown that awaits it.                    *)
PollGoesOn(t) == UNCHANGED <<poll, decided>>
NoPollIn(t) ==
  /\ poll' = IF poll = t THEN "none" ELSE poll
  /\ decided' = (decided /\ poll # t)
TaskOver(t) == awaiting' = IF Awaited(t) THEN "over" ELSE awaiting

(* What becomes of a task that is cancelled.  A phase task still runs its  *)
(* finally; cancelled in there, it drops the rest (mutant: the keepalive   *)
(* loop takes the cancellation for an error and goes on).                  *)
Finally == IF pending THEN "deferred" ELSE "requesting"
SurvivesInLoop(t) ==
  IF t = "keepalive" THEN task[t]
  ELSE IF t \in PhaseTasks /\ task[t] = "running" THEN Finally ELSE "none"
Cancelled(t) == IF t \in PhaseTasks /\ task[t] = "running" THEN Finally ELSE "none"

(* cancel_task_attr and the sensor runtime's shutdown: cancel, and await.  *)
CancelTask(t) ==
  /\ entry \in Closing /\ awaiting = "no" /\ ShutdownOrder[stage] = t /\ Alive(t)
  /\ task' = [task EXCEPT ![t] = Cancelled(t)]
  /\ awaiting' = IF task'[t] = "none" THEN "over" ELSE "waiting"
  /\ NoPollIn(t)
  /\ pending' = (pending /\ task'[t] # "deferred")
  /\ UNCHANGED <<mode, entry, stage, again, connected, storage, disturbed>>

(* The awaited task is over, whatever a sensor or a poll may have started  *)
(* in its place, or there was none alive.                                  *)
TaskCleared(t) ==
  /\ entry \in Closing /\ ShutdownOrder[stage] = t
  /\ awaiting = "over" \/ (awaiting = "no" /\ ~Alive(t))
  /\ task[t] # "raised"
  /\ stage' = stage + 1 /\ awaiting' = "no"
  /\ UNCHANGED <<mode, entry, task, poll, again, decided, connected, pending, storage, disturbed>>

(* The await re-raises the exception the task has ended with, now or long  *)
(* ago: async_shutdown goes no further.                                    *)
ShutdownRaises(t) ==
  /\ entry \in Closing /\ ShutdownOrder[stage] = t /\ task[t] = "raised"
  /\ entry' = "failed" /\ awaiting' = "no"
  /\ UNCHANGED <<mode, stage, task, poll, again, decided, connected, pending, storage, disturbed>>

(* client.close().                                                         *)
CloseClient ==
  /\ entry \in Closing /\ ShutdownOrder[stage] = "close"
  /\ connected' = FALSE /\ entry' = "down"
  /\ UNCHANGED <<mode, stage, awaiting, task, poll, again, decided, pending, storage, disturbed>>

-----------------------------------------------------------------------------
(* The sensors' listener lives from the restored flag until the shutdown   *)
(* has done with the refresh task.  The refresh that was alive is          *)
(* cancelled, with its poll; async_set_updated_data takes the debouncer    *)
(* down.                                                                   *)
SensorChanges ==
  /\ Sensors
  /\ entry \in {"connecting", "starting", "loaded"} \/ (entry \in Closing /\ stage <= 2)
  /\ task' = [task EXCEPT !["refresh"] = "running"]
  /\ NoPollIn("refresh") /\ again' = FALSE
  /\ disturbed' = (disturbed \/ (awaiting = "over" /\ stage = 2))
  /\ UNCHANGED <<mode, entry, stage, awaiting, connected, pending, storage>>

(* A poll begins; the coordinator takes its debouncer down.                *)
StartPoll(who) == poll = "none" /\ poll' = who /\ again' = FALSE

(* async_request_refresh: a poll, nothing while one is in progress, or a   *)
(* poll after the cooldown of the coordinator's debouncer.                 *)
RequestRefresh(t) ==
  /\ task[t] = IF t = "refresh" THEN "running" ELSE "requesting"
  /\ \/ /\ StartPoll(t) /\ task' = [task EXCEPT ![t] = "polling"]
        /\ UNCHANGED <<awaiting, disturbed>>
     \/ /\ task' = [task EXCEPT ![t] = "none"] /\ TaskOver(t)
        /\ UNCHANGED <<poll, again, disturbed>>
     \/ /\ poll = "none" /\ again' = TRUE
        /\ task' = [task EXCEPT ![t] = "none"] /\ TaskOver(t)
        /\ disturbed' = (disturbed \/ entry \in Closing)
        /\ UNCHANGED poll
  /\ UNCHANGED <<mode, entry, stage, decided, connected, pending, storage>>

CooldownEnds ==
  /\ again /\ StartPoll("own")
  /\ UNCHANGED <<mode, entry, stage, awaiting, task, decided, connected, pending, storage, disturbed>>

(* The first refresh of the entry, and the coordinator's own polls while   *)
(* it is loaded.                                                           *)
PollStarts ==
  /\ entry \in {"starting", "loaded"}
  /\ StartPoll(IF entry = "starting" THEN "first" ELSE "own")
  /\ UNCHANGED <<mode, entry, stage, awaiting, task, decided, connected, pending, storage, disturbed>>

(* A poll may find the vehicle gone, which starts the reconnect task, or   *)
(* start a phase task, unless there is one.                                *)
PollDecides ==
  /\ poll # "none" /\ ~decided
  /\ decided' = TRUE
  /\ \/ UNCHANGED task
     \/ ~Alive("reconnect") /\ task' = [task EXCEPT !["reconnect"] = "running"]
     \/ /\ mode = "managed_control" /\ ~PhaseSwitchInProgress
        /\ \E t \in PhaseTasks : task' = [task EXCEPT ![t] = "running"]
  /\ UNCHANGED <<mode, entry, stage, awaiting, poll, again, connected, pending, storage, disturbed>>

(* A poll returns or raises UpdateFailed; the first decides about the      *)
(* entry.  The task it ran in is over with it.                             *)
PollEnds ==
  /\ poll # "none"
  /\ poll' = "none" /\ decided' = FALSE
  /\ task' = [t \in Tasks |-> IF t = poll THEN "none" ELSE task[t]]
  /\ TaskOver(poll)
  /\ entry' \in IF poll # "first" THEN {entry}
                ELSE IF decided THEN {"loaded", "aborting"} ELSE {"aborting"}
  /\ stage' = IF poll = "first" THEN 1 ELSE stage
  /\ UNCHANGED <<mode, again, connected, pending, storage, disturbed>>

(* async_schedule_phase_switch and its restore, by a user.                 *)
SchedulePhaseTask ==
  /\ entry = "loaded" /\ ~PhaseSwitchInProgress
  /\ \E t \in PhaseTasks : task' = [task EXCEPT ![t] = "running"]
  /\ UNCHANGED <<mode, entry, stage, awaiting, poll, again, decided, connected, pending, storage, disturbed>>

(* The rest of a call of a user: async_set_external_current_limit defers   *)
(* its current while a phase task is in progress, and writes it else; the  *)
(* reconnect asks the charger in any mode; all of them request a refresh.  *)
CallGoesOn(step) == task' = [task EXCEPT !["call"] = step]
SetExternalCurrent ==
  /\ mode = "external_controller"
  /\ IF PhaseSwitchInProgress THEN pending' = TRUE /\ CallGoesOn("requesting")
     ELSE CallGoesOn("running") /\ UNCHANGED pending

(* A service or an entity calls a loaded entry.                            *)
UserCalls ==
  /\ entry = "loaded" /\ ~Alive("call") /\ ~saving.active
  /\ \/ SetExternalCurrent
     \/ \E step \in {"running", "requesting"} : CallGoesOn(step) /\ UNCHANGED pending
  /\ UNCHANGED <<mode, entry, stage, awaiting, poll, again, decided, connected, storage, disturbed>>

(* The charger has answered the call, or has not.                          *)
CallAnswered ==
  /\ task["call"] = "running"
  /\ \E step \in {"requesting", "none"} : CallGoesOn(step)
  /\ UNCHANGED <<mode, entry, stage, awaiting, poll, again, decided, connected, pending, storage,
                 disturbed>>

(* The body is through: it has written what was deferred, or has failed    *)
(* before that; the finally takes what is left and clears it before the    *)
(* write.                                                                  *)
PhaseBodyEnds(t) ==
  /\ task[t] = "running"
  /\ \/ task' = [task EXCEPT ![t] = "requesting"]
     \/ pending /\ task' = [task EXCEPT ![t] = "deferred"]
  /\ pending' = FALSE
  /\ UNCHANGED <<mode, entry, stage, awaiting, poll, again, decided, connected, storage, disturbed>>

(* The deferred write of the finally; an exception ends the task.          *)
DeferredWrite(t) ==
  /\ task[t] = "deferred"
  /\ \E end \in {"requesting", "raised"} : task' = [task EXCEPT ![t] = end]
  /\ UNCHANGED <<mode, entry, stage, awaiting, poll, again, decided, connected, pending, storage, disturbed>>

(* _run_post_disconnect_reconnect: it has reconnected, or could not.       *)
ReconnectEnds ==
  /\ task["reconnect"] = "running"
  /\ task' = [task EXCEPT !["reconnect"] = "none"] /\ connected' \in BOOLEAN
  /\ UNCHANGED <<mode, entry, stage, awaiting, poll, again, decided, pending, storage, disturbed>>

(* Every Modbus request connects first: those of a poll, of the keepalive  *)
(* loop, of a phase task and of a call.                                    *)
Reconnects ==
  /\ ~connected
  /\ \/ poll # "none" \/ Alive("keepalive")
     \/ \E t \in PhaseTasks \cup {"call"} : task[t] \in {"running", "deferred"}
  /\ connected' = TRUE
  /\ UNCHANGED <<mode, entry, stage, awaiting, task, poll, again, decided, pending, storage, disturbed>>

ConnectionLost ==
  /\ connected
  /\ connected' = FALSE
  /\ UNCHANGED <<mode, entry, stage, awaiting, task, poll, again, decided, pending, storage, disturbed>>

-----------------------------------------------------------------------------
(* async_set_charging_enabled: the flag at once, then the file.            *)
SetChargingEnabled ==
  /\ entry = "loaded" /\ ~Alive("call") /\ ~saving.active
  /\ \E on \in BOOLEAN :
       /\ paused' = ~on
       /\ saving' = [on |-> on, loaded |-> TRUE, active |-> TRUE]
       /\ expected' = expected \cup {on}
  /\ UNCHANGED <<mode, entry, stage, awaiting, task, poll, again, decided, connected, pending,
                 stored, disturbed>>

(* save_charging_enabled returns, and the call goes on.  One that has      *)
(* outlived its coordinator promises nothing about the next one, and the   *)
(* old one's connection is not followed any further.                       *)
ChargingEnabledSaved ==
  /\ saving.active
  /\ stored' = saving.on
  /\ expected' = IF saving.loaded THEN {saving.on} ELSE expected
  /\ saving' = NoSave
  /\ \/ saving.loaded /\ SetExternalCurrent
     \/ saving.loaded /\ mode = "managed_control" /\ CallGoesOn("requesting") /\ UNCHANGED pending
     \/ ~saving.loaded /\ UNCHANGED <<task, pending>>
  /\ UNCHANGED <<mode, entry, stage, awaiting, poll, again, decided, connected, paused, disturbed>>

(* Home Assistant stops, in order or not: what is in memory is gone, and a *)
(* save under way has reached the file or not.                             *)
Restart ==
  /\ entry' = "down" /\ stage' = 1 /\ awaiting' = "no" /\ task' = [t \in Tasks |-> "none"]
  /\ poll' = "none" /\ again' = FALSE /\ decided' = FALSE /\ connected' = FALSE
  /\ pending' = FALSE
  /\ stored' \in {stored} \cup (IF saving.active THEN {saving.on} ELSE {})
  /\ saving' = NoSave /\ disturbed' = FALSE
  /\ UNCHANGED <<mode, paused, expected>>

-----------------------------------------------------------------------------
ShutdownStep ==
  \/ \E t \in Tasks : CancelTask(t) \/ TaskCleared(t) \/ ShutdownRaises(t)
  \/ CloseClient

PhaseStep(t) == PhaseBodyEnds(t) \/ DeferredWrite(t) \/ RequestRefresh(t)

Next ==
  \/ SetupEntry \/ ChargingStateRestored \/ Connected \/ SetupFails \/ UnloadEntry
  \/ ShutdownStep
  \/ SensorChanges \/ \E t \in {"refresh", "call"} : RequestRefresh(t)
  \/ PollStarts \/ CooldownEnds \/ PollDecides \/ PollEnds
  \/ UserCalls \/ CallAnswered
  \/ SchedulePhaseTask \/ \E t \in PhaseTasks : PhaseStep(t)
  \/ ReconnectEnds \/ Reconnects \/ ConnectionLost
  \/ SetChargingEnabled \/ ChargingEnabledSaved
  \/ Restart

Spec == Init /\ [][Next]_vars

(* The loop serves who is ready, requests are answered or time out.        *)
Fairness ==
  /\ WF_vars(ShutdownStep) /\ WF_vars(PollEnds)
  /\ \A t \in PhaseTasks : WF_vars(PhaseStep(t))

FairSpec == Spec /\ Fairness

-----------------------------------------------------------------------------
(* An orderly shutdown leaves nothing behind: with no poll of Home         *)
(* Assistant and no call of a user under way when it begins, no refresh    *)
(* that the debouncer puts off and no sensor change in its way, no task,   *)
(* no poll and no connection is left once client.close() is through,       *)
(* although the phase task it cancels still polls, and that poll may start *)
(* the reconnect task (async_shutdown, _run_scheduled_phase_switch).       *)
NothingOutlives ==
  entry = "down" /\ ~disturbed => Nothing /\ ~connected

(* The flag a load starts with is the one last confirmed to the user, or   *)
(* one whose call never returned; a later choice replaces it at once       *)
(* (restore_charging_enabled, async_set_charging_enabled).                 *)
OffSurvives ==
  entry = "loaded" => (~paused) \in expected

(* An unload ends: no task it awaits swallows the cancellation or waits    *)
(* for the one who awaits it (cancel_task_attr).  It ends with the client  *)
(* closed, unless a current that an external controller had deferred could *)
(* not be written and its task has ended with that exception.              *)
UnloadEnds ==
  entry = "closing" ~> (entry = "down" \/ (entry = "failed" /\ mode = "external_controller"))

(* Not promised: that after async_shutdown no task of the coordinator is   *)
(* alive, whatever poll it met.                                            *)
TasksEndWithEntry ==
  entry = "down" => \A t \in Tasks \ {"call"} : ~Alive(t)

(* Nor is the same of an unload that fails because one of the tasks it     *)
(* awaits has ended with an exception (cancel_task_attr).                  *)
TasksEndWithFailedUnload ==
  entry = "failed" => \A t \in Tasks \ {"call"} : ~Alive(t)
=============================================================================
