-------------------------- MODULE LifecycleProofs --------------------------
(***************************************************************************)
(* Type correctness of Lifecycle, that an orderly shutdown leaves nothing  *)
(* behind, and that a stored Off survives, for any set of control modes,   *)
(* with and without sensors.                                               *)
(***************************************************************************)
EXTENDS Lifecycle, TLAPS

(* The first poll runs while the entry starts, no refresh is put off while *)
(* a poll is in progress, and nobody calls an entry that is not loaded.    *)
(* Before the flag is restored there is nothing at all.                    *)
PollOK ==
  /\ poll = "first" => entry = "starting"
  /\ again => poll = "none"
  /\ entry \in Loading \cup {"aborting"} => ~Alive("call") /\ ~(saving.active /\ saving.loaded)
  /\ saving.active /\ saving.loaded => ~Alive("call")
  /\ entry = "restoring" => Nothing

(* The shutdown awaits only while it is under way.                         *)
AwaitOK ==
  awaiting # "no" => entry \in Closing /\ ShutdownOrder[stage] \in Tasks

(* What an undisturbed shutdown has done with stays away: a poll that is   *)
(* left runs in a phase task, which keeps polls from starting another, and *)
(* the reconnect task comes after the last of them.                        *)
Cleared(t, n) == stage > n \/ (stage = n /\ awaiting = "over") => ~Alive(t)
Quiet == ~InTheWay /\ ~again
ClearedOK ==
  /\ entry \in Closing =>
       /\ Quiet
       /\ Cleared("keepalive", 1) /\ Cleared("refresh", 2) /\ Cleared("switch", 3)
       /\ Cleared("restore", 4) /\ Cleared("reconnect", 5)
  /\ entry = "down" => Nothing /\ Quiet /\ ~connected

(* The file, the flag in memory and a save under way agree with what the   *)
(* user may expect.                                                        *)
StorageOK ==
  /\ stored \in expected
  /\ saving.active => saving.on \in expected
  /\ saving.active /\ saving.loaded => saving.on = ~paused /\ entry \notin Loading
  /\ entry \in {"connecting", "starting", "loaded"} => (~paused) \in expected

LifeInv == TypeOK /\ PollOK /\ AwaitOK /\ (~disturbed => ClearedOK) /\ StorageOK

-----------------------------------------------------------------------------
LEMMA Names ==
  /\ \A t \in PhaseTasks : t \in Tasks
  /\ Tasks = {"keepalive", "refresh", "reconnect", "switch", "restore", "call"}
  /\ Requesters = {"refresh", "call", "switch", "restore"}
  BY DEF PhaseTasks, Requesters, Tasks

LEMMA Order ==
  /\ ShutdownOrder[1] = "keepalive" /\ ShutdownOrder[2] = "refresh"
  /\ ShutdownOrder[3] = "switch" /\ ShutdownOrder[4] = "restore"
  /\ ShutdownOrder[5] = "reconnect" /\ ShutdownOrder[6] = "close"
  /\ "close" \notin Tasks /\ \A n \in 1..6 : ShutdownOrder[n] # "call"
  BY Names DEF ShutdownOrder

(* The steps of Next, one name each.                                       *)
LEMMA Steps ==
  ASSUME Next
  PROVE  \/ SetupEntry \/ ChargingStateRestored \/ Connected \/ SetupFails \/ UnloadEntry
         \/ \E t \in Tasks : CancelTask(t)
         \/ \E t \in Tasks : TaskCleared(t)
         \/ \E t \in Tasks : ShutdownRaises(t)
         \/ CloseClient \/ SensorChanges
         \/ \E t \in Requesters : RequestRefresh(t)
         \/ PollStarts \/ CooldownEnds \/ PollDecides \/ PollEnds
         \/ UserCalls \/ CallAnswered \/ SchedulePhaseTask
         \/ \E t \in PhaseTasks : PhaseBodyEnds(t)
         \/ \E t \in PhaseTasks : DeferredWrite(t)
         \/ ReconnectEnds \/ Reconnects \/ ConnectionLost
         \/ SetChargingEnabled \/ ChargingEnabledSaved \/ Restart
  BY DEF Next, ShutdownStep, PhaseStep, Requesters

(* What a cancellation makes of a task.                                    *)
LEMMA CancelledTask ==
  ASSUME NEW t \in Tasks
  PROVE  /\ Cancelled(t) \in {"none", "deferred", "requesting"}
         /\ t \notin PhaseTasks => Cancelled(t) = "none"
  BY DEF Cancelled, Finally

(* A call goes on, or ends: no other task changes.                         *)
CallSteps ==
  /\ \E step \in {"running", "requesting", "none"} : task' = [task EXCEPT !["call"] = step]
  /\ pending' \in {pending, TRUE}

LEMMA CallsGoOn == SetExternalCurrent \/ UserCalls \/ CallAnswered => CallSteps
  BY DEF SetExternalCurrent, UserCalls, CallAnswered, CallGoesOn, CallSteps

LEMMA CallTypes ==
  ASSUME TypeOK, CallSteps, task["call"] # "polling", poll' = poll
  PROVE  /\ task' \in [Tasks -> TaskStates] /\ pending' \in BOOLEAN
         /\ \A u \in Requesters : poll' = u <=> task'[u] = "polling"
         /\ \A u \in Tasks \ {"call"} : task'[u] = task[u]
<1>1. PICK step \in {"running", "requesting", "none"} : task' = [task EXCEPT !["call"] = step]
  BY DEF CallSteps
<1>2. pending' \in BOOLEAN
  BY DEF CallSteps, TypeOK
<1>3. task \in [Tasks -> TaskStates] /\ \A u \in Requesters : poll = u <=> task[u] = "polling"
  BY DEF TypeOK
<1>. QED  BY <1>1, <1>2, <1>3, Names DEF TaskStates, Live

LEMMA SaveTypes ==
  ASSUME TypeOK, PollOK, ChargingEnabledSaved
  PROVE  TypeOK'
<1>. USE DEF Live
<1>1. /\ stored' \in BOOLEAN /\ expected' \subseteq BOOLEAN
      /\ saving' \in [on : BOOLEAN, loaded : BOOLEAN, active : BOOLEAN]
  BY DEF ChargingEnabledSaved, NoSave, TypeOK
<1>2. UNCHANGED <<mode, entry, stage, awaiting, poll, again, decided, connected, paused, disturbed>>
  BY DEF ChargingEnabledSaved
<1>3. CASE UNCHANGED <<task, pending>>
  BY <1>1, <1>2, <1>3 DEF TypeOK
<1>4. CASE saving.loaded /\ CallSteps
  BY <1>1, <1>2, <1>4, CallTypes DEF ChargingEnabledSaved, PollOK, Alive, TypeOK
<1>. QED
  BY <1>3, <1>4, CallsGoOn DEF ChargingEnabledSaved, CallGoesOn, CallSteps

LEMMA TypeStep ==
  ASSUME TypeOK, PollOK, AwaitOK, Next
  PROVE  TypeOK'
<1>. USE DEF TaskStates, Live, Loading, Closing
<1>1. CASE SetupEntry
  BY <1>1, Names DEF SetupEntry, TypeOK, Nothing, PhaseTasks
<1>2. CASE ChargingStateRestored
  BY <1>2 DEF ChargingStateRestored, RestoredPause, TypeOK
<1>3. CASE Connected
  BY <1>3, Names DEF Connected, TypeOK, PhaseTasks, storage
<1>4. CASE SetupFails
  BY <1>4 DEF SetupFails, TypeOK, storage
<1>5. CASE UnloadEntry
  <2>1. again' \in BOOLEAN /\ disturbed' \in BOOLEAN
    BY <1>5, Zenon DEF UnloadEntry, TypeOK
  <2>2. entry' = "closing" /\ stage' = 1
        /\ UNCHANGED <<mode, awaiting, task, poll, decided, connected, pending, paused, stored, saving,
                       expected>>
    BY <1>5 DEF UnloadEntry, storage
  <2>. QED  BY <2>1, <2>2 DEF TypeOK
<1>6. ASSUME NEW t \in Tasks, CancelTask(t)
      PROVE  TypeOK'
  <2>1. task' = [task EXCEPT ![t] = Cancelled(t)] /\ awaiting' \in {"waiting", "over"}
        /\ poll' = (IF poll = t THEN "none" ELSE poll)
    BY <1>6 DEF CancelTask, NoPollIn
  <2>2. \A u \in Tasks : task'[u] = IF u = t THEN Cancelled(t) ELSE task[u]
    BY <2>1 DEF TypeOK
  <2>3. task' \in [Tasks -> TaskStates]
    BY <2>1, CancelledTask DEF TypeOK
  <2>4. \A u \in Requesters : poll' = u <=> task'[u] = "polling"
    BY <2>1, <2>2, CancelledTask, Names DEF TypeOK
  <2>. QED  BY <1>6, <2>1, <2>3, <2>4 DEF CancelTask, NoPollIn, TypeOK, storage
<1>7. ASSUME NEW t \in Tasks, TaskCleared(t)
      PROVE  TypeOK'
  <2>1. stage + 1 \in 1..6
    BY <1>7, Order DEF TaskCleared, TypeOK
  <2>. QED  BY <1>7, <2>1 DEF TaskCleared, TypeOK, storage
<1>8. ASSUME NEW t \in Tasks, ShutdownRaises(t)
      PROVE  TypeOK'
  BY <1>8 DEF ShutdownRaises, TypeOK, storage
<1>9. CASE CloseClient
  <2>1. entry' = "down" /\ connected' \in BOOLEAN
        /\ UNCHANGED <<mode, stage, awaiting, task, poll, again, decided, pending, paused, stored, saving,
                       expected, disturbed>>
    BY <1>9 DEF CloseClient, storage
  <2>. QED  BY <2>1 DEF TypeOK
<1>10. CASE SensorChanges
  <2>1. again' \in BOOLEAN /\ disturbed' \in BOOLEAN /\ decided' \in BOOLEAN
    BY <1>10, Zenon DEF SensorChanges, NoPollIn, TypeOK
  <2>2. poll' = (IF poll = "refresh" THEN "none" ELSE poll)
        /\ task' = [task EXCEPT !["refresh"] = "running"]
        /\ UNCHANGED <<mode, entry, stage, awaiting, connected, pending, paused, stored, saving, expected>>
    BY <1>10 DEF SensorChanges, NoPollIn, storage
  <2>. QED  BY <2>1, <2>2, Names DEF TypeOK
<1>11. ASSUME NEW t \in Requesters, RequestRefresh(t)
       PROVE  TypeOK'
  <2>1. t \in Tasks /\ t \in {"switch", "restore", "refresh", "call"}
    BY Names
  <2>2. UNCHANGED <<mode, entry, stage, decided, connected, pending, paused, stored, saving, expected>>
    BY <1>11 DEF RequestRefresh, storage
  <2>3. again' \in BOOLEAN /\ disturbed' \in BOOLEAN
    BY <1>11, Zenon DEF RequestRefresh, StartPoll, TypeOK
  <2>4. CASE poll = "none" /\ poll' = t /\ task' = [task EXCEPT ![t] = "polling"]
             /\ UNCHANGED awaiting
    BY <2>1, <2>2, <2>3, <2>4, Names DEF TypeOK
  <2>5. CASE task' = [task EXCEPT ![t] = "none"] /\ TaskOver(t) /\ UNCHANGED poll
    BY <1>11, <2>1, <2>2, <2>3, <2>5, Names DEF RequestRefresh, TaskOver, TypeOK
  <2>. QED  BY <1>11, <2>4, <2>5 DEF RequestRefresh, StartPoll
<1>12. CASE PollStarts \/ CooldownEnds
  <2>1. poll = "none" /\ poll' \in {"first", "own"} /\ again' \in BOOLEAN
        /\ UNCHANGED <<mode, entry, stage, awaiting, task, decided, connected, pending, paused, stored,
                       saving, expected, disturbed>>
    BY <1>12 DEF PollStarts, CooldownEnds, StartPoll, storage
  <2>. QED  BY <2>1, Names DEF TypeOK
<1>13. CASE PollDecides
  <2>1. \/ UNCHANGED task
        \/ \E t \in Tasks \ {"refresh"} : task' = [task EXCEPT ![t] = "running"] /\ ~Alive(t)
    BY <1>13, Names DEF PollDecides, PhaseSwitchInProgress, PhaseTasks
  <2>2. decided' \in BOOLEAN
        /\ UNCHANGED <<mode, entry, stage, awaiting, poll, again, connected, pending, paused, stored, saving,
                       expected, disturbed>>
    BY <1>13 DEF PollDecides, storage
  <2>3. ASSUME NEW t \in Tasks \ {"refresh"}, task' = [task EXCEPT ![t] = "running"], ~Alive(t)
        PROVE  TypeOK'
    <3>1. task' \in [Tasks -> TaskStates]
      BY <2>3 DEF TypeOK
    <3>2. \A u \in Requesters : poll = u <=> task'[u] = "polling"
      BY <2>3, Names DEF TypeOK, Alive
    <3>. QED  BY <2>2, <3>1, <3>2 DEF TypeOK
  <2>4. CASE UNCHANGED task
    BY <2>2, <2>4 DEF TypeOK
  <2>. QED  BY <2>1, <2>3, <2>4
<1>14. CASE PollEnds
  <2>1. task' \in [Tasks -> TaskStates]
    BY <1>14 DEF PollEnds, TypeOK
  <2>2. \A u \in Requesters : task'[u] # "polling"
    BY <1>14, Names DEF PollEnds, TypeOK
  <2>3. /\ poll' = "none" /\ decided' \in BOOLEAN /\ awaiting' \in {"no", "waiting", "over"}
        /\ entry' \in {entry, "loaded", "aborting"} /\ stage' \in {1, stage}
        /\ UNCHANGED <<mode, again, connected, pending, paused, stored, saving, expected, disturbed>>
    BY <1>14 DEF PollEnds, TaskOver, TypeOK, storage
  <2>. QED  BY <2>1, <2>2, <2>3, Names DEF TypeOK
<1>15. CASE SchedulePhaseTask
  BY <1>15, Names DEF SchedulePhaseTask, PhaseSwitchInProgress, Alive, TypeOK, PhaseTasks, storage
<1>16. CASE UserCalls \/ CallAnswered
  <2>1. /\ CallSteps /\ task["call"] # "polling"
        /\ UNCHANGED <<mode, entry, stage, awaiting, poll, again, decided, connected, paused, stored,
                       saving, expected, disturbed>>
    BY <1>16, CallsGoOn DEF UserCalls, CallAnswered, Alive, storage
  <2>. QED  BY <2>1, CallTypes DEF TypeOK
<1>17. ASSUME NEW t \in PhaseTasks, PhaseBodyEnds(t)
       PROVE  TypeOK'
  <2>1. PICK v \in {"requesting", "deferred"} : task' = [task EXCEPT ![t] = v]
    BY <1>17 DEF PhaseBodyEnds
  <2>2. task[t] = "running" /\ pending' \in BOOLEAN
        /\ UNCHANGED <<mode, entry, stage, awaiting, poll, again, decided, connected, paused, stored,
                       saving, expected, disturbed>>
    BY <1>17 DEF PhaseBodyEnds, storage
  <2>. QED  BY <2>1, <2>2, Names DEF TypeOK, PhaseTasks
<1>18. ASSUME NEW t \in PhaseTasks, DeferredWrite(t)
       PROVE  TypeOK'
  BY <1>18, Names DEF DeferredWrite, TypeOK, PhaseTasks, storage
<1>19. CASE ReconnectEnds
  BY <1>19, Names DEF ReconnectEnds, TypeOK, PhaseTasks, storage
<1>20. CASE Reconnects \/ ConnectionLost
  <2>1. connected' \in BOOLEAN
        /\ UNCHANGED <<mode, entry, stage, awaiting, task, poll, again, decided, pending, paused, stored,
                       saving, expected, disturbed>>
    BY <1>20 DEF Reconnects, ConnectionLost, storage
  <2>. QED  BY <2>1 DEF TypeOK
<1>21. CASE SetChargingEnabled
  BY <1>21 DEF SetChargingEnabled, TypeOK
<1>22. CASE ChargingEnabledSaved
  BY <1>22, SaveTypes
<1>23. CASE Restart
  <2>1. stored' \in BOOLEAN /\ saving' \in [on : BOOLEAN, loaded : BOOLEAN, active : BOOLEAN]
    BY <1>23 DEF Restart, NoSave, TypeOK
  <2>2. task' \in [Tasks -> TaskStates]
        /\ \A u \in Requesters : task'[u] # "polling" /\ poll' # u
    BY <1>23, Names DEF Restart, PhaseTasks
  <2>3. again' = FALSE /\ decided' = FALSE /\ connected' = FALSE /\ pending' = FALSE /\ disturbed' = FALSE
    BY <1>23 DEF Restart
  <2>4. stage' = 1 /\ awaiting' = "no" /\ entry' = "down" /\ poll' = "none"
        /\ UNCHANGED <<mode, paused, expected>>
    BY <1>23 DEF Restart
  <2>5. again' \in BOOLEAN /\ decided' \in BOOLEAN /\ connected' \in BOOLEAN /\ pending' \in BOOLEAN
        /\ disturbed' \in BOOLEAN
    BY <2>3
  <2>6. stage' \in 1..6
    BY <2>4
  <2>. QED  BY <2>1, <2>2, <2>4, <2>5, <2>6 DEF TypeOK
<1>. QED
  BY <1>1, <1>2, <1>3, <1>4, <1>5, <1>6, <1>7, <1>8, <1>9, <1>10, <1>11, <1>12, <1>13, <1>14,
     <1>15, <1>16, <1>17, <1>18, <1>19, <1>20, <1>21, <1>22, <1>23, Steps

-----------------------------------------------------------------------------
LEMMA StorageStep ==
  ASSUME TypeOK, PollOK, StorageOK, Next
  PROVE  StorageOK'
<1>1. CASE SetupEntry
  BY <1>1 DEF SetupEntry, StorageOK, TypeOK, Loading, Loading
<1>2. CASE ChargingStateRestored
  <2>1. paused' = ~stored /\ UNCHANGED <<stored, saving, expected>> /\ entry = "restoring"
    BY <1>2 DEF ChargingStateRestored, RestoredPause
  <2>2. (~paused') = stored
    BY <2>1 DEF TypeOK
  <2>3. ~(saving.active /\ saving.loaded)
    BY <2>1 DEF StorageOK, Loading
  <2>. QED  BY <2>1, <2>2, <2>3 DEF StorageOK
<1>3. CASE SetChargingEnabled
  BY <1>3 DEF SetChargingEnabled, StorageOK, TypeOK, Loading, Loading
<1>4. CASE ChargingEnabledSaved
  BY <1>4 DEF ChargingEnabledSaved, NoSave, StorageOK, TypeOK
<1>5. CASE Restart
  BY <1>5 DEF Restart, NoSave, StorageOK, TypeOK
<1>6. ASSUME UNCHANGED storage, entry' \in Loading => entry \in Loading,
             entry' \in {"connecting", "starting", "loaded"} =>
               entry \in {"connecting", "starting", "loaded"}
      PROVE  StorageOK'
  BY <1>6 DEF storage, StorageOK
<1>7. ASSUME ~(SetupEntry \/ ChargingStateRestored \/ SetChargingEnabled
               \/ ChargingEnabledSaved \/ Restart)
      PROVE  UNCHANGED storage
  BY <1>7, Steps DEF Connected, SetupFails, UnloadEntry, CancelTask, TaskCleared, ShutdownRaises,
    CloseClient, SensorChanges, RequestRefresh, PollStarts, CooldownEnds, PollDecides, PollEnds,
    UserCalls, CallAnswered, SchedulePhaseTask, PhaseBodyEnds, DeferredWrite, ReconnectEnds,
    Reconnects, ConnectionLost
<1>8. ASSUME ~(SetupEntry \/ ChargingStateRestored \/ SetChargingEnabled
               \/ ChargingEnabledSaved \/ Restart),
             entry' \in {"connecting", "starting", "loaded"}
      PROVE  entry \in {"connecting", "starting", "loaded"}
  BY <1>8, Steps DEF Connected, SetupFails, UnloadEntry, CancelTask, TaskCleared, ShutdownRaises,
    CloseClient, SensorChanges, RequestRefresh, PollStarts, CooldownEnds, PollDecides, PollEnds, PollOK,
    UserCalls, CallAnswered, SchedulePhaseTask, PhaseBodyEnds, DeferredWrite, ReconnectEnds,
    Reconnects, ConnectionLost
<1>9. ASSUME ~(SetupEntry \/ ChargingStateRestored \/ SetChargingEnabled
               \/ ChargingEnabledSaved \/ Restart),
             entry' \in Loading
      PROVE  entry \in Loading
  BY <1>9, Steps DEF Loading, Closing, Connected, SetupFails, UnloadEntry, CancelTask, TaskCleared, ShutdownRaises,
    CloseClient, SensorChanges, RequestRefresh, PollStarts, CooldownEnds, PollDecides, PollEnds, PollOK,
    UserCalls, CallAnswered, SchedulePhaseTask, PhaseBodyEnds, DeferredWrite, ReconnectEnds,
    Reconnects, ConnectionLost
<1>. QED  BY <1>1, <1>2, <1>3, <1>4, <1>5, <1>6, <1>7, <1>8, <1>9

-----------------------------------------------------------------------------
LEMMA AwaitStep ==
  ASSUME TypeOK, PollOK, AwaitOK, Next
  PROVE  AwaitOK'
<1>1. CASE \/ SetupEntry \/ ChargingStateRestored \/ Connected \/ SetupFails \/ UnloadEntry
           \/ Restart
  BY <1>1 DEF SetupEntry, ChargingStateRestored, Connected, SetupFails, UnloadEntry, Restart,
    AwaitOK, Loading, Closing
<1>2. ASSUME NEW t \in Tasks, CancelTask(t) \/ TaskCleared(t) \/ ShutdownRaises(t)
      PROVE  AwaitOK'
  BY <1>2 DEF CancelTask, TaskCleared, ShutdownRaises, AwaitOK
<1>3. CASE CloseClient
  BY <1>3, Order DEF CloseClient, AwaitOK
<1>4. CASE PollEnds
  BY <1>4 DEF PollEnds, TaskOver, Awaited, AwaitOK, PollOK, Loading, Closing
<1>5. ASSUME NEW t \in Requesters, RequestRefresh(t)
      PROVE  AwaitOK'
  BY <1>5 DEF RequestRefresh, TaskOver, Awaited, AwaitOK
<1>6. ASSUME UNCHANGED <<entry, stage, awaiting>>
      PROVE  AwaitOK'
  BY <1>6 DEF AwaitOK
<1>7. CASE \/ SensorChanges \/ PollStarts \/ CooldownEnds \/ PollDecides \/ SchedulePhaseTask
           \/ UserCalls \/ CallAnswered \/ ReconnectEnds \/ Reconnects \/ ConnectionLost
           \/ SetChargingEnabled \/ ChargingEnabledSaved
           \/ \E t \in PhaseTasks : PhaseBodyEnds(t) \/ DeferredWrite(t)
  BY <1>7, <1>6 DEF SensorChanges, PollStarts, CooldownEnds, PollDecides, SchedulePhaseTask,
    UserCalls, CallAnswered, ReconnectEnds, Reconnects, ConnectionLost, SetChargingEnabled,
    ChargingEnabledSaved, PhaseBodyEnds, DeferredWrite
<1>. QED  BY <1>1, <1>2, <1>3, <1>4, <1>5, <1>7, Steps

LEMMA PollKept ==
  ASSUME PollOK, entry' # "restoring", UNCHANGED saving, again' => again, poll' \in {"none", poll},
         Alive("call")' => Alive("call"), poll' = "first" => entry' = "starting",
         entry' \in Loading \cup {"aborting"} => entry \in Loading \cup {"aborting"}
  PROVE  PollOK'
  BY DEF PollOK

LEMMA PollStep ==
  ASSUME TypeOK, PollOK, Next
  PROVE  PollOK'
<1>. USE DEF Loading, Closing
<1>1. CASE SetupEntry
  BY <1>1, Names DEF SetupEntry, PollOK, Nothing, Alive, Live, TypeOK
<1>2. CASE ChargingStateRestored
  <2>1. poll = "none" /\ poll' = poll /\ entry' = "connecting" /\ ~Alive("call") /\ UNCHANGED task
    BY <1>2, Names DEF ChargingStateRestored, PollOK, Nothing
  <2>2. saving' = saving /\ entry = "restoring" /\ (again' => again)
    BY <1>2 DEF ChargingStateRestored
  <2>. QED  BY <2>1, <2>2, PollKept DEF Alive
<1>3. CASE Connected \/ SetupFails \/ UnloadEntry \/ CloseClient
  <2>1. again' => again
    BY <1>3 DEF Connected, SetupFails, UnloadEntry, CloseClient
  <2>2. UNCHANGED <<saving, poll>> /\ task'["call"] = task["call"]
    BY <1>3, Names DEF Connected, SetupFails, UnloadEntry, CloseClient, storage, TypeOK
  <2>3. /\ entry' # "restoring" /\ (poll' = "first" => entry' = "starting")
        /\ entry' \in Loading \cup {"aborting"} => entry \in Loading \cup {"aborting"}
    BY <1>3 DEF Connected, SetupFails, UnloadEntry, CloseClient, PollOK
  <2>. QED  BY <2>1, <2>2, <2>3, PollKept DEF Alive
<1>4. ASSUME NEW t \in Tasks, CancelTask(t) \/ TaskCleared(t) \/ ShutdownRaises(t) \/ SensorChanges
      PROVE  PollOK'
  <2>1. again' => again
    BY <1>4 DEF CancelTask, TaskCleared, ShutdownRaises, SensorChanges
  <2>2. saving' = saving /\ poll' \in {"none", poll} /\ task'["call"] = task["call"]
    BY <1>4, Order, Names DEF CancelTask, NoPollIn, TaskCleared, ShutdownRaises, SensorChanges, storage,
      TypeOK
  <2>3. entry \in Closing \cup {"connecting", "starting", "loaded"} /\ entry' \in {entry, "failed"}
        /\ (entry' = "failed" => entry \in Closing)
    BY <1>4 DEF CancelTask, TaskCleared, ShutdownRaises, SensorChanges
  <2>. QED  BY <2>1, <2>2, <2>3, PollKept DEF Alive, PollOK
<1>5. ASSUME NEW t \in Requesters, RequestRefresh(t)
      PROVE  PollOK'
  <2>1. t \in Tasks /\ t \in {"switch", "restore", "refresh", "call"} /\ Alive(t)
    BY <1>5, Names DEF RequestRefresh, Alive, Live
  <2>2. UNCHANGED <<entry, saving>> /\ entry # "restoring"
    BY <1>5, <2>1 DEF RequestRefresh, storage, PollOK, Nothing
  <2>3. Alive("call")' => Alive("call")
    BY <1>5, <2>1, Names DEF RequestRefresh, Alive, Live, TypeOK
  <2>4. again' => poll' = "none"
    BY <1>5 DEF RequestRefresh, StartPoll, PollOK
  <2>5. poll' # "first" \/ poll' = poll
    BY <1>5, <2>1 DEF RequestRefresh, StartPoll
  <2>. QED  BY <2>2, <2>3, <2>4, <2>5 DEF PollOK
<1>6. CASE PollDecides
  <2>1. UNCHANGED <<entry, saving, poll, again>> /\ poll # "none"
    BY <1>6 DEF PollDecides, storage
  <2>2. task'["call"] = task["call"]
    BY <1>6, Names DEF PollDecides, PhaseTasks, TypeOK
  <2>. QED  BY <2>1, <2>2 DEF PollOK, Nothing, Alive
<1>7. CASE PollEnds
  <2>1. poll' = "none" /\ UNCHANGED saving /\ entry # "restoring" /\ entry' # "restoring"
    BY <1>7 DEF PollEnds, storage, PollOK, Nothing
  <2>2. Alive("call")' => Alive("call")
    BY <1>7, Names DEF PollEnds, Alive, Live
  <2>3. entry' \in Loading \cup {"aborting"} => entry \in Loading \cup {"aborting"}
    BY <1>7 DEF PollEnds, PollOK
  <2>. QED  BY <2>1, <2>2, <2>3 DEF PollOK
<1>8. ASSUME NEW t \in PhaseTasks, PhaseBodyEnds(t) \/ DeferredWrite(t)
      PROVE  PollOK'
  <2>1. t \in Tasks /\ Alive(t) /\ t # "call"
    BY <1>8, Names DEF PhaseBodyEnds, DeferredWrite, Alive, Live, PhaseTasks
  <2>2. UNCHANGED <<entry, saving, poll, again>> /\ entry # "restoring"
    BY <1>8, <2>1 DEF PhaseBodyEnds, DeferredWrite, storage, PollOK, Nothing
  <2>3. task'["call"] = task["call"]
    BY <1>8, <2>1, Names DEF PhaseBodyEnds, DeferredWrite, TypeOK
  <2>. QED  BY <2>2, <2>3 DEF PollOK, Alive
<1>9. CASE ReconnectEnds
  <2>1. Alive("reconnect") /\ "reconnect" \in Tasks
    BY <1>9, Names DEF ReconnectEnds, Alive, Live
  <2>2. task'["call"] = task["call"]
    BY <1>9, Names DEF ReconnectEnds, TypeOK
  <2>. QED  BY <1>9, <2>1, <2>2 DEF ReconnectEnds, storage, PollOK, Nothing, Alive
<1>10. CASE Reconnects \/ ConnectionLost
  BY <1>10 DEF Reconnects, ConnectionLost, storage, PollOK, Nothing, Alive
<1>11. CASE Restart
  BY <1>11, Names DEF Restart, NoSave, PollOK, Alive, Live
<1>12. CASE UserCalls \/ SetChargingEnabled \/ SchedulePhaseTask
  <2>1. entry = "loaded" /\ UNCHANGED <<entry, poll, again>>
    BY <1>12 DEF UserCalls, SetChargingEnabled, SchedulePhaseTask
  <2>2. saving.active' /\ saving.loaded' => ~Alive("call")'
    <3>1. CASE UserCalls
      BY <3>1 DEF UserCalls, storage
    <3>2. CASE SetChargingEnabled
      BY <3>2 DEF SetChargingEnabled, Alive
    <3>3. CASE SchedulePhaseTask
      BY <3>3, Names DEF SchedulePhaseTask, storage, PollOK, Alive, TypeOK, PhaseTasks
    <3>. QED  BY <1>12, <3>1, <3>2, <3>3
  <2>. QED  BY <2>1, <2>2 DEF PollOK
<1>13. CASE CallAnswered
  <2>1. Alive("call") /\ "call" \in Tasks /\ UNCHANGED <<entry, saving, poll, again>>
    BY <1>13, Names DEF CallAnswered, Alive, Live, storage
  <2>. QED  BY <2>1 DEF PollOK, Nothing
<1>14. CASE ChargingEnabledSaved
  <2>1. saving'.active = FALSE /\ UNCHANGED <<entry, poll, again>>
    BY <1>14 DEF ChargingEnabledSaved, NoSave
  <2>2. saving.loaded \/ UNCHANGED task
    BY <1>14 DEF ChargingEnabledSaved
  <2>3. saving.active
    BY <1>14 DEF ChargingEnabledSaved
  <2>4. entry \in Loading \cup {"aborting"} => UNCHANGED task
    BY <2>2, <2>3 DEF PollOK
  <2>. QED  BY <2>1, <2>4 DEF PollOK, Nothing, Alive
<1>15. CASE PollStarts \/ CooldownEnds
  BY <1>15 DEF PollStarts, CooldownEnds, StartPoll, storage, PollOK, Nothing, Alive
<1>. QED
  BY <1>1, <1>2, <1>3, <1>4, <1>5, <1>6, <1>7, <1>8, <1>9, <1>10, <1>11, <1>12, <1>13, <1>14, <1>15,
     Steps, Names

-----------------------------------------------------------------------------
LEMMA QuietKept ==
  ASSUME Quiet, poll' = "own" => poll = "own", again' => again,
         saving' = saving \/ ~saving'.active, Alive("call")' => Alive("call")
  PROVE  Quiet'
  BY DEF Quiet, InTheWay

(* A step that lets no task come to life, nor the connection of an entry   *)
(* that is gone, leaves what is cleared cleared.                           *)
LEMMA StaysCleared ==
  ASSUME TypeOK, ClearedOK, UNCHANGED <<entry, stage>>,
         poll' = "own" => poll = "own", again' => again,
         saving' = saving \/ ~saving'.active,
         \A u \in Tasks : task'[u] \in Live => task[u] \in Live,
         awaiting' = awaiting \/ task'[ShutdownOrder[stage]] \notin Live,
         entry = "down" => poll' = "none" /\ ~connected'
  PROVE  ClearedOK'
<1>1. ASSUME NEW t \in Tasks, NEW n \in 1..5, ShutdownOrder[n] = t, Cleared(t, n)
      PROVE  Cleared(t, n)'
  BY <1>1 DEF Cleared, Alive
<1>2. Quiet => Quiet'
  BY Names, QuietKept DEF Alive
<1>3. entry = "down" => Nothing'
  BY DEF ClearedOK, Nothing, Quiet, Alive
<1>. QED  BY <1>1, <1>2, <1>3, Order, Names DEF ClearedOK

(* What the last position of an undisturbed shutdown, or an entry that is  *)
(* gone, leaves to run.                                                    *)
LEMMA NobodyLeft ==
  ASSUME TypeOK, PollOK, ClearedOK, entry \in Closing, stage = 6
  PROVE  Nothing
<1>1. \A t \in Tasks : ~Alive(t)
  BY Names DEF ClearedOK, Cleared, Quiet, InTheWay
<1>2. poll \notin Requesters
  BY <1>1, Names DEF TypeOK, Alive, Live
<1>3. poll \notin {"first", "own"}
  BY DEF PollOK, ClearedOK, Quiet, InTheWay, Closing
<1>4. ~again
  BY DEF ClearedOK, Quiet
<1>. QED  BY <1>1, <1>2, <1>3, <1>4, Names DEF Nothing, TypeOK

LEMMA PollDecidesCleared ==
  ASSUME TypeOK, PollOK, ClearedOK, PollDecides
  PROVE  ClearedOK'
<1>1. UNCHANGED <<entry, stage, awaiting, poll, connected, saving, again>> /\ poll # "none"
  BY DEF PollDecides, storage
<1>2. CASE UNCHANGED task
  <2>1. entry = "down" => poll' = "none" /\ ~connected'
    BY <1>1 DEF ClearedOK, Nothing
  <2>2. (poll' = "own" => poll = "own") /\ (again' => again)
    BY <1>1
  <2>. QED  BY <1>1, <1>2, <2>1, <2>2, StaysCleared
<1>3. CASE entry \notin Closing \cup {"down"}
  BY <1>1, <1>3 DEF ClearedOK
<1>4. CASE entry = "down"
  BY <1>1, <1>4 DEF ClearedOK, Nothing
<1>5. CASE entry \in Closing /\ ~UNCHANGED task
  <2>1. poll \in PhaseTasks \cup {"refresh"} /\ poll \in Tasks /\ Alive(poll)
    BY <1>1, <1>5, Names DEF TypeOK, PollOK, ClearedOK, Quiet, InTheWay, Closing, Alive, Live, PhaseTasks
  <2>4. Quiet'
    <3>1. task'["call"] = task["call"]
      BY <1>5, Names DEF PollDecides, TypeOK, PhaseTasks
    <3>. QED  BY <1>1, <1>5, <3>1, QuietKept DEF ClearedOK, Alive
  <2>2. CASE poll = "refresh"
    <3>1. stage < 2 \/ (stage = 2 /\ awaiting # "over")
      BY <1>5, <2>1, <2>2 DEF ClearedOK, Cleared, TypeOK
    <3>2. task'["keepalive"] = task["keepalive"]
      BY <1>5, Names DEF PollDecides, TypeOK, PhaseTasks
    <3>3. Cleared("keepalive", 1)'
      BY <1>1, <1>5, <3>2 DEF ClearedOK, Cleared, Alive
    <3>4. /\ Cleared("refresh", 2)' /\ Cleared("switch", 3)' /\ Cleared("restore", 4)'
          /\ Cleared("reconnect", 5)'
      BY <1>1, <3>1 DEF Cleared, TypeOK
    <3>. QED  BY <1>1, <1>5, <2>2, <2>4, <3>3, <3>4 DEF ClearedOK, Closing
  <2>3. CASE poll \in PhaseTasks
    <3>1. PhaseSwitchInProgress
      BY <2>1, <2>3 DEF PhaseSwitchInProgress
    <3>2. task' = [task EXCEPT !["reconnect"] = "running"]
      BY <1>5, <3>1 DEF PollDecides
    <3>3. \A u \in Tasks \ {"reconnect"} : task'[u] = task[u]
      BY <3>2 DEF TypeOK
    <3>4. stage < 4 \/ (stage = 4 /\ awaiting # "over")
      BY <1>5, <2>1, <2>3 DEF ClearedOK, Cleared, PhaseTasks, TypeOK
    <3>5. /\ Cleared("keepalive", 1)' /\ Cleared("refresh", 2)' /\ Cleared("switch", 3)'
          /\ Cleared("restore", 4)'
      BY <1>1, <1>5, <3>3, Names DEF ClearedOK, Cleared, Alive
    <3>6. Cleared("reconnect", 5)'
      BY <1>1, <3>4 DEF Cleared, TypeOK
    <3>. QED  BY <1>1, <1>5, <2>3, <2>4, <3>5, <3>6 DEF ClearedOK, Closing, PhaseTasks
  <2>. QED  BY <2>1, <2>2, <2>3
<1>. QED  BY <1>2, <1>3, <1>4, <1>5

LEMMA ClearedStep ==
  ASSUME TypeOK, PollOK, AwaitOK, ~disturbed => ClearedOK, Next, ~disturbed'
  PROVE  ClearedOK'
<1>1. ASSUME entry' \notin Closing \cup {"down"}
      PROVE  ClearedOK'
  BY <1>1 DEF ClearedOK
<1>2. CASE \/ SetupEntry \/ ChargingStateRestored \/ Connected \/ SetChargingEnabled
           \/ PollStarts \/ SchedulePhaseTask \/ UserCalls
           \/ \E t \in Tasks : ShutdownRaises(t)
  BY <1>1, <1>2 DEF SetupEntry, ChargingStateRestored, Connected, SetChargingEnabled, PollStarts,
    SchedulePhaseTask, UserCalls, ShutdownRaises, Closing
<1>3. CASE SetupFails
  <2>1. awaiting' = "no" /\ entry' = "aborting" /\ UNCHANGED <<poll, task, saving, again>>
    BY <1>3 DEF SetupFails, storage, AwaitOK, Loading, Closing
  <2>2. stage' = 1 \/ (stage' = 3 /\ Nothing)
    BY <1>3 DEF SetupFails, PollOK
  <2>3. Quiet
    BY <1>3, Zenon DEF SetupFails, Quiet
  <2>4. Quiet'
    BY <2>1, <2>3, QuietKept DEF Alive
  <2>. QED  BY <2>1, <2>2, <2>4, Names DEF ClearedOK, Cleared, Nothing, Alive
<1>4. CASE UnloadEntry
  <2>1. awaiting' = "no" /\ entry' = "closing" /\ stage' = 1 /\ UNCHANGED <<poll, task, saving>>
    BY <1>4 DEF UnloadEntry, storage, AwaitOK, Closing
  <2>2. ~InTheWay /\ ~again'
    BY <1>4, Zenon DEF UnloadEntry
  <2>3. Quiet'
    BY <2>1, <2>2 DEF Quiet, InTheWay, Alive
  <2>. QED  BY <2>1, <2>3 DEF ClearedOK, Cleared
<1>5. ASSUME NEW t \in Tasks, CancelTask(t)
      PROVE  ClearedOK'
  <2>1. ClearedOK /\ UNCHANGED <<entry, stage>> /\ entry # "down"
    BY <1>5 DEF CancelTask, Closing
  <2>2. task' = [task EXCEPT ![t] = Cancelled(t)] /\ task[t] \in Live
        /\ ShutdownOrder[stage] = t /\ awaiting = "no"
    BY <1>5 DEF CancelTask, Alive
  <2>3. awaiting' = awaiting \/ task'[t] \notin Live \/ awaiting' = "waiting"
    BY <1>5 DEF CancelTask, Live
  <2>4. \A u \in Tasks : task'[u] \in Live => task[u] \in Live
    BY <2>2 DEF TypeOK
  <2>5. poll' \in {"none", poll} /\ saving' = saving /\ (again' => again)
    BY <1>5 DEF CancelTask, NoPollIn, storage
  <2>6. CASE awaiting' = "waiting"
    <3>1. Quiet'
      BY <1>5, <2>1, <2>4, <2>5, QuietKept, Names DEF CancelTask, ClearedOK, Alive
    <3>. QED
      BY <2>1, <2>4, <2>6, <3>1, <1>5, Names DEF CancelTask, ClearedOK, Cleared, Alive
  <2>. QED  BY <2>1, <2>2, <2>3, <2>4, <2>5, <2>6, StaysCleared
<1>6. ASSUME NEW t \in Tasks, TaskCleared(t)
      PROVE  ClearedOK'
  <2>1. ClearedOK /\ entry \in Closing /\ UNCHANGED <<entry, task, poll>> /\ stage' = stage + 1
        /\ awaiting' = "no" /\ ShutdownOrder[stage] = t
    BY <1>6 DEF TaskCleared
  <2>3. saving' = saving /\ (again' => again)
    BY <1>6 DEF TaskCleared, storage
  <2>4. Quiet'
    BY <2>1, <2>3, QuietKept DEF ClearedOK, Alive
  <2>2. ~Alive(t)
    BY <1>6, <2>1, Order DEF TaskCleared, ClearedOK, Cleared, TypeOK
  <2>. QED  BY <2>1, <2>2, <2>4, Order DEF ClearedOK, Cleared, Alive, TypeOK, Closing
<1>7. CASE CloseClient
  <2>1. entry \in Closing /\ stage = 6 /\ ClearedOK
    BY <1>7, Order DEF CloseClient, TypeOK, Tasks, PhaseTasks
  <2>2. Nothing
    BY <2>1, NobodyLeft
  <2>3. UNCHANGED <<poll, task, saving>> /\ (again' => again)
    BY <1>7 DEF CloseClient, storage
  <2>4. Quiet'
    BY <2>1, <2>3, QuietKept DEF ClearedOK, Alive
  <2>. QED  BY <1>7, <2>2, <2>3, <2>4 DEF CloseClient, ClearedOK, Nothing, Alive, Closing
<1>8. CASE SensorChanges
  <2>1. ClearedOK /\ task' = [task EXCEPT !["refresh"] = "running"]
        /\ UNCHANGED <<entry, stage, awaiting, connected>>
    BY <1>8 DEF SensorChanges
  <2>2. entry \notin Closing \/ stage < 2 \/ (stage = 2 /\ awaiting # "over")
    <3>1. disturbed' = (disturbed \/ (awaiting = "over" /\ stage = 2))
      BY <1>8 DEF SensorChanges
    <3>2. ~(awaiting = "over" /\ stage = 2)
      BY <3>1, Zenon
    <3>3. entry \notin Closing \/ stage <= 2
      BY <1>8 DEF SensorChanges, Closing
    <3>. QED  BY <3>2, <3>3 DEF TypeOK
  <2>3. entry # "down" /\ (poll' = "own" => poll = "own")
    BY <1>8 DEF SensorChanges, NoPollIn, Closing
  <2>4. \A u \in Tasks \ {"refresh"} : task'[u] = task[u]
    BY <2>1 DEF TypeOK
  <2>5. Cleared("keepalive", 1)' \/ entry \notin Closing
    BY <2>1, <2>4, Names DEF ClearedOK, Cleared, Alive
  <2>6. \/ entry \notin Closing
        \/ /\ Cleared("refresh", 2)' /\ Cleared("switch", 3)' /\ Cleared("restore", 4)'
           /\ Cleared("reconnect", 5)'
    BY <2>1, <2>2 DEF Cleared, TypeOK
  <2>7. entry \in Closing => Quiet'
    <3>1. saving' = saving /\ (again' => again)
      BY <1>8 DEF SensorChanges, storage
    <3>. QED  BY <2>1, <2>3, <2>4, <3>1, QuietKept, Names DEF ClearedOK, Alive
  <2>. QED  BY <2>1, <2>3, <2>5, <2>6, <2>7 DEF ClearedOK, Closing
<1>9. ASSUME NEW t \in Requesters, RequestRefresh(t)
      PROVE  ClearedOK'
  <2>1. UNCHANGED <<entry, stage, connected, saving>> /\ t \in Tasks /\ Alive(t) /\ t # "own"
    BY <1>9, Names DEF RequestRefresh, storage, Alive, Live
  <2>2. ClearedOK
    BY <1>9, Zenon DEF RequestRefresh
  <2>3. CASE entry \notin Closing \cup {"down"}
    BY <1>1, <2>1, <2>3
  <2>4. CASE entry \in Closing \cup {"down"}
    <3>1. entry # "down" /\ entry \in Closing
      BY <2>1, <2>2, <2>4 DEF ClearedOK, Nothing
    <3>2. again' => again
      BY <1>9, <3>1, Zenon DEF RequestRefresh, StartPoll
    <3>3. \A u \in Tasks : task'[u] \in Live => task[u] \in Live
      BY <1>9, <2>1 DEF RequestRefresh, TypeOK, Alive
    <3>4. awaiting' = awaiting \/ task'[ShutdownOrder[stage]] \notin Live
      BY <1>9, <2>1 DEF RequestRefresh, TaskOver, Awaited, TypeOK, Live
    <3>5. poll' = "own" => poll = "own"
      BY <1>9, <2>1 DEF RequestRefresh, StartPoll
    <3>. QED  BY <2>1, <2>2, <3>1, <3>2, <3>3, <3>4, <3>5, StaysCleared
  <2>. QED  BY <2>3, <2>4
<1>10. CASE PollDecides
  BY <1>10, PollDecidesCleared DEF PollDecides
<1>11. CASE PollEnds /\ poll = "first"
  <2>1. awaiting' = "no" /\ poll' = "none" /\ stage' = 1 /\ entry' # "down"
    BY <1>11 DEF PollEnds, TaskOver, Awaited, PollOK, AwaitOK, Closing
  <2>2. saving' = saving /\ ~again' /\ ~(saving.active /\ saving.loaded) /\ ~Alive("call")
    BY <1>11 DEF PollEnds, storage, PollOK, Loading
  <2>3. ~Alive("call")'
    BY <1>11, <2>2, Names DEF PollEnds, Alive, Live
  <2>4. Quiet'
    BY <2>1, <2>2, <2>3 DEF Quiet, InTheWay
  <2>. QED  BY <2>1, <2>4 DEF ClearedOK, Cleared
<1>12. CASE PollEnds /\ poll # "first"
  <2>1. ClearedOK /\ UNCHANGED <<entry, stage, connected>> /\ poll' = "none" /\ poll # "none"
        /\ task' = [t \in Tasks |-> IF t = poll THEN "none" ELSE task[t]]
    BY <1>12 DEF PollEnds
  <2>6. saving' = saving /\ (again' => again)
    BY <1>12 DEF PollEnds, storage
  <2>2. awaiting' = awaiting \/ (ShutdownOrder[stage] = poll /\ awaiting = "waiting")
    BY <1>12 DEF PollEnds, TaskOver, Awaited
  <2>3. awaiting' = awaiting \/ task'[ShutdownOrder[stage]] \notin Live
    BY <2>1, <2>2 DEF AwaitOK, Live
  <2>4. entry # "down"
    BY <2>1 DEF ClearedOK, Nothing
  <2>5. \A u \in Tasks : task'[u] \in Live => task[u] \in Live
    BY <2>1 DEF Live
  <2>. QED  BY <2>1, <2>3, <2>4, <2>5, <2>6, StaysCleared
<1>13. ASSUME NEW t \in PhaseTasks, PhaseBodyEnds(t) \/ DeferredWrite(t)
       PROVE  ClearedOK'
  <2>1. ClearedOK /\ UNCHANGED <<entry, stage, awaiting, poll, connected>> /\ t \in Tasks /\ Alive(t)
    BY <1>13, Names DEF PhaseBodyEnds, DeferredWrite, Alive, Live
  <2>2. entry # "down"
    BY <2>1 DEF ClearedOK, Nothing
  <2>3. \A u \in Tasks : task'[u] \in Live => task[u] \in Live
    BY <1>13, <2>1 DEF PhaseBodyEnds, DeferredWrite, TypeOK, Alive
  <2>4. saving' = saving /\ (again' => again)
    BY <1>13 DEF PhaseBodyEnds, DeferredWrite, storage
  <2>. QED  BY <2>1, <2>2, <2>3, <2>4, StaysCleared
<1>14. CASE ReconnectEnds
  <2>1. ClearedOK /\ UNCHANGED <<entry, stage, awaiting, poll>> /\ Alive("reconnect")
    BY <1>14 DEF ReconnectEnds, Alive, Live
  <2>2. entry # "down"
    BY <2>1, Names DEF ClearedOK, Nothing
  <2>3. \A u \in Tasks : task'[u] \in Live => task[u] \in Live
    BY <1>14 DEF ReconnectEnds, TypeOK, Live
  <2>4. saving' = saving /\ (again' => again)
    BY <1>14 DEF ReconnectEnds, storage
  <2>. QED  BY <2>1, <2>2, <2>3, <2>4, StaysCleared
<1>15. CASE Reconnects
  <2>1. ClearedOK /\ UNCHANGED <<entry, stage, awaiting, poll, task, saving>> /\ (again' => again)
    BY <1>15 DEF Reconnects, storage
  <2>2. entry # "down"
    BY <1>15, <2>1, Names DEF ClearedOK, Nothing, Reconnects, Alive, Live
  <2>. QED  BY <2>1, <2>2, StaysCleared
<1>16. CASE ConnectionLost \/ (ChargingEnabledSaved /\ ~saving.loaded)
  <2>1. ClearedOK /\ UNCHANGED <<entry, stage, awaiting, poll, task>> /\ (connected' => connected)
        /\ (again' => again) /\ (saving' = saving \/ ~saving'.active)
    BY <1>16 DEF ConnectionLost, ChargingEnabledSaved, NoSave, storage
  <2>. QED  BY <2>1, StaysCleared DEF ClearedOK, Nothing
<1>18. CASE (ChargingEnabledSaved /\ saving.loaded) \/ CallAnswered \/ CooldownEnds
  <2>1. ClearedOK /\ UNCHANGED entry
    BY <1>18 DEF ChargingEnabledSaved, CallAnswered, CooldownEnds
  <2>2. ~Quiet
    BY <1>18 DEF ChargingEnabledSaved, CallAnswered, CooldownEnds, Quiet, InTheWay, Alive, Live
  <2>. QED  BY <1>1, <2>1, <2>2 DEF ClearedOK
<1>17. CASE Restart
  BY <1>17, Names DEF Restart, NoSave, ClearedOK, Quiet, InTheWay, Nothing, Alive, Live, Closing
<1>. QED
  BY <1>2, <1>3, <1>4, <1>5, <1>6, <1>7, <1>8, <1>9, <1>10, <1>11, <1>12, <1>13, <1>14, <1>15,
     <1>16, <1>17, <1>18, Steps

-----------------------------------------------------------------------------
LEMMA InitInv == Init => LifeInv
<1>. SUFFICES ASSUME Init PROVE LifeInv
  OBVIOUS
<1>1. task \in [Tasks -> TaskStates] /\ \A u \in Tasks : task[u] = "none"
  BY DEF Init, TaskStates
<1>2. Nothing
  BY <1>1 DEF Init, Nothing, Alive, Live
<1>3. saving \in [on : BOOLEAN, loaded : BOOLEAN, active : BOOLEAN]
  BY DEF Init, NoSave
<1>4. \A t \in Requesters : poll = t <=> task[t] = "polling"
  BY <1>1, Names DEF Init, PhaseTasks
<1>5. /\ again \in BOOLEAN /\ decided \in BOOLEAN /\ connected \in BOOLEAN /\ pending \in BOOLEAN
      /\ paused \in BOOLEAN /\ stored \in BOOLEAN /\ disturbed \in BOOLEAN
  BY DEF Init
<1>6. mode \in ControlModes /\ entry = "down" /\ stage = 1 /\ awaiting = "no" /\ poll = "none"
      /\ expected \subseteq BOOLEAN
  BY DEF Init
<1>7. TypeOK
  BY <1>1, <1>3, <1>4, <1>5, <1>6 DEF TypeOK
<1>8. ~again /\ ~Alive("call") /\ ~saving.active
  BY <1>2, Names DEF Init, NoSave, Nothing
<1>9. PollOK /\ AwaitOK
  BY <1>2, <1>6, <1>8 DEF PollOK, AwaitOK, Loading
<1>11. ClearedOK
  BY <1>2, <1>6, <1>8 DEF Init, ClearedOK, Quiet, InTheWay, Closing
<1>10. StorageOK
  BY <1>6 DEF Init, NoSave, StorageOK
<1>. QED  BY <1>7, <1>9, <1>10, <1>11 DEF LifeInv

LEMMA NextInv == LifeInv /\ [Next]_vars => LifeInv'
<1>1. ASSUME LifeInv, Next
      PROVE  LifeInv'
  BY <1>1, TypeStep, PollStep, AwaitStep, ClearedStep, StorageStep DEF LifeInv
<1>2. ASSUME LifeInv, UNCHANGED vars
      PROVE  LifeInv'
  <2>1. TypeOK'
    BY <1>2 DEF LifeInv, TypeOK, vars
  <2>2. PollOK' /\ AwaitOK'
    BY <1>2 DEF LifeInv, PollOK, AwaitOK, Nothing, Alive, vars
  <2>3. (~disturbed => ClearedOK)'
    BY <1>2 DEF LifeInv, ClearedOK, Cleared, Quiet, InTheWay, Nothing, Alive, vars
  <2>4. StorageOK'
    BY <1>2 DEF LifeInv, StorageOK, vars
  <2>. QED  BY <2>1, <2>2, <2>3, <2>4 DEF LifeInv
<1>. QED  BY <1>1, <1>2

LEMMA LifeInvariant == Spec => []LifeInv
  BY InitInv, NextInv, PTL DEF Spec

(* The entry, its shutdown, its tasks and its polls stay within their      *)
(* states, and a sensor refresh or phase task is polling exactly while the *)
(* poll in progress is its own.                                            *)
THEOREM LifeTypes == Spec => []TypeOK
<1>1. LifeInv => TypeOK
  BY DEF LifeInv
<1>. QED  BY <1>1, LifeInvariant, PTL

(* An orderly shutdown leaves no task, no poll and no connection behind    *)
(* (async_shutdown), unless a poll or a call that it does not await is     *)
(* under way when it begins, or in the middle of it a refresh is put off   *)
(* or a sensor changes.  What it has done with stays away: the poll that   *)
(* is left runs in a phase task, which no poll starts while there is one,  *)
(* and the reconnect task a poll may start is cancelled after them.        *)
THEOREM ShutdownSafety == Spec => []NothingOutlives
<1>1. LifeInv => NothingOutlives
  BY DEF LifeInv, ClearedOK, NothingOutlives
<1>. QED  BY <1>1, LifeInvariant, PTL

(* A load starts with the flag last confirmed to the user, or one whose    *)
(* save never returned (restore_charging_enabled,                          *)
(* async_set_charging_enabled), whatever restarts come between.            *)
THEOREM StorageSafety == Spec => []OffSurvives
<1>1. LifeInv => OffSurvives
  BY DEF LifeInv, StorageOK, OffSurvives
<1>. QED  BY <1>1, LifeInvariant, PTL
=============================================================================
