--------------------------- MODULE SensorRefresh ---------------------------
(***************************************************************************)
(* When the polls run if control-input sensors are configured              *)
(* (runtime/sensors.py): every change of a sensor cancels the refresh of   *)
(* the change before it, also in the middle of the poll, starts a new      *)
(* debounce and puts off the coordinator's own next poll.  Services,       *)
(* entities and the phase task ask for polls as well.  Times are counted   *)
(* in Ticks.  Home Assistant's coordinator is outside the repository: its  *)
(* polls do not overlap, and after a poll that was asked for a cooldown    *)
(* puts off the next one that is.                                          *)
(***************************************************************************)
EXTENDS Integers

CONSTANTS
  DebounceTime,   \* SENSOR_REFRESH_DEBOUNCE_S
  PollTime,       \* the longest a poll takes, its timeouts included
  Interval,       \* update_interval of the coordinator
  Cooldown,       \* between polls that are asked for
  LongAgo         \* the largest silence the model counts

Lower(a, b) == IF a < b THEN a ELSE b
Higher(a, b) == IF a > b THEN a ELSE b

ASSUME RefreshAssumption ==
  /\ {DebounceTime, PollTime, Interval, Cooldown} \subseteq Nat \ {0}
  /\ LongAgo \in Nat /\ LongAgo > DebounceTime + PollTime + Interval + PollTime

VARIABLES
  refresh,   \* _sensor_refresh_task: done or none, in its sleep, or in its poll
  slept,     \* how long the sleep has lasted
  poll,      \* whose poll is in progress: of the refresh task, asked for, the coordinator's own
  step,      \* reading the charger, or deciding and writing after the sensors were read
  spent,     \* how long the poll has lasted
  due,       \* time left until the coordinator polls by itself, or NoTimer
  cooldown,  \* time left until a poll that is asked for starts at once
  again,     \* a poll was asked for during the cooldown, and starts when it ends
  unread,    \* a change of a sensor that no finished poll has acted on
  seen,      \* the poll in progress has read the sensors after their last change
  silence,   \* time since the last change
  hindered   \* what the refresh of the last change met

NoTimer == Interval + 1
Hindrances == {"nothing", "cooldown", "poll", "failure"}

vars == <<refresh, slept, poll, step, spent, due, cooldown, again, unread, seen, silence, hindered>>
clocks == <<due, cooldown, again>>
change == <<unread, silence, hindered>>

TypeOK ==
  /\ refresh \in {"done", "asleep", "polling"} /\ slept \in 0..DebounceTime
  /\ poll \in {"none", "refresh", "asked", "own"} /\ step \in {"reading", "writing"}
  /\ spent \in 0..PollTime /\ due \in 0..NoTimer /\ cooldown \in 0..Cooldown
  /\ again \in BOOLEAN /\ unread \in BOOLEAN /\ seen \in BOOLEAN
  /\ silence \in 0..LongAgo /\ hindered \in Hindrances
  /\ poll = "refresh" <=> refresh = "polling"

Init ==
  /\ refresh = "done" /\ slept = 0 /\ poll = "none" /\ step = "reading" /\ spent = 0
  /\ due = Interval /\ cooldown = 0 /\ again = FALSE
  /\ unread = FALSE /\ seen = FALSE /\ silence = LongAgo /\ hindered = "nothing"

-----------------------------------------------------------------------------
(* schedule_refresh: the refresh of an earlier change is cancelled, with   *)
(* the poll it may be in, and the debounce starts anew (mutants: a refresh *)
(* under way is taken to be enough; only its sleep is cancelled).          *)
KeepsRunning ==
  /\ IF refresh = "done" THEN refresh' = "asleep" /\ slept' = 0 ELSE UNCHANGED <<refresh, slept>>
  /\ poll' = poll
PollGoesOn ==
  /\ refresh' = "asleep" /\ slept' = 0
  /\ poll' = poll
ScheduleRefresh ==
  /\ refresh' = "asleep"
  /\ slept' = 0
  /\ poll' = IF poll = "refresh" THEN "none" ELSE poll

(* _handle_state_change; async_set_updated_data of the coordinator puts    *)
(* off its own poll and forgets the cooldown, which the cancelled poll of  *)
(* a refresh may start anew (newer releases of Home Assistant do).         *)
SensorChanges ==
  /\ due' = Interval /\ again' = FALSE
  /\ cooldown' \in IF poll = "refresh" THEN {0, Cooldown} ELSE {0}
  /\ ScheduleRefresh
  /\ unread' = TRUE /\ seen' = FALSE /\ silence' = 0 /\ hindered' = "nothing"
  /\ UNCHANGED <<step, spent>>

(* _async_update_data begins; the coordinator has taken its timers down.   *)
StartPoll(who) ==
  /\ poll' = who /\ step' = "reading" /\ spent' = 0 /\ seen' = FALSE
  /\ due' = NoTimer /\ cooldown' = 0 /\ again' = FALSE

(* async_request_refresh: it polls, waits for the end of the cooldown, or  *)
(* returns at once when a poll is in progress.                             *)
CanPoll == cooldown = 0 /\ poll = "none"
PutOff == cooldown > 0 /\ again' = TRUE /\ UNCHANGED <<poll, step, spent, due, cooldown, seen>>
Dropped == cooldown = 0 /\ poll # "none" /\ UNCHANGED <<poll, step, spent, seen, clocks>>

(* debounced_refresh after its sleep.                                      *)
SleepEnds ==
  /\ refresh = "asleep" /\ slept = DebounceTime
  /\ \/ CanPoll /\ StartPoll("refresh") /\ refresh' = "polling" /\ UNCHANGED hindered
     \/ PutOff /\ refresh' = "done" /\ hindered' = "cooldown"
     \/ Dropped /\ refresh' = "done" /\ hindered' = "poll"
  /\ UNCHANGED <<slept, unread, silence>>

(* A service, an entity or the phase task asks for a poll; one that is     *)
(* dropped changes nothing.                                                *)
AskForPoll ==
  /\ \/ CanPoll /\ StartPoll("asked")
     \/ PutOff
  /\ UNCHANGED <<refresh, slept, change>>

(* The cooldown ends with a poll if one was asked for in it.               *)
CooldownEnds ==
  /\ again /\ CanPoll
  /\ StartPoll("asked")
  /\ UNCHANGED <<refresh, slept, change>>

(* The coordinator's own poll.                                             *)
OwnPoll ==
  /\ due = 0 /\ poll = "none"
  /\ StartPoll("own")
  /\ UNCHANGED <<refresh, slept, change>>

(* _read_control_inputs: after the charger has answered, one turn reads    *)
(* the sensors and decides.                                                *)
ReadSensors ==
  /\ poll # "none" /\ step = "reading"
  /\ step' = "writing" /\ seen' = TRUE
  /\ UNCHANGED <<refresh, slept, poll, spent, clocks, change>>

(* When the coordinator polls by itself after a poll: an interval later,   *)
(* or at once if a sensor has meanwhile set the timer and it has run out   *)
(* (mutant: no timer after a failed poll).                                 *)
AfterSuccessOnly(ok) == IF ok THEN {Interval} ELSE {NoTimer}
NextPoll(ok) == {Interval} \cup (IF due = 0 THEN {0} ELSE {})

(* A refresh task ends with its poll; one that was asked for is followed   *)
(* by the cooldown.                                                        *)
LeavePoll(ok) ==
  /\ refresh' = IF poll = "refresh" THEN "done" ELSE refresh
  /\ poll' = "none"
  /\ cooldown' = IF poll = "own" THEN cooldown ELSE Cooldown
  /\ due' \in NextPoll(ok)

(* _async_update_data returns.                                             *)
PollEnds ==
  /\ poll # "none" /\ step = "writing"
  /\ LeavePoll(TRUE)
  /\ unread' = (unread /\ ~seen)
  /\ UNCHANGED <<slept, step, spent, again, seen, silence, hindered>>

(* UpdateFailed, at any await of the poll.                                 *)
PollFails ==
  /\ poll # "none"
  /\ LeavePoll(FALSE)
  /\ hindered' = "failure"
  /\ UNCHANGED <<slept, step, spent, again, unread, seen, silence>>

(* Time passes until something is due.                                     *)
Tick ==
  /\ ~(refresh = "asleep" /\ slept = DebounceTime)
  /\ ~(due = 0 /\ poll = "none")
  /\ ~(again /\ CanPoll)
  /\ ~(poll # "none" /\ spent = PollTime)
  /\ slept' = IF refresh = "asleep" THEN slept + 1 ELSE slept
  /\ spent' = IF poll # "none" THEN spent + 1 ELSE spent
  /\ due' = IF due \in {0, NoTimer} THEN due ELSE due - 1
  /\ cooldown' = IF cooldown = 0 THEN 0 ELSE cooldown - 1
  /\ silence' = IF silence = LongAgo THEN LongAgo ELSE silence + 1
  /\ UNCHANGED <<refresh, poll, step, again, unread, seen, hindered>>

Next ==
  \/ SensorChanges \/ SleepEnds \/ AskForPoll \/ CooldownEnds \/ OwnPoll
  \/ ReadSensors \/ PollEnds \/ PollFails \/ Tick

Spec == Init /\ [][Next]_vars

(* Time passes, the loop serves who is ready, a charger that is asked      *)
(* again and again answers.                                                *)
Fairness ==
  /\ WF_vars(Tick) /\ WF_vars(SleepEnds) /\ WF_vars(OwnPoll) /\ WF_vars(CooldownEnds)
  /\ SF_vars(ReadSensors) /\ SF_vars(PollEnds)

FairSpec == Spec /\ Fairness

-----------------------------------------------------------------------------
(* A change of a sensor that is followed by no other, and by no failed     *)
(* poll, is acted on by a poll that starts when the debounce ends          *)
(* (schedule_refresh, debounced_refresh).  If that falls into the cooldown *)
(* of a poll that was asked for, the poll starts when the cooldown ends or *)
(* the coordinator polls by itself, whichever comes first; if it meets a   *)
(* poll in progress that does not know the change, the coordinator's own   *)
(* poll after that one does.                                               *)
StartsAfter ==
  CASE hindered = "cooldown" -> DebounceTime + Lower(Cooldown, Interval)
    [] hindered = "poll"     -> Higher(DebounceTime, PollTime + Interval)
    [] OTHER                 -> DebounceTime
ReadInTime ==
  unread /\ hindered # "failure" => silence <= StartsAfter + PollTime

(* Once the sensors are quiet, their last change is acted on, whatever     *)
(* polls were cancelled, dropped or failed on the way: the coordinator's   *)
(* own polls make up for a refresh that found another poll in progress.    *)
SettledIsRead ==
  <>[][~SensorChanges]_vars => <>[]~unread

(* Not promised: a change of a sensor is followed by a poll that reads the *)
(* sensors, be it that change or a later one (schedule_refresh).           *)
ChangesAreRead ==
  unread ~> (poll # "none" /\ step = "writing")
=============================================================================
