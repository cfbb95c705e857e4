------------------------- MODULE SensorRefreshProofs -------------------------
(***************************************************************************)
(* Proofs about SensorRefresh: its types, and that a change of a sensor is *)
(* acted on in time, whatever its refresh meets.                           *)
(***************************************************************************)
EXTENDS SensorRefresh, TLAPS

LEMMA Times ==
  /\ DebounceTime \in Nat /\ DebounceTime > 0 /\ PollTime \in Nat /\ PollTime > 0
  /\ Interval \in Nat /\ Interval > 0 /\ Cooldown \in Nat /\ Cooldown > 0
  /\ LongAgo \in Nat /\ LongAgo > DebounceTime + PollTime + Interval + PollTime
BY RefreshAssumption

(* The Boolean-valued variables have a step of their own: the SMT solver   *)
(* does not do them together with the numbers.                             *)
Flags == unread \in BOOLEAN /\ seen \in BOOLEAN /\ again \in BOOLEAN
Numbers ==
  /\ refresh \in {"done", "asleep", "polling"} /\ slept \in 0..DebounceTime
  /\ poll \in {"none", "refresh", "asked", "own"} /\ step \in {"reading", "writing"}
  /\ spent \in 0..PollTime /\ due \in 0..NoTimer /\ cooldown \in 0..Cooldown
  /\ silence \in 0..LongAgo /\ hindered \in Hindrances
  /\ poll = "refresh" <=> refresh = "polling"

LEMMA TypeParts == TypeOK <=> Flags /\ Numbers
BY DEF TypeOK, Flags, Numbers

LEMMA TypesAtFirst == Init => TypeOK
<1> SUFFICES ASSUME Init PROVE Flags /\ Numbers
  BY TypeParts
<1>1. Flags
  BY Zenon DEF Init, Flags
<1> QED
  BY <1>1, Times DEF Init, Numbers, NoTimer, Hindrances

LEMMA FlagsKept == Flags /\ [Next]_vars => Flags'
<1> SUFFICES ASSUME Flags, [Next]_vars PROVE Flags'
  OBVIOUS
<1>1. CASE SensorChanges
  BY <1>1, Zenon DEF SensorChanges, Flags
<1>2. CASE SleepEnds
  BY <1>2, Zenon DEF SleepEnds, StartPoll, PutOff, Dropped, clocks, Flags
<1>3. CASE AskForPoll
  BY <1>3, Zenon DEF AskForPoll, StartPoll, PutOff, change, Flags
<1>4. CASE CooldownEnds \/ OwnPoll
  BY <1>4, Zenon DEF CooldownEnds, OwnPoll, StartPoll, change, Flags
<1>5. CASE ReadSensors
  BY <1>5, Zenon DEF ReadSensors, clocks, change, Flags
<1>6. CASE PollEnds
  <2>1. unread' \in BOOLEAN
    BY <1>6, Zenon DEF PollEnds
  <2> QED
    BY <1>6, <2>1, Zenon DEF PollEnds, Flags
<1>7. CASE PollFails \/ Tick
  BY <1>7, Zenon DEF PollFails, Tick, Flags
<1>8. CASE UNCHANGED vars
  BY <1>8, Zenon DEF vars, Flags
<1> QED
  BY <1>1, <1>2, <1>3, <1>4, <1>5, <1>6, <1>7, <1>8, Zenon DEF Next

LEMMA NumbersKept == Numbers /\ [Next]_vars => Numbers'
<1> USE DEF Numbers
<1> SUFFICES ASSUME Numbers, [Next]_vars PROVE Numbers'
  OBVIOUS
<1>1. CASE SensorChanges
  BY <1>1, Times DEF SensorChanges, ScheduleRefresh, NoTimer, Hindrances
<1>2. CASE SleepEnds
  BY <1>2, Times DEF SleepEnds, CanPoll, StartPoll, PutOff, Dropped, clocks, NoTimer, Hindrances
<1>3. CASE AskForPoll
  BY <1>3, Times DEF AskForPoll, CanPoll, StartPoll, PutOff, change, NoTimer
<1>4. CASE CooldownEnds \/ OwnPoll
  BY <1>4, Times DEF CooldownEnds, CanPoll, OwnPoll, StartPoll, change, NoTimer
<1>5. CASE ReadSensors
  BY <1>5 DEF ReadSensors, clocks, change
<1>6. CASE PollEnds
  <2>1. due' \in 0..NoTimer
    BY <1>6, Times DEF PollEnds, LeavePoll, NextPoll, NoTimer
  <2> QED
    BY <1>6, <2>1, Times DEF PollEnds, LeavePoll
<1>7. CASE PollFails
  <2>1. due' \in 0..NoTimer
    BY <1>7, Times DEF PollFails, LeavePoll, NextPoll, NoTimer
  <2> QED
    BY <1>7, <2>1, Times DEF PollFails, LeavePoll, Hindrances
<1>8. CASE Tick
  BY <1>8, Times DEF Tick, NoTimer
<1>9. CASE UNCHANGED vars
  BY <1>9 DEF vars
<1> QED
  BY <1>1, <1>2, <1>3, <1>4, <1>5, <1>6, <1>7, <1>8, <1>9 DEF Next

LEMMA TypesKept == TypeOK /\ [Next]_vars => TypeOK'
<1> SUFFICES ASSUME TypeOK, [Next]_vars PROVE TypeOK'
  OBVIOUS
<1>1. Flags' /\ Numbers'
  BY TypeParts, FlagsKept, NumbersKept
<1> QED
  BY <1>1 DEF TypeOK, Flags, Numbers

(* The refresh task, the poll in progress, the coordinator's timer and the *)
(* cooldown keep their types, and the refresh task polls exactly while the *)
(* poll is its own (debounced_refresh, async_request_refresh).             *)
THEOREM RefreshTypes == Spec => []TypeOK
BY TypesAtFirst, TypesKept, PTL DEF Spec

-----------------------------------------------------------------------------
(* Why ReadInTime holds.  A refresh that sleeps has slept since the last   *)
(* change, between polls the coordinator's timer runs, no cooldown runs    *)
(* beside a poll, and a poll that does not know the last change when it    *)
(* decides began before it.                                                *)
Timely ==
  /\ refresh = "asleep" => slept = silence
  /\ poll = "none" => due <= Interval
  /\ cooldown > 0 => poll = "none"
  /\ poll # "none" /\ step = "writing" => seen \/ silence <= spent

(* The poll that acts on a change started in time: late enough to know the *)
(* change once it decides, early enough for the bound.                     *)
StartedBy(time) ==
  poll # "none" /\ silence <= time + spent /\ (step = "writing" => seen)

(* A change that nothing has hindered: its refresh has slept ever since    *)
(* the change, or has polled ever since the debounce ended.  After a       *)
(* cooldown: its end or the coordinator's timer starts a poll.  After a    *)
(* poll that did not know the change: the coordinator's timer does.        *)
OnItsWay ==
  \/ refresh = "asleep"
  \/ refresh = "polling" /\ silence = DebounceTime + spent /\ StartedBy(DebounceTime)
Awaited ==
  \/ /\ poll = "none" /\ again
     /\ silence + cooldown <= DebounceTime + Cooldown /\ silence + due <= DebounceTime + Interval
  \/ StartedBy(StartsAfter)
MadeUpFor ==
  \/ poll = "none" /\ silence + due <= PollTime + Interval
  \/ poll # "none" /\ step = "writing" /\ silence <= spent
  \/ StartedBy(StartsAfter)
Kinds ==
  /\ hindered = "nothing" => OnItsWay
  /\ hindered = "cooldown" => Awaited
  /\ hindered = "poll" => MadeUpFor
Followed == unread => Kinds
InTime == TypeOK /\ Timely /\ Followed

LEMMA TimelyKept == TypeOK /\ Timely /\ [Next]_vars => Timely'
<1> USE DEF Timely, Numbers
<1> SUFFICES ASSUME Numbers, Timely, [Next]_vars PROVE Timely'
  BY TypeParts
<1>1. CASE SensorChanges
  BY <1>1, Times DEF SensorChanges, ScheduleRefresh
<1>2. CASE SleepEnds
  BY <1>2, Times DEF SleepEnds, CanPoll, StartPoll, PutOff, Dropped, clocks
<1>3. CASE AskForPoll
  BY <1>3, Times DEF AskForPoll, CanPoll, StartPoll, PutOff, change
<1>4. CASE CooldownEnds \/ OwnPoll
  BY <1>4, Times DEF CooldownEnds, CanPoll, OwnPoll, StartPoll, change
<1>5. CASE ReadSensors
  BY <1>5 DEF ReadSensors, clocks, change
<1>6. CASE PollEnds
  BY <1>6, Times DEF PollEnds, LeavePoll, NextPoll
<1>7. CASE PollFails
  BY <1>7, Times DEF PollFails, LeavePoll, NextPoll
<1>8. CASE Tick
  BY <1>8, Times DEF Tick, NoTimer
<1>9. CASE UNCHANGED vars
  BY <1>9 DEF vars
<1> QED
  BY <1>1, <1>2, <1>3, <1>4, <1>5, <1>6, <1>7, <1>8, <1>9 DEF Next
LEMMA KindsKept ==
  ASSUME Numbers, Timely, Kinds, unread, [Next]_vars, ~SensorChanges, unread'
  PROVE  Kinds'
<1> USE DEF Numbers, Timely, Kinds, OnItsWay, Awaited, MadeUpFor, StartedBy, StartsAfter, Lower, Higher
<1>1. CASE SleepEnds
  <2>1. refresh = "asleep" /\ slept = DebounceTime /\ slept' = slept /\ silence' = silence
    BY <1>1 DEF SleepEnds
  <2>2. CASE CanPoll
    BY <1>1, <2>1, <2>2, Times DEF SleepEnds, CanPoll, StartPoll, PutOff, Dropped
  <2>3. CASE PutOff /\ refresh' = "done" /\ hindered' = "cooldown"
    BY <2>1, <2>3, Times DEF PutOff
  <2>4. CASE Dropped /\ refresh' = "done" /\ hindered' = "poll"
    BY <2>1, <2>4, Times DEF Dropped, clocks
  <2> QED
    BY <1>1, <2>2, <2>3, <2>4 DEF SleepEnds
<1>2. CASE AskForPoll
  BY <1>2, Times DEF AskForPoll, CanPoll, StartPoll, PutOff, change
<1>3. CASE CooldownEnds \/ OwnPoll
  BY <1>3, Times DEF CooldownEnds, CanPoll, OwnPoll, StartPoll, change
<1>4. CASE ReadSensors
  BY <1>4, Times DEF ReadSensors, clocks, change
<1>5. CASE PollEnds
  <2>1. ~seen
    BY <1>5, Zenon DEF PollEnds
  <2>2. poll # "none" /\ step = "writing" /\ UNCHANGED <<slept, silence, hindered>>
    BY <1>5 DEF PollEnds
  <2>3. silence <= PollTime
    BY <2>1, <2>2, Times
  <2>4. poll' = "none" /\ due' <= Interval /\ due' \in Nat
    BY <1>5, Times DEF PollEnds, LeavePoll, NextPoll
  <2>5. refresh = "asleep" => refresh' = "asleep"
    BY <1>5 DEF PollEnds, LeavePoll
  <2> QED
    BY <2>1, <2>2, <2>3, <2>4, <2>5, Times
<1>6. CASE PollFails
  BY <1>6 DEF PollFails
<1>7. CASE Tick
  BY <1>7, Times DEF Tick, CanPoll, NoTimer
<1>8. CASE UNCHANGED vars
  BY <1>8 DEF vars
<1> QED
  BY <1>1, <1>2, <1>3, <1>4, <1>5, <1>6, <1>7, <1>8 DEF Next

LEMMA FollowedKept == TypeOK /\ Timely /\ Followed /\ [Next]_vars => Followed'
<1> SUFFICES ASSUME TypeOK, Timely, Followed, [Next]_vars, unread' PROVE Kinds'
  BY DEF Followed
<1>1. CASE SensorChanges
  BY <1>1 DEF SensorChanges, ScheduleRefresh, Kinds, OnItsWay
<1>2. CASE ~SensorChanges
  <2>1. unread
    BY <1>2 DEF Next, SleepEnds, AskForPoll, CooldownEnds, OwnPoll, ReadSensors, PollEnds,
      PollFails, Tick, change, vars
  <2> QED
    BY <1>2, <2>1, KindsKept, TypeParts DEF Followed
<1> QED
  BY <1>1, <1>2

LEMMA FollowedIsInTime == InTime => ReadInTime
<1> USE DEF Numbers, Timely, Kinds, OnItsWay, Awaited, MadeUpFor, StartedBy
<1> SUFFICES ASSUME Numbers, Timely, Kinds, unread, hindered # "failure"
             PROVE  silence <= StartsAfter + PollTime
  BY TypeParts DEF InTime, Followed, ReadInTime
<1>1. CASE hindered = "nothing"
  BY <1>1, Times DEF StartsAfter
<1>2. CASE hindered = "cooldown"
  BY <1>2, Times DEF StartsAfter, Lower
<1>3. CASE hindered = "poll"
  BY <1>3, Times DEF StartsAfter, Higher
<1> QED
  BY <1>1, <1>2, <1>3 DEF Hindrances

(* Whatever the refresh of a change meets, a poll that knows the change    *)
(* ends in time: a PollTime after the debounce if nothing is in its way,   *)
(* at the latest a Cooldown or an Interval later if the debouncer of Home  *)
(* Assistant puts it off or drops it (schedule_refresh,                    *)
(* debounced_refresh), for all the times and the polls that are asked for  *)
(* at any moment.                                                          *)
THEOREM RefreshSafety == Spec => []ReadInTime
<1>1. Init => InTime
  <2> SUFFICES ASSUME Init PROVE Timely /\ Followed
    BY TypesAtFirst DEF InTime
  <2>1. ~unread /\ poll = "none" /\ due = Interval /\ cooldown = 0 /\ refresh = "done"
    BY DEF Init
  <2> QED
    BY <2>1, Times DEF Timely, Followed
<1>2. InTime /\ [Next]_vars => InTime'
  BY TypesKept, TimelyKept, FollowedKept DEF InTime
<1> QED
  BY <1>1, <1>2, FollowedIsInTime, PTL DEF Spec
=============================================================================
