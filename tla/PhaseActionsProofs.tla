------------------------- MODULE PhaseActionsProofs -------------------------
(***************************************************************************)
(* Proofs about PhaseActions, for all times, limits and requests: types,   *)
(* the spacing of automatic switches and their number per session.         *)
(***************************************************************************)
EXTENDS PhaseActions, TLAPS

Times == {SettleTime, StableTo1P, StableTo3P, Cooldown}

(* LongAgo is a time, and the longest of the four.                         *)
LEMMA LongAgoIsLongest == LongAgo \in Nat /\ \A m \in Times : m <= LongAgo
<1> DEFINE P(n) == \A m \in Times : m <= n
<1>1. \E n \in Times : P(n)
  <2>1. \E n \in {SettleTime, StableTo1P} : SettleTime <= n /\ StableTo1P <= n
    BY PhaseConstants
  <2>2. \E n \in {StableTo3P, Cooldown} : StableTo3P <= n /\ Cooldown <= n
    BY PhaseConstants
  <2> QED BY <2>1, <2>2, PhaseConstants DEF Times
<1>2. LongAgo \in Times /\ P(LongAgo)
  BY <1>1, Zenon DEF LongAgo, Times
<1> QED BY <1>2, PhaseConstants DEF Times

(* Time moves every age forward, never past LongAgo, and in step.          *)
LEMMA OlderAge == ASSUME NEW a \in Ages PROVE Older(a) \in Ages
BY LongAgoIsLongest DEF Ages, Older, Never

LEMMA OlderKeepsOrder ==
  ASSUME NEW a \in Ages, NEW b \in Ages, a <= b
  PROVE  Older(a) <= Older(b)
BY LongAgoIsLongest DEF Ages, Older, Never

LEMMA OlderGrows == ASSUME NEW a \in Ages PROVE Older(a) >= a
BY LongAgoIsLongest DEF Ages, Older, Never

LEMMA ZeroIsAge == 0 \in Ages /\ Never \in Ages /\ Never = -1
BY LongAgoIsLongest DEF Ages, Never
-----------------------------------------------------------------------------
(* Types *)

LEMMA InitTypes == Init => TypeOK
<1> SUFFICES ASSUME Init PROVE TypeOK
  OBVIOUS
<1>1. Unread \in Seen /\ NoCandidate \in [target: Phases \cup {"none"}, age: Ages]
  BY ZeroIsAge DEF Unread, Seen, NoCandidate
<1>2. NoTask \in [kind: {"none", "automatic", "manual", "restore", "user_restore"},
                  target: Phases \cup {"none"}, wallbox: Seen \cup {NoSnapshot}]
  BY <1>1 DEF NoTask
<1>3. lastAuto \in [age: Ages, here: BOOLEAN]
  BY ZeroIsAge DEF Init
<1> QED BY <1>1, <1>2, <1>3, ZeroIsAge, PhaseConstants DEF Init, TypeOK

(* What a poll leaves as candidate is one of its phases, or none.          *)
CandidateType == [target: Phases \cup {"none"}, age: Ages]

LEMMA ConsideredType ==
  ASSUME NEW c \in CandidateType, NEW t \in Phases \cup {"none"}
  PROVE  Considered(c, t) \in CandidateType
BY ZeroIsAge DEF Considered, CandidateType, NoCandidate

LEMMA TransitionTypes ==
  TypeOK /\ SessionTransition =>
    /\ lastSeen' \in {"none", "connected", "empty"}
    /\ mode' \in {"normal", "solar"} /\ started' \in Ages
    /\ failed' \subseteq Phases /\ lastSwitch' \in Ages /\ count' \in Nat
    /\ asked' \in {"none", "1P"} /\ autoWrites' \in Nat
    /\ lastAuto' \in [age: Ages, here: BOOLEAN]
<1> SUFFICES ASSUME TypeOK, SessionTransition
             PROVE  /\ lastSeen' \in {"none", "connected", "empty"}
                    /\ mode' \in {"normal", "solar"} /\ started' \in Ages
                    /\ failed' \subseteq Phases /\ lastSwitch' \in Ages
                    /\ count' \in Nat
                    /\ asked' \in {"none", "1P"} /\ autoWrites' \in Nat
                    /\ lastAuto' \in [age: Ages, here: BOOLEAN]
  OBVIOUS
<1>1. lastAuto' \in [age: Ages, here: BOOLEAN]
  BY DEF SessionTransition, TypeOK
<1> QED BY <1>1, ZeroIsAge, PhaseConstants DEF SessionTransition, TypeOK

LEMMA DecideTypes == TypeOK /\ PollDecide => TypeOK'
<1> SUFFICES ASSUME TypeOK, PollDecide PROVE TypeOK'
  OBVIOUS
<1>1. /\ lastSeen' \in {"none", "connected", "empty"}
      /\ mode' \in {"normal", "solar"} /\ started' \in Ages
      /\ failed' \subseteq Phases /\ lastSwitch' \in Ages /\ count' \in Nat
      /\ asked' \in {"none", "1P"} /\ autoWrites' \in Nat
      /\ lastAuto' \in [age: Ages, here: BOOLEAN]
  BY TransitionTypes DEF PollDecide
<1> DEFINE kept     == IF SessionChange THEN NoCandidate ELSE candidate
           o        == IF SessionEnds THEN "none" ELSE override
           pending  == restorePending /\ ~SessionEnds
           settling == sees.conn /\ started' # Never /\ started' < SettleTime
<1>2. PICK wish \in Wishes(mode', pending) :
        /\ candidate' = Considered(kept, wish)
        /\ PhaseAction(Considered(kept, wish), o, pending, settling)
  BY DEF PollDecide
<1>3. kept \in CandidateType /\ wish \in Phases \cup {"none"}
  BY ZeroIsAge DEF TypeOK, CandidateType, NoCandidate, Wishes
<1> DEFINE c == Considered(kept, wish)
<1>4. c \in CandidateType
  BY <1>3, ConsideredType
<1>5. o \in {"none", "1P"} /\ pending \in BOOLEAN /\ sees \in Seen
  BY DEF TypeOK
<1>6. /\ override' \in {"none", "1P"} /\ restorePending' \in BOOLEAN
      /\ \/ UNCHANGED work
         \/ Schedule("restore", "3P", sees)
         \/ Schedule("automatic", c.target, sees)
  <2> HIDE DEF o, pending, settling, c
  <2> QED BY <1>2, <1>5 DEF PhaseAction, Observe, c
<1>7. /\ task' \in [kind: {"none", "automatic", "manual", "restore", "user_restore"},
                    target: Phases \cup {"none"}, wallbox: Seen \cup {NoSnapshot}]
      /\ step' \in {"none", "queued", "reading", "writing", "landed", "refresh"}
  <2> HIDE DEF c
  <2> QED BY <1>4, <1>5, <1>6 DEF Schedule, work, TypeOK, CandidateType, Phases
<1>8. /\ poll' = "publish" /\ sees' = sees /\ snapshot' = snapshot
      /\ plugged' = plugged /\ register' = register
  BY DEF PollDecide, charger
<1> QED
  BY <1>1, <1>2, <1>4, <1>6, <1>7, <1>8 DEF TypeOK, CandidateType

LEMMA TickTypes == TypeOK /\ Tick => TypeOK'
<1> SUFFICES ASSUME TypeOK, Tick PROVE TypeOK'
  OBVIOUS
<1>1. started' \in Ages /\ lastSwitch' \in Ages
  BY OlderAge DEF Tick, TypeOK
<1>2. candidate' \in CandidateType /\ lastAuto' \in [age: Ages, here: BOOLEAN]
  BY OlderAge DEF Tick, TypeOK, CandidateType
<1> QED BY <1>1, <1>2 DEF Tick, TypeOK, CandidateType, charger, polling, phases, work

LEMMA PollTypes ==
  TypeOK /\ (PollReadCable \/ PollReadRegister \/ PollFails \/ PollPublish) => TypeOK'
<1> SUFFICES ASSUME TypeOK, PollReadCable \/ PollReadRegister \/ PollFails \/ PollPublish
             PROVE  TypeOK'
  OBVIOUS
<1>1. /\ sees' \in Seen /\ snapshot' \in Seen \cup {NoSnapshot}
      /\ poll' \in {"idle", "cable", "register", "publish"}
  <2> USE DEF TypeOK, Seen, Unread, Phases
  <2>1. CASE PollReadCable      BY <2>1 DEF PollReadCable
  <2>2. CASE PollReadRegister   BY <2>2 DEF PollReadRegister
  <2>3. CASE PollFails          BY <2>3 DEF PollFails
  <2>4. CASE PollPublish        BY <2>4 DEF PollPublish
  <2> QED BY <2>1, <2>2, <2>3, <2>4
<1>2. UNCHANGED <<charger, lastSeen, mode, started, policy, phases, work, history>>
  BY DEF PollReadCable, PollReadRegister, PollFails, PollPublish
<1> QED BY <1>1, <1>2 DEF TypeOK, charger, policy, phases, work, history

LEMMA UserTypes == TypeOK /\ (PlugOrUnplug \/ UserStep) => TypeOK'
<1> SUFFICES ASSUME TypeOK, PlugOrUnplug \/ UserStep PROVE TypeOK'
  OBVIOUS
<1>1. CASE PlugOrUnplug
  BY <1>1 DEF PlugOrUnplug, TypeOK, charger, polling, policy, phases, work, history
<1>2. CASE SetMode
  BY <1>2, PhaseConstants
     DEF SetMode, TypeOK, charger, polling, policy, phases, work, history
<1>3. ASSUME NEW request \in UserRequests, RequestPhase(request) PROVE TypeOK'
  <2>1. request \in {"1P", "3P", "restore"}
    BY PhaseConstants
  <2>2. /\ task' \in [kind: {"none", "automatic", "manual", "restore", "user_restore"},
                      target: Phases \cup {"none"}, wallbox: Seen \cup {NoSnapshot}]
        /\ step' = "queued" /\ restorePending' \in BOOLEAN
    <3>1. CASE request = "restore"
      BY <1>3, <3>1 DEF RequestPhase, Schedule, TypeOK, Phases
    <3>2. CASE request # "restore"
      <4>1. request \in Phases /\ restorePending' = restorePending
        BY <1>3, <2>1, <3>2 DEF RequestPhase, Phases
      <4> QED BY <1>3, <3>2, <4>1 DEF RequestPhase, Schedule, TypeOK
    <3> QED BY <3>1, <3>2
  <2> QED BY <1>3, <2>2 DEF RequestPhase, TypeOK, charger, polling, policy, history
<1> QED BY <1>1, <1>2, <1>3 DEF UserStep

(* What the task records about its attempt.                                *)
LEMMA RecordTypes ==
  TypeOK /\ (RecordAttempt \/ RecordFailure) =>
    /\ candidate' \in CandidateType /\ lastSwitch' \in Ages
    /\ count' \in Nat
    /\ task.target \in Phases => failed' \subseteq Phases
BY ZeroIsAge
   DEF TypeOK, RecordAttempt, RecordFailure, CandidateType, NoCandidate, policy

LEMMA TaskTypes ==
  TypeOK /\ (step # "none" => task.target \in Phases) /\ TaskStep => TypeOK'
<1> SUFFICES ASSUME TypeOK, step # "none" => task.target \in Phases, TaskStep
             PROVE  TypeOK'
  OBVIOUS
<1>1. CASE SwitchStart
  <2>1. /\ candidate' \in CandidateType /\ lastSwitch' \in Ages
        /\ count' \in Nat /\ failed' \subseteq Phases
        /\ step' \in {"writing", "refresh"}
    BY <1>1, RecordTypes DEF SwitchStart, TypeOK, CandidateType, policy
  <2> QED BY <1>1, <2>1
             DEF SwitchStart, TypeOK, CandidateType, charger, polling, phases, history
<1>2. CASE RestoreStart
  BY <1>2 DEF RestoreStart, TypeOK, charger, polling, policy, phases, history
<1>3. CASE RestoreDecide
  <2>1. /\ override' \in {"none", "1P"} /\ restorePending' \in BOOLEAN
        /\ step' \in {"writing", "refresh"}
    BY <1>3 DEF RestoreDecide, TypeOK, phases
  <2> QED BY <1>3, <2>1 DEF RestoreDecide, TypeOK, charger, polling, policy, history
<1>4. CASE Land
  <2>1. lastAuto' \in [age: Ages, here: BOOLEAN] /\ autoWrites' \in Nat
    <3>1. \/ lastAuto' = [age |-> 0, here |-> TRUE] /\ autoWrites' = autoWrites + 1
          \/ lastAuto' = lastAuto /\ autoWrites' = autoWrites
      BY <1>4 DEF Land
    <3>2. [age |-> 0, here |-> TRUE] \in [age: Ages, here: BOOLEAN]
      BY ZeroIsAge
    <3>3. lastAuto \in [age: Ages, here: BOOLEAN] /\ autoWrites \in Nat
      BY DEF TypeOK
    <3>4. autoWrites' \in Nat
      BY <3>1, <3>3
    <3>5. lastAuto' \in [age: Ages, here: BOOLEAN]
      BY <3>1, <3>2, <3>3, Zenon
    <3> QED BY <3>4, <3>5
  <2> QED BY <1>4, <2>1 DEF Land, TypeOK, polling, policy, phases
<1>5. CASE WriteOk
  <2>1. /\ candidate' \in CandidateType /\ lastSwitch' \in Ages
        /\ count' \in Nat /\ failed' \subseteq Phases
    BY <1>5, RecordTypes DEF WriteOk, TypeOK, CandidateType
  <2>2. /\ override' \in {"none", "1P"} /\ restorePending' \in BOOLEAN
        /\ asked' \in {"none", "1P"} /\ step' = "refresh"
    BY <1>5 DEF WriteOk
  <2> QED BY <1>5, <2>1, <2>2 DEF WriteOk, TypeOK, CandidateType, charger, polling
<1>6. CASE WriteFails
  <2>1. /\ candidate' \in CandidateType /\ lastSwitch' \in Ages
        /\ count' \in Nat /\ failed' \subseteq Phases
    BY <1>6, RecordTypes DEF WriteFails, TypeOK, CandidateType
  <2> QED BY <1>6, <2>1 DEF WriteFails, TypeOK, CandidateType, charger, polling, history
<1>7. CASE TaskEnds
  BY <1>7 DEF TaskEnds, NoTask, Unread, Seen, TypeOK, charger, polling, policy, phases,
              history
<1> QED BY <1>1, <1>2, <1>3, <1>4, <1>5, <1>6, <1>7 DEF TaskStep

-----------------------------------------------------------------------------
(* The invariant.  A switch is recorded when it is acknowledged or given   *)
(* up, after it was carried out, so the code's own clock runs behind the   *)
(* charger's; and a candidate is forgotten with the record or with the     *)
(* session, so it is never older than the last automatic write.            *)
Automatically == task.kind = "automatic" /\ step \in {"queued", "writing", "landed"}
Unrecorded    == task.kind = "automatic" /\ step = "landed"

TaskOK ==
  /\ step # "none" => task.target \in Phases
  /\ step = "reading" => ~Switching

SpacingOK ==
  lastAuto.age # Never =>
    /\ ~(Unrecorded /\ lastAuto.here) =>
         /\ candidate.age <= lastAuto.age
         /\ lastAuto.here => lastSwitch # Never /\ lastSwitch <= lastAuto.age
    /\ Automatically /\ step # "landed" =>
         /\ lastAuto.age >= StableTime(task.target)
         /\ lastAuto.here => lastAuto.age >= Cooldown

(* Writes carried out but not counted: those that failed, and the one that *)
(* is not recorded yet.                                                    *)
Failures == IF failed = {} THEN 0 ELSE IF failed = Phases THEN 2 ELSE 1
Open     == IF Unrecorded /\ lastAuto.here THEN 1 ELSE 0

CountOK ==
  /\ count <= MaxSwitches
  /\ Automatically => count < MaxSwitches /\ task.target \notin failed
  /\ autoWrites <= count + Failures + Open
  /\ failed = Phases => autoWrites <= MaxSwitches + 1

PhaseInv == TypeOK /\ TaskOK /\ SpacingOK /\ CountOK

LEMMA InitInv == Init => PhaseInv
<1> SUFFICES ASSUME Init PROVE TaskOK /\ SpacingOK /\ CountOK
  BY InitTypes DEF PhaseInv
<1>1. step = "none" /\ lastAuto.age = Never /\ count = 0 /\ failed = {} /\ autoWrites = 0
  BY DEF Init
<1>2. Phases # {}
  BY DEF Phases
<1> QED
  BY <1>1, <1>2, PhaseConstants
     DEF TaskOK, SpacingOK, CountOK, Automatically, Unrecorded, Failures, Open

(* A step that leaves these variables alone keeps the invariant.           *)
Untouched == UNCHANGED <<candidate, lastSwitch, count, failed, lastAuto, autoWrites>>

LEMMA UntouchedInv ==
  PhaseInv /\ TypeOK' /\ Untouched /\ UNCHANGED <<task, step>> => PhaseInv'
BY DEF PhaseInv, Untouched, TaskOK, SpacingOK, CountOK, Automatically, Unrecorded,
       Failures, Open, Switching, StableTime

(* Time keeps the ages in the order they are in.                           *)
LEMMA TickInv == PhaseInv /\ Tick => PhaseInv'
<1> SUFFICES ASSUME PhaseInv, Tick PROVE PhaseInv'
  OBVIOUS
<1>1. TypeOK'
  BY TickTypes DEF PhaseInv
<1>2. UNCHANGED <<task, step, count, failed, autoWrites>> /\ lastAuto'.here = lastAuto.here
  BY DEF Tick, work, PhaseInv, TypeOK
<1>3. /\ lastAuto.age \in Ages /\ candidate.age \in Ages /\ lastSwitch \in Ages
      /\ lastAuto'.age = Older(lastAuto.age) /\ candidate'.age = Older(candidate.age)
      /\ lastSwitch' = Older(lastSwitch)
  BY DEF Tick, PhaseInv, TypeOK
<1>4. TaskOK' /\ CountOK'
  BY <1>2 DEF PhaseInv, TaskOK, CountOK, Automatically, Unrecorded, Failures, Open,
              Switching
<1>5. SpacingOK'
  <2> SUFFICES ASSUME lastAuto'.age # Never PROVE SpacingOK'
    BY DEF SpacingOK
  <2>1. lastAuto.age # Never
    BY <1>3 DEF Older
  <2>2. candidate.age <= lastAuto.age => candidate'.age <= lastAuto'.age
    BY <1>3, <2>1, OlderKeepsOrder
  <2>3. lastSwitch # Never /\ lastSwitch <= lastAuto.age
          => lastSwitch' # Never /\ lastSwitch' <= lastAuto'.age
    BY <1>3, <2>1, OlderKeepsOrder, OlderGrows DEF Ages, Never
  <2>4. lastAuto'.age >= lastAuto.age
    BY <1>3, OlderGrows
  <2>5. lastAuto'.age \in Int /\ lastAuto.age \in Int /\ Cooldown \in Nat
        /\ StableTime(task.target) \in Nat
    BY <1>3, OlderAge, LongAgoIsLongest, PhaseConstants DEF Ages, Never, StableTime
  <2> QED
    BY <1>2, <2>1, <2>2, <2>3, <2>4, <2>5
       DEF PhaseInv, SpacingOK, Automatically, Unrecorded, StableTime
<1> QED BY <1>1, <1>4, <1>5 DEF PhaseInv

(* What a poll does to the task: nothing, or, when none runs, a restore,   *)
(* or an automatic switch to a candidate that is ready.                    *)
ScheduledByPoll ==
  \/ UNCHANGED work
  \/ step = "none" /\ Schedule("restore", "3P", sees)
  \/ /\ step = "none"
     /\ Schedule("automatic", candidate'.target, sees)
     /\ candidate'.target # "none" /\ candidate'.target \notin failed'
     /\ candidate'.age >= StableTime(candidate'.target)
     /\ lastSwitch' = Never \/ lastSwitch' >= Cooldown
     /\ count' < MaxSwitches

LEMMA DecideSchedules == TypeOK /\ PollDecide => ScheduledByPoll
<1> SUFFICES ASSUME TypeOK, PollDecide PROVE ScheduledByPoll
  OBVIOUS
<1>1. PICK o \in {"none", "1P"}, pending \in BOOLEAN, settling \in BOOLEAN :
        PhaseAction(candidate', o, pending, settling)
  <2> DEFINE o        == IF SessionEnds THEN "none" ELSE override
             pending  == restorePending /\ ~SessionEnds
             settling == sees.conn /\ started' # Never /\ started' < SettleTime
  <2>1. PhaseAction(candidate', o, pending, settling)
    BY DEF PollDecide
  <2>2. o \in {"none", "1P"} /\ pending \in BOOLEAN /\ settling \in BOOLEAN
    BY DEF TypeOK, Seen
  <2> HIDE DEF o, pending, settling
  <2> QED BY <2>1, <2>2
<1>2. CASE UNCHANGED work
  BY <1>2 DEF ScheduledByPoll
<1>3. CASE ShouldRestore(mode', started', o) /\ Schedule("restore", "3P", sees)
  BY <1>3 DEF ScheduledByPoll, ShouldRestore, InProgress
<1>4. CASE /\ Ready(candidate', lastSwitch', count', failed', settling) /\ ~InProgress
           /\ Schedule("automatic", candidate'.target, sees)
  BY <1>4 DEF ScheduledByPoll, Ready, InProgress
<1> QED BY <1>1, <1>2, <1>3, <1>4 DEF PhaseAction

(* A poll leaves the candidate it had, or one that is just found.          *)
LEMMA DecideCandidate ==
  TypeOK /\ PollDecide =>
    \/ ~SessionChange /\ candidate'.age = candidate.age
    \/ candidate'.age \in {Never, 0}
<1> SUFFICES ASSUME TypeOK, PollDecide
             PROVE  \/ ~SessionChange /\ candidate'.age = candidate.age
                    \/ candidate'.age \in {Never, 0}
  OBVIOUS
<1> DEFINE kept == IF SessionChange THEN NoCandidate ELSE candidate
<1>1. PICK wish : candidate' = Considered(kept, wish)
  BY DEF PollDecide
<1>2. candidate'.age = kept.age \/ candidate'.age \in {Never, 0}
  BY <1>1 DEF Considered, NoCandidate
<1>3. SessionChange => kept.age = Never
  BY DEF NoCandidate
<1> QED BY <1>2, <1>3

LEMMA DecideInv == PhaseInv /\ PollDecide => PhaseInv'
<1> SUFFICES ASSUME PhaseInv, PollDecide PROVE PhaseInv'
  OBVIOUS
<1>1. TypeOK /\ TypeOK'
  BY DecideTypes DEF PhaseInv
<1>2. ScheduledByPoll
  BY <1>1, DecideSchedules
<1>3. /\ failed' = IF SessionChange THEN {} ELSE failed
      /\ lastSwitch' = IF SessionChange THEN Never ELSE lastSwitch
      /\ count' = IF SessionChange THEN 0 ELSE count
      /\ autoWrites' = IF SessionChange THEN 0 ELSE autoWrites
      /\ lastAuto'.age = lastAuto.age
      /\ lastAuto'.here = (lastAuto.here /\ ~SessionChange)
  BY <1>1 DEF PollDecide, SessionTransition, TypeOK
<1>4. /\ lastAuto.age \in Int /\ candidate.age \in Int /\ candidate'.age \in Int
      /\ lastSwitch \in Int /\ count \in Nat /\ autoWrites \in Nat
      /\ Cooldown \in Nat /\ MaxSwitches \in Nat
      /\ lastAuto.age # Never => lastAuto.age >= 0
      /\ \A t : StableTime(t) \in Nat
  BY <1>1, LongAgoIsLongest, PhaseConstants DEF TypeOK, Ages, Never, StableTime
<1>5. candidate'.target \in Phases \cup {"none"}
  BY <1>1 DEF TypeOK
<1>6. lastAuto.age # Never /\ ~(Unrecorded /\ lastAuto.here /\ ~SessionChange)
        => candidate'.age <= lastAuto.age
  BY <1>1, <1>4, DecideCandidate DEF PhaseInv, SpacingOK, Never
<1>7. CASE UNCHANGED work
  <2>1. TaskOK'
    BY <1>7 DEF PhaseInv, TaskOK, work, Switching
  <2>2. SpacingOK'
    BY <1>3, <1>4, <1>6, <1>7
       DEF PhaseInv, SpacingOK, work, Unrecorded, Automatically, StableTime
  <2>3. CountOK'
    <3>1. CASE SessionChange
      BY <1>3, <1>4, <1>7, <3>1, Phases # {}
         DEF PhaseInv, CountOK, work, Unrecorded, Automatically, Failures, Open, Phases
    <3>2. CASE ~SessionChange
      BY <1>3, <1>4, <1>7, <3>2
         DEF PhaseInv, CountOK, work, Unrecorded, Automatically, Failures, Open
    <3> QED BY <3>1, <3>2
  <2> QED BY <1>1, <2>1, <2>2, <2>3 DEF PhaseInv
<1>8. CASE step = "none" /\ ~UNCHANGED work
  <2>1. /\ step' = "queued" /\ task'.target \in Phases
        /\ \/ task'.kind = "restore"
           \/ /\ task'.kind = "automatic" /\ task'.target \notin failed'
              /\ candidate'.age >= StableTime(task'.target)
              /\ lastSwitch' = Never \/ lastSwitch' >= Cooldown
              /\ count' < MaxSwitches
    BY <1>2, <1>5, <1>8 DEF ScheduledByPoll, Schedule, Phases
  <2>2. ~Unrecorded /\ ~Unrecorded'
    BY <1>8, <2>1 DEF Unrecorded
  <2>3. TaskOK'
    BY <2>1 DEF TaskOK
  <2>4. SpacingOK'
    <3> SUFFICES ASSUME lastAuto'.age # Never PROVE SpacingOK'
      BY DEF SpacingOK
    <3>1. candidate'.age <= lastAuto'.age
      BY <1>3, <1>6, <2>2
    <3>2. lastAuto'.here => lastSwitch' # Never /\ lastSwitch' <= lastAuto'.age
      BY <1>3, <2>2 DEF PhaseInv, SpacingOK
    <3>3. task'.kind = "automatic" =>
            /\ lastAuto'.age >= StableTime(task'.target)
            /\ lastAuto'.here => lastAuto'.age >= Cooldown
      <4>1. lastAuto'.age \in Int /\ lastSwitch' \in Int
        BY <1>3, <1>4 DEF Never
      <4>2. StableTime(task'.target) \in Nat
        BY <1>4
      <4> HIDE DEF StableTime
      <4> QED BY <1>4, <2>1, <3>1, <3>2, <4>1, <4>2
    <3>4. StableTime(task.target)' = StableTime(task'.target)
      BY DEF StableTime
    <3> QED BY <2>2, <3>1, <3>2, <3>3, <3>4 DEF SpacingOK, Automatically
  <2>5. CountOK'
    BY <1>3, <1>4, <2>1, <2>2
       DEF PhaseInv, CountOK, Automatically, Failures, Open, Phases
  <2> QED BY <1>1, <2>3, <2>4, <2>5 DEF PhaseInv
<1> QED BY <1>2, <1>7, <1>8 DEF ScheduledByPoll

LEMMA PollInv ==
  PhaseInv /\ (PollReadCable \/ PollReadRegister \/ PollFails \/ PollPublish) => PhaseInv'
<1> SUFFICES ASSUME PhaseInv, PollReadCable \/ PollReadRegister \/ PollFails \/ PollPublish
             PROVE  PhaseInv'
  OBVIOUS
<1>1. TypeOK'
  BY PollTypes DEF PhaseInv
<1>2. Untouched /\ UNCHANGED <<task, step>>
  BY DEF PollReadCable, PollReadRegister, PollFails, PollPublish, Untouched, policy, work,
         history
<1> QED BY <1>1, <1>2, UntouchedInv

LEMMA UserInv == PhaseInv /\ (PlugOrUnplug \/ UserStep) => PhaseInv'
<1> SUFFICES ASSUME PhaseInv, PlugOrUnplug \/ UserStep PROVE PhaseInv'
  OBVIOUS
<1>1. TypeOK'
  BY UserTypes DEF PhaseInv
<1>2. CASE PlugOrUnplug \/ SetMode
  <2>1. Untouched /\ UNCHANGED <<task, step>>
    BY <1>2 DEF PlugOrUnplug, SetMode, Untouched, policy, work, history
  <2> QED BY <1>1, <2>1, UntouchedInv
<1>3. ASSUME NEW request \in UserRequests, RequestPhase(request) PROVE PhaseInv'
  <2>1. /\ step = "none" /\ step' = "queued" /\ task'.kind # "automatic"
        /\ task'.target \in Phases /\ Untouched
    BY <1>3, PhaseConstants
       DEF RequestPhase, InProgress, Schedule, Phases, Untouched, policy, history
  <2> QED
    BY <1>1, <2>1
       DEF PhaseInv, Untouched, TaskOK, SpacingOK, CountOK, Automatically, Unrecorded,
           Failures, Open
<1> QED BY <1>2, <1>3 DEF UserStep

(* A failed automatic attempt: the cooldown starts and its target, until   *)
(* now not refused, is.                                                    *)
LEMMA FailureInv ==
  ASSUME PhaseInv, TypeOK', RecordFailure, UNCHANGED task, UNCHANGED <<lastAuto, autoWrites>>,
         step \in {"queued", "writing", "landed"}, step' = "refresh"
  PROVE  PhaseInv'
<1>1. ~Automatically' /\ ~Unrecorded' /\ TaskOK'
  BY DEF Automatically, Unrecorded, PhaseInv, TaskOK
<1>2. CASE task.kind # "automatic"
  BY <1>1, <1>2
     DEF RecordFailure, policy, PhaseInv, SpacingOK, CountOK, Unrecorded, Automatically,
         Failures, Open
<1>3. CASE task.kind = "automatic"
  <2>1. /\ lastSwitch' = 0 /\ candidate'.age = Never /\ count' = count
        /\ failed' = failed \cup {task.target}
    BY <1>3 DEF RecordFailure, NoCandidate
  <2>2. task.target \in Phases \ failed /\ count < MaxSwitches
    BY <1>3 DEF PhaseInv, TaskOK, CountOK, Automatically
  <2>3. lastAuto.age \in Int /\ (lastAuto.age # Never => lastAuto.age >= 0)
        /\ count \in Nat /\ autoWrites \in Nat /\ MaxSwitches \in Nat
        /\ failed \subseteq Phases
    BY LongAgoIsLongest, PhaseConstants DEF PhaseInv, TypeOK, Ages, Never
  <2>4. SpacingOK'
    BY <1>1, <2>1, <2>3 DEF SpacingOK, Never
  <2>5. Failures' = Failures + 1 /\ (failed' = Phases => Failures = 1)
    <3>1. PICK other \in Phases : Phases = {task.target, other} /\ other # task.target
      BY <2>2 DEF Phases
    <3>2. failed = {} \/ failed = {other}
      BY <2>2, <2>3, <3>1
    <3>3. CASE failed = {}
      BY <2>1, <3>1, <3>3, {task.target} # {task.target, other} DEF Failures
    <3>4. CASE failed = {other}
      BY <2>1, <3>1, <3>4, {other} # {task.target, other} DEF Failures
    <3> QED BY <3>2, <3>3, <3>4
  <2>6. autoWrites <= count + Failures + 1
    <3>1. Open \in {0, 1} /\ Failures \in {0, 1, 2}
      BY DEF Open, Failures
    <3> QED BY <2>3, <3>1 DEF PhaseInv, CountOK
  <2>7. CountOK'
    <3>1. Open' = 0 /\ Failures \in {0, 1, 2}
      BY <1>1 DEF Open, Failures
    <3>2. autoWrites' <= count' + Failures' + Open'
      BY <2>1, <2>3, <2>5, <2>6, <3>1
    <3>3. failed' = Phases => autoWrites' <= MaxSwitches + 1
      BY <2>2, <2>3, <2>5, <2>6
    <3> QED BY <1>1, <2>1, <2>2, <2>3, <3>2, <3>3 DEF CountOK
  <2> QED BY <1>1, <2>4, <2>7 DEF PhaseInv
<1> QED BY <1>2, <1>3

LEMMA LandInv == PhaseInv /\ Land => PhaseInv'
<1> SUFFICES ASSUME PhaseInv, Land PROVE PhaseInv'
  OBVIOUS
<1>1. TypeOK'
  BY TaskTypes DEF PhaseInv, TaskOK, TaskStep
<1>2. /\ step = "writing" /\ step' = "landed"
      /\ UNCHANGED <<task, candidate, lastSwitch, count, failed>>
  BY DEF Land, policy
<1>3. TaskOK'
  BY <1>2 DEF PhaseInv, TaskOK, Switching
<1>4. CASE task.kind # "automatic"
  BY <1>1, <1>2, <1>3, <1>4
     DEF Land, PhaseInv, SpacingOK, CountOK, Automatically, Unrecorded, Failures, Open
<1>5. CASE task.kind = "automatic"
  <2>1. /\ lastAuto'.age = 0 /\ lastAuto'.here /\ autoWrites' = autoWrites + 1
        /\ Unrecorded' /\ ~Unrecorded
    BY <1>2, <1>5 DEF Land, Unrecorded
  <2>2. Automatically /\ task.target \in Phases
    BY <1>2, <1>5 DEF Automatically, PhaseInv, TaskOK
  <2>3. SpacingOK'
    BY <1>2, <2>1 DEF SpacingOK, Automatically
  <2>4. Open = 0 /\ Open' = 1 /\ Failures' = Failures /\ Failures \in {0, 1, 2}
    BY <1>2, <2>1 DEF Open, Failures
  <2>5. count \in Nat /\ autoWrites \in Nat
    BY DEF PhaseInv, TypeOK
  <2>6. CountOK'
    BY <1>2, <2>1, <2>2, <2>4, <2>5 DEF PhaseInv, CountOK
  <2> QED BY <1>1, <1>3, <2>3, <2>6 DEF PhaseInv
<1> QED BY <1>4, <1>5

LEMMA WriteOkInv == PhaseInv /\ WriteOk => PhaseInv'
<1> SUFFICES ASSUME PhaseInv, WriteOk PROVE PhaseInv'
  OBVIOUS
<1>1. TypeOK'
  BY TaskTypes DEF PhaseInv, TaskOK, TaskStep
<1>2. step = "landed" /\ step' = "refresh" /\ UNCHANGED <<task, lastAuto, autoWrites>>
  BY DEF WriteOk
<1>3. ~Automatically' /\ ~Unrecorded' /\ TaskOK'
  BY <1>2 DEF Automatically, Unrecorded, PhaseInv, TaskOK
<1>4. CASE task.kind # "automatic"
  BY <1>1, <1>2, <1>3, <1>4
     DEF WriteOk, RecordAttempt, policy, PhaseInv, SpacingOK, CountOK, Unrecorded,
         Automatically, Failures, Open
<1>5. CASE task.kind = "automatic"
  <2>1. /\ lastSwitch' = 0 /\ candidate'.age = Never /\ count' = count + 1
        /\ failed' = failed
    BY <1>5 DEF WriteOk, RecordAttempt, NoCandidate
  <2>2. lastAuto.age \in Int /\ (lastAuto.age # Never => lastAuto.age >= 0)
        /\ count \in Nat /\ autoWrites \in Nat /\ MaxSwitches \in Nat
    BY LongAgoIsLongest, PhaseConstants DEF PhaseInv, TypeOK, Ages, Never
  <2>3. SpacingOK'
    BY <1>2, <1>3, <2>1, <2>2 DEF SpacingOK, Never
  <2>4. /\ count < MaxSwitches /\ Open \in {0, 1} /\ Open' = 0
        /\ Failures' = Failures /\ Failures \in {0, 1, 2}
    BY <1>2, <1>3, <1>5, <2>1 DEF PhaseInv, CountOK, Automatically, Open, Failures
  <2>5. CountOK'
    BY <1>2, <1>3, <2>1, <2>2, <2>4 DEF PhaseInv, CountOK
  <2> QED BY <1>1, <1>3, <2>3, <2>5 DEF PhaseInv
<1> QED BY <1>4, <1>5

LEMMA TaskInv == PhaseInv /\ TaskStep => PhaseInv'
<1> SUFFICES ASSUME PhaseInv, TaskStep PROVE PhaseInv'
  OBVIOUS
<1>1. TypeOK'
  BY TaskTypes DEF PhaseInv, TaskOK
<1>2. CASE SwitchStart
  <2>1. CASE step' = "refresh" /\ RecordFailure
    BY <1>1, <1>2, <2>1, FailureInv DEF SwitchStart, history
  <2>2. CASE step' = "writing" /\ UNCHANGED policy
    BY <1>1, <1>2, <2>2
       DEF SwitchStart, policy, history, PhaseInv, TaskOK, SpacingOK, CountOK,
           Automatically, Unrecorded, Failures, Open, StableTime
  <2> QED BY <1>2, <2>1, <2>2 DEF SwitchStart
<1>3. CASE RestoreStart \/ RestoreDecide
  <2>1. /\ ~Switching /\ ~Switching' /\ task'.target = task.target
        /\ step' \in {"reading", "writing", "refresh"} /\ step # "none" /\ Untouched
    BY <1>3 DEF RestoreStart, RestoreDecide, Switching, Untouched, policy, history,
                PhaseInv, TaskOK, TypeOK
  <2> QED
    BY <1>1, <2>1
       DEF PhaseInv, Untouched, TaskOK, SpacingOK, CountOK, Automatically, Unrecorded,
           Failures, Open, Switching
<1>4. CASE Land        BY <1>4, LandInv
<1>5. CASE WriteOk     BY <1>5, WriteOkInv
<1>6. CASE WriteFails
  BY <1>1, <1>6, FailureInv DEF WriteFails, history
<1>7. CASE TaskEnds
  <2>1. step' = "none" /\ step = "refresh" /\ Untouched
    BY <1>7 DEF TaskEnds, Untouched, policy, history
  <2> QED
    BY <1>1, <2>1
       DEF PhaseInv, Untouched, TaskOK, SpacingOK, CountOK, Automatically, Unrecorded,
           Failures, Open
<1> QED BY <1>2, <1>3, <1>4, <1>5, <1>6, <1>7 DEF TaskStep
-----------------------------------------------------------------------------
(* Every step keeps the invariant.                                         *)
LEMMA NextInv == PhaseInv /\ [Next]_vars => PhaseInv'
<1> SUFFICES ASSUME PhaseInv, [Next]_vars PROVE PhaseInv'
  OBVIOUS
<1>1. CASE UNCHANGED vars
  <2>1. TypeOK' /\ Untouched /\ UNCHANGED <<task, step>>
    BY <1>1 DEF vars, charger, polling, policy, phases, work, history, Untouched, PhaseInv,
                TypeOK
  <2> QED BY <2>1, UntouchedInv
<1> QED BY <1>1, TickInv, PollInv, DecideInv, UserInv, TaskInv DEF Next, PollStep

LEMMA PhaseInvariant == Spec => []PhaseInv
<1> QED BY InitInv, NextInv, PTL DEF Spec

(* Every variable keeps its type; in particular an automatic or observed   *)
(* session override is always 1P, never the configured three phases.       *)
THEOREM PhaseTypes == Spec => []TypeOK
<1>1. PhaseInv => TypeOK
  BY DEF PhaseInv
<1> QED BY <1>1, PhaseInvariant, PTL

(* A session sees at most one automatic switch more than its limit,        *)
(* whatever writes are carried out without an answer, whatever tasks       *)
(* outlive their session.                                                  *)
THEOREM SwitchesBounded == Spec => []AutomaticSwitchesAreBounded
<1>1. PhaseInv => AutomaticSwitchesAreBounded
  <2> SUFFICES ASSUME PhaseInv PROVE AutomaticSwitchesAreBounded
    OBVIOUS
  <2>1. /\ count \in Nat /\ autoWrites \in Nat /\ MaxSwitches \in Nat
        /\ count <= MaxSwitches /\ autoWrites <= count + Failures + Open
        /\ failed = Phases => autoWrites <= MaxSwitches + 1
    BY PhaseConstants DEF PhaseInv, TypeOK, CountOK
  <2>2. CASE failed = Phases
    BY <2>1, <2>2 DEF AutomaticSwitchesAreBounded
  <2>3. CASE failed # Phases /\ Open = 0
    <3>1. Failures \in {0, 1}
      BY <2>3 DEF Failures
    <3> QED BY <2>1, <2>3, <3>1 DEF AutomaticSwitchesAreBounded
  <2>4. CASE failed # Phases /\ Open = 1
    <3>1. Failures \in {0, 1}
      BY <2>4 DEF Failures
    <3>2. count < MaxSwitches
      BY <2>4 DEF Open, Unrecorded, PhaseInv, CountOK, Automatically
    <3> QED BY <2>1, <2>4, <3>1, <3>2 DEF AutomaticSwitchesAreBounded
  <2> QED BY <2>2, <2>3, <2>4 DEF Open
<1> QED BY <1>1, PhaseInvariant, PTL

(* Automatic switches are spaced by the cooldown, or by the stability time *)
(* across a change of session.                                             *)
THEOREM SwitchesSpaced == Spec => AutomaticSwitchesAreSpaced
<1>1. PhaseInv /\ [Next]_vars =>
        [step = "writing" /\ step' = "landed" /\ task.kind = "automatic" =>
           \/ lastAuto.age = Never
           \/ lastAuto.age >= IF lastAuto.here THEN Cooldown
                              ELSE StableTime(task.target)]_vars
  BY DEF PhaseInv, SpacingOK, Automatically, Unrecorded
<1> QED BY <1>1, PhaseInvariant, PTL DEF Spec, AutomaticSwitchesAreSpaced
=============================================================================
