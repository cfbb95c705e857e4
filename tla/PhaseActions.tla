---------------------------- MODULE PhaseActions ----------------------------
(***************************************************************************)
(* Who changes the charger's phases, and when: the poll that follows the   *)
(* vehicle's session, evaluates the Solar phase policy and schedules at    *)
(* most one phase action; the phase task that writes register 405 while    *)
(* later polls go on; and the user.  WritePath has the other half of the   *)
(* story, how a scheduled write reaches the charger: here it is on its way *)
(* ("writing"), has been carried out ("landed") and is acknowledged or     *)
(* given up.                                                               *)
(*                                                                         *)
(* The integration owns the current, the charger is configured as 3P, and  *)
(* phase switching is manual or automatic.  Register 405 is named by what  *)
(* it asks for: 0 is "1P", 1 is "3P".  "normal" stands for every effective *)
(* charge mode but Solar.                                                  *)
(***************************************************************************)
EXTENDS Integers

CONSTANTS
  Automatic,      \* phase_switching_mode is automatic_solar, not manual_only
  UserRequests,   \* what the user may ask for: "1P", "3P", "restore"
  Modes,          \* charge modes the user may select
  DefaultMode,    \* resolve_startup_mode
  SettleTime,     \* NEW_SESSION_PHASE_SETTLE_S, in ticks
  StableTo1P,     \* AUTO_PHASE_STABLE_TO_1P_S
  StableTo3P,     \* AUTO_PHASE_STABLE_TO_3P_S
  Cooldown,       \* AUTO_PHASE_SWITCH_COOLDOWN_S
  MaxSwitches     \* AUTO_PHASE_MAX_SWITCHES_PER_SESSION

ASSUME PhaseConstants ==
  /\ Automatic \in BOOLEAN
  /\ UserRequests \subseteq {"1P", "3P", "restore"}
  /\ Modes \subseteq {"normal", "solar"}
  /\ DefaultMode \in {"normal", "solar"}
  /\ {SettleTime, StableTo1P, StableTo3P, Cooldown, MaxSwitches} \subseteq Nat

Phases == {"1P", "3P"}
Seen   == [conn: BOOLEAN, raw: Phases \cup {"none"}]

StableTime(t) == IF t = "1P" THEN StableTo1P ELSE StableTo3P

(* The time since an event, or Never.  Ages stop growing at the bound      *)
(* LongAgo, beyond which the code cannot tell them apart.                  *)
Never   == -1
LongAgo == CHOOSE n \in {SettleTime, StableTo1P, StableTo3P, Cooldown} :
             \A m \in {SettleTime, StableTo1P, StableTo3P, Cooldown} : m <= n
Ages     == {Never} \cup 0..LongAgo
Older(a) == IF a \in {Never, LongAgo} THEN a ELSE a + 1

VARIABLES
  plugged,         \* charger: a vehicle is connected
  register,        \* charger: register 405
  poll, sees,      \* where the running poll is and what it has read
  snapshot,        \* coordinator.data.wallbox, or NoSnapshot
  lastSeen,        \* session_runtime: "none", "connected" or "empty"
  mode,            \* mode_runtime
  started,         \* time since session_started_monotonic
  candidate,       \* policy_candidate_target and the time since it was set
  lastSwitch,      \* time since policy_last_switch_monotonic
  count,           \* policy_session_switch_count
  failed,          \* policy_failed_targets
  override,        \* session_target while session_override_active, or "none"
  restorePending,  \* restore_pending
  task,            \* the phase task: who scheduled it, its target, its wallbox
  step,            \* where it is
  asked,           \* history: 1P was set, and acknowledged, since the last
                   \* unplug and not set back
  lastAuto,        \* history: the last automatic write, and whether the poll
                   \* has seen the session change since
  autoWrites       \* history: automatic writes carried out in this session

charger == <<plugged, register>>
polling == <<poll, sees, snapshot, lastSeen>>
policy  == <<candidate, lastSwitch, count, failed>>
phases  == <<override, restorePending>>
work    == <<task, step>>
history == <<asked, lastAuto, autoWrites>>
vars == <<charger, polling, mode, started, policy, phases, work, history>>

Unread      == [conn |-> FALSE, raw |-> "none"]
NoSnapshot  == [conn |-> FALSE, raw |-> "no data"]
NoCandidate == [target |-> "none", age |-> Never]
NoTask      == [kind |-> "none", target |-> "none", wallbox |-> Unread]

TypeOK ==
  /\ plugged \in BOOLEAN /\ register \in Phases
  /\ poll \in {"idle", "cable", "register", "publish"} /\ sees \in Seen
  /\ snapshot \in Seen \cup {NoSnapshot}
  /\ lastSeen \in {"none", "connected", "empty"}
  /\ mode \in {"normal", "solar"}
  /\ started \in Ages
  /\ candidate \in [target: Phases \cup {"none"}, age: Ages]
  /\ lastSwitch \in Ages /\ count \in Nat /\ failed \subseteq Phases
  /\ override \in {"none", "1P"} /\ restorePending \in BOOLEAN
  /\ task \in [kind: {"none", "automatic", "manual", "restore", "user_restore"},
               target: Phases \cup {"none"}, wallbox: Seen \cup {NoSnapshot}]
  /\ step \in {"none", "queued", "reading", "writing", "landed", "refresh"}
  /\ asked \in {"none", "1P"}
  /\ lastAuto \in [age: Ages, here: BOOLEAN] /\ autoWrites \in Nat

(* _phase_switch_in_progress: the task is not done, its closing refresh    *)
(* included.                                                               *)
InProgress == step # "none"

-----------------------------------------------------------------------------
(* Time and the vehicle *)

Tick ==
  /\ started' = Older(started)
  /\ candidate' = [candidate EXCEPT !.age = Older(@)]
  /\ lastSwitch' = Older(lastSwitch)
  /\ lastAuto' = [lastAuto EXCEPT !.age = Older(@)]
  /\ UNCHANGED <<charger, polling, mode, count, failed, phases, work, asked,
                 autoWrites>>

PlugOrUnplug ==
  /\ plugged' = ~plugged
  /\ UNCHANGED <<register, polling, mode, started, policy, phases, work, history>>

-----------------------------------------------------------------------------
(* The poll: read_wallbox_state reads the cable state, some requests later *)
(* register 405 (optional: a failed read yields None), some requests later *)
(* it returns.  Phase tasks run in between.                                *)

PollReadCable ==
  /\ poll = "idle"
  /\ poll' = "cable"
  /\ sees' = [conn |-> plugged, raw |-> "none"]
  /\ UNCHANGED <<charger, snapshot, lastSeen, mode, started, policy, phases, work,
                 history>>

PollReadRegister ==
  /\ poll = "cable"
  /\ poll' = "register"
  /\ \E raw \in {register, "none"} : sees' = [sees EXCEPT !.raw = raw]
  /\ UNCHANGED <<charger, snapshot, lastSeen, mode, started, policy, phases, work,
                 history>>

(* Another read fails, or the flush at the end of the poll does.           *)
PollFails ==
  /\ poll # "idle"
  /\ poll' = "idle" /\ sees' = Unread
  /\ UNCHANGED <<charger, snapshot, lastSeen, mode, started, policy, phases, work,
                 history>>

PollPublish ==
  /\ poll = "publish"
  /\ snapshot' = sees
  /\ poll' = "idle" /\ sees' = Unread
  /\ UNCHANGED <<charger, lastSeen, mode, started, policy, phases, work, history>>

SessionEnds   == lastSeen = "connected" /\ ~sees.conn
SessionBegins == lastSeen = "empty" /\ sees.conn
SessionChange == SessionEnds \/ SessionBegins

(* evaluate_phase_policy: the target the Solar surplus may ask for.  What  *)
(* the vehicle draws is independent of the register, so any target may     *)
(* differ from the current phases.                                         *)
Wishes(m, pending) ==
  IF m = "solar" /\ sees.conn /\ sees.raw # "none" /\ ~pending
  THEN Phases \cup {"none"} ELSE {"none"}

(* The candidate after a poll that wishes for t.                           *)
Considered(c, t) ==
  IF t = "none" THEN NoCandidate
  ELSE IF c.target = t THEN c ELSE [target |-> t, age |-> 0]

(* auto_block_reason is None for the candidate c, the last switch since    *)
(* ago, n switches so far and the refused targets (mutant: a target that   *)
(* failed is tried again).                                                 *)
ReadyAfterFailure(c, since, n, refused, settling) ==
  /\ Automatic /\ c.target # "none" /\ ~settling
  /\ since = Never \/ since >= Cooldown
  /\ n < MaxSwitches
  /\ c.age >= StableTime(c.target)
Ready(c, since, n, refused, settling) ==
  /\ Automatic /\ c.target # "none" /\ ~settling
  /\ c.target \notin refused
  /\ since = Never \/ since >= Cooldown
  /\ n < MaxSwitches
  /\ c.age >= StableTime(c.target)

(* _should_restore_default_phase_on_new_session, in mode m with the        *)
(* session started since ago and o as the session override.                *)
ShouldRestore(m, since, o) ==
  /\ ~InProgress
  /\ m # "solar" /\ o = "none" /\ since # Never
  /\ sees.conn /\ sees.raw = "1P"

Schedule(kind, target, wallbox) ==
  /\ task' = [kind |-> kind, target |-> target, wallbox |-> wallbox]
  /\ step' = "queued"

(* handle_observed_register_state: register 405 at 1P becomes the session  *)
(* override, whoever wrote it (mutants: so does 3P, it is not recorded,    *)
(* restore_pending is left alone).                                         *)
ObserveEither(o, pending) ==
  IF sees.raw = "none" THEN override' = o /\ restorePending' = pending
  ELSE /\ override' = IF ~sees.conn THEN "none" ELSE sees.raw
       /\ restorePending' = FALSE
ObserveDefault(o, pending) ==
  IF sees.raw = "none" THEN override' = o /\ restorePending' = pending
  ELSE /\ override' = IF sees.raw = "3P" \/ ~sees.conn THEN "none" ELSE o
       /\ restorePending' = FALSE
ObserveOverride(o, pending) ==
  IF sees.raw = "none" THEN override' = o /\ restorePending' = pending
  ELSE /\ override' = IF sees.raw = "3P" \/ ~sees.conn THEN "none" ELSE "1P"
       /\ restorePending' = pending
Observe(o, pending) ==
  IF sees.raw = "none" THEN override' = o /\ restorePending' = pending
  ELSE /\ override' = IF sees.raw = "3P" \/ ~sees.conn THEN "none" ELSE "1P"
       /\ restorePending' = FALSE

(* _handle_session_transition: the connection of this poll's wallbox       *)
(* against the previous one's.                                             *)
SessionTransition ==
  /\ lastSeen' = IF sees.conn THEN "connected" ELSE "empty"
  /\ mode' = IF SessionEnds THEN DefaultMode ELSE mode
  /\ started' = IF SessionBegins THEN 0 ELSE IF SessionEnds THEN Never ELSE started
  /\ failed' = IF SessionChange THEN {} ELSE failed
  /\ lastSwitch' = IF SessionChange THEN Never ELSE lastSwitch
  /\ count' = IF SessionChange THEN 0 ELSE count
  /\ asked' = IF SessionEnds THEN "none" ELSE asked
  /\ lastAuto' = [lastAuto EXCEPT !.here = @ /\ ~SessionChange]
  /\ autoWrites' = IF SessionChange THEN 0 ELSE autoWrites

(* _maybe_schedule_phase_action, with the candidate c, the session         *)
(* override o and restore_pending after the transition.                    *)
PhaseAction(c, o, pending, settling) ==
  IF SessionEnds \/ settling
  THEN override' = o /\ restorePending' = pending /\ UNCHANGED work
  ELSE IF ShouldRestore(mode', started', o)
  THEN override' = o /\ restorePending' = TRUE /\ Schedule("restore", "3P", sees)
  ELSE /\ Observe(o, pending)
       /\ IF Ready(c, lastSwitch', count', failed', settling) /\ ~InProgress
          THEN Schedule("automatic", c.target, sees)
          ELSE UNCHANGED work

(* From the last read to the request for flush_lock nothing awaits: the    *)
(* session transition, the policy, and at most one phase action.           *)
PollDecide ==
  /\ poll = "register"
  /\ poll' = "publish"
  /\ SessionTransition
  /\ LET kept     == IF SessionChange THEN NoCandidate ELSE candidate
         o        == IF SessionEnds THEN "none" ELSE override
         pending  == restorePending /\ ~SessionEnds
         settling == sees.conn /\ started' # Never /\ started' < SettleTime
     IN \E wish \in Wishes(mode', pending) :
          /\ candidate' = Considered(kept, wish)
          /\ PhaseAction(Considered(kept, wish), o, pending, settling)
  /\ UNCHANGED <<charger, sees, snapshot>>

-----------------------------------------------------------------------------
(* The user *)

(* async_schedule_phase_switch and async_schedule_restore_default_phase_mode *)
RequestPhase(request) ==
  /\ snapshot # NoSnapshot /\ ~InProgress
  /\ IF request = "restore"
     THEN Schedule("user_restore", "3P", NoSnapshot) /\ restorePending' = TRUE
     ELSE Schedule("manual", request, NoSnapshot) /\ UNCHANGED restorePending
  /\ UNCHANGED <<charger, polling, mode, started, policy, override, history>>

SetMode ==
  /\ snapshot # NoSnapshot
  /\ \E m \in Modes \ {mode} : mode' = m
  /\ UNCHANGED <<charger, polling, started, policy, phases, work, history>>

-----------------------------------------------------------------------------
(* The phase task *)

Switching == task.kind \in {"manual", "automatic"}

(* record_policy_switch_attempt.                                           *)
RecordAttempt ==
  IF task.kind = "automatic"
  THEN /\ lastSwitch' = 0 /\ count' = count + 1
       /\ candidate' = NoCandidate
       /\ UNCHANGED failed
  ELSE UNCHANGED policy

(* record_policy_failed_attempt and record_policy_failed_target (mutant:   *)
(* without the former, a failed attempt starts no cooldown).               *)
RecordFailedTarget ==
  IF task.kind = "automatic"
  THEN /\ failed' = failed \cup {task.target}
       /\ candidate' = NoCandidate
       /\ UNCHANGED <<lastSwitch, count>>
  ELSE UNCHANGED policy
RecordFailure ==
  IF task.kind = "automatic"
  THEN /\ lastSwitch' = 0
       /\ failed' = failed \cup {task.target}
       /\ candidate' = NoCandidate
       /\ UNCHANGED count
  ELSE UNCHANGED policy

(* build_manual_phase_switch_decision on the poll's wallbox or, for the    *)
(* user, on the latest snapshot.                                           *)
SwitchStart ==
  /\ step = "queued" /\ Switching
  /\ LET w == IF task.kind = "automatic" THEN task.wallbox ELSE snapshot
     IN IF w.conn /\ w.raw # "none"
        THEN step' = "writing" /\ UNCHANGED policy
        ELSE step' = "refresh" /\ RecordFailure
  /\ UNCHANGED <<charger, polling, mode, started, phases, task, history>>

(* The restore's fallback is the poll's wallbox or, for the user, the      *)
(* latest snapshot; then it reads the charger.                             *)
RestoreStart ==
  /\ step = "queued" /\ ~Switching
  /\ task' = [task EXCEPT !.wallbox = IF task.kind = "restore" THEN @ ELSE snapshot]
  /\ step' = "reading"
  /\ UNCHANGED <<charger, polling, mode, started, policy, phases, history>>

(* No vehicle, or already in three phases (while charging also measured    *)
(* ones, free here): nothing is written and the override is forgotten.     *)
RestoreDecide ==
  /\ step = "reading"
  /\ \E raw \in {register, task.wallbox.raw}, fresh, matches \in BOOLEAN :
       LET conn == IF fresh THEN plugged ELSE task.wallbox.conn
           seen == IF fresh THEN raw ELSE task.wallbox.raw
       IN \/ /\ ~conn \/ (seen = "3P" /\ matches)
             /\ override' = "none" /\ restorePending' = FALSE
             /\ step' = "refresh"
          \/ /\ conn /\ seen = "none"
             /\ restorePending' = TRUE /\ UNCHANGED override
             /\ step' = "refresh"
          \/ /\ conn /\ seen # "none" /\ ~(seen = "3P" /\ matches)
             /\ UNCHANGED phases
             /\ step' = "writing"
  /\ UNCHANGED <<charger, polling, mode, started, policy, task, history>>

(* The charger carries the write out; the answer is still under way.       *)
Land ==
  /\ step = "writing"
  /\ step' = "landed"
  /\ register' = task.target
  /\ IF task.kind = "automatic"
     THEN /\ lastAuto' = [age |-> 0, here |-> TRUE]
          /\ autoWrites' = autoWrites + 1
     ELSE UNCHANGED <<lastAuto, autoWrites>>
  /\ UNCHANGED <<plugged, polling, mode, started, policy, phases, task, asked>>

(* The write is acknowledged: a switch to 1P becomes the session override, *)
(* every other write ends it.                                              *)
WriteOk ==
  /\ step = "landed"
  /\ step' = "refresh"
  /\ override' = IF task.target = "1P" THEN "1P" ELSE "none"
  /\ restorePending' = FALSE
  /\ RecordAttempt
  /\ asked' = IF task.target = "1P" THEN "1P" ELSE "none"
  /\ UNCHANGED <<charger, polling, mode, started, task, lastAuto, autoWrites>>

(* It is given up, carried out or not; a restore stays pending.            *)
WriteFails ==
  /\ step \in {"writing", "landed"}
  /\ step' = "refresh"
  /\ RecordFailure
  /\ restorePending' = (restorePending \/ ~Switching)
  /\ UNCHANGED <<charger, polling, mode, started, override, task, history>>

(* The closing async_request_refresh returns: after a poll of its own, or  *)
(* at once while the coordinator's debouncer is cooling down.              *)
TaskEnds ==
  /\ step = "refresh"
  /\ step' = "none" /\ task' = NoTask
  /\ UNCHANGED <<charger, polling, mode, started, policy, phases, history>>

-----------------------------------------------------------------------------
Init ==
  /\ plugged \in BOOLEAN /\ register \in Phases
  /\ poll = "idle" /\ sees = Unread /\ snapshot = NoSnapshot
  /\ lastSeen = "none" /\ mode = DefaultMode /\ started = Never
  /\ candidate = NoCandidate /\ lastSwitch = Never /\ count = 0 /\ failed = {}
  /\ override = "none" /\ restorePending = FALSE
  /\ task = NoTask /\ step = "none"
  /\ asked = "none" /\ autoWrites = 0
  /\ lastAuto = [age |-> Never, here |-> FALSE]

PollStep == PollReadCable \/ PollReadRegister \/ PollFails \/ PollDecide \/ PollPublish
TaskStep ==
  SwitchStart \/ RestoreStart \/ RestoreDecide \/ Land \/ WriteOk \/ WriteFails \/ TaskEnds
UserStep == (\E request \in UserRequests : RequestPhase(request)) \/ SetMode

Next == Tick \/ PlugOrUnplug \/ PollStep \/ TaskStep \/ UserStep

Spec == Init /\ [][Next]_vars
-----------------------------------------------------------------------------
(* Properties *)

(* Two automatic switches are never closer together than the cooldown or,  *)
(* when the session changed in between and its counters were forgotten,    *)
(* than the time the new target had to be stable: tasks that outlive their *)
(* session, failed attempts and a target that changes do not shorten it.   *)
AutomaticSwitchesAreSpaced ==
  [][ step = "writing" /\ step' = "landed" /\ task.kind = "automatic" =>
        \/ lastAuto.age = Never
        \/ lastAuto.age >= IF lastAuto.here THEN Cooldown ELSE StableTime(task.target)
    ]_vars

(* The charger's contactors: a session sees at most one automatic switch   *)
(* more than its limit, though a switch whose answer is lost is carried    *)
(* out without being counted.                                              *)
AutomaticSwitchesAreBounded == autoWrites <= MaxSwitches + 1

(* docs/behavior_contract.md: a new session is restored to 3P only when    *)
(* "there is no explicit temporary phase session override": no scheduled   *)
(* restore undoes a 1P that was asked for and acknowledged in the session. *)
ExplicitRequestIsKept ==
  [][ step = "writing" /\ step' = "landed" /\ task.kind = "restore" => asked = "none" ]_vars

(* The program's fairness: time passes, polls and the phase task go on,    *)
(* and the reads of a poll do not fail for ever.                           *)
ReadFully   == PollReadRegister /\ sees'.raw = register
DecideFully == PollDecide /\ sees.raw # "none"

Fairness ==
  /\ WF_vars(Tick) /\ WF_vars(PollStep) /\ WF_vars(TaskStep)
  /\ SF_vars(ReadFully) /\ SF_vars(DecideFully) /\ SF_vars(PollPublish)
FairSpec == Spec /\ Fairness

(* ... and neither do the writes of register 405.                          *)
WritingSpec == FairSpec /\ SF_vars(Land) /\ SF_vars(WriteOk)

(* restore_pending blocks the Solar policy, so it may not stay for ever.   *)
RestorePendingClears == []<>~restorePending

(* A vehicle that stays connected, with the user and the Solar policy at   *)
(* rest, does not stay on one phase unnoticed: either it is brought back   *)
(* to three, or the diagnostics show a session override.                   *)
Quiet == plugged /\ task.kind \in {"none", "restore"} /\ mode = "normal"
NoSilentOnePhase == <>[]Quiet => <>[](register = "3P" \/ override = "1P")

(* docs/behavior_contract.md: "No automatic recovery loop that repeatedly  *)
(* writes register `405`": the restores of a vehicle that stays connected  *)
(* end.                                                                    *)
RestoreBegins == step = "reading" /\ step' = "writing" /\ task.kind = "restore"
NoRestoreLoop == <>[]Quiet => <>[][~RestoreBegins]_vars
=============================================================================
