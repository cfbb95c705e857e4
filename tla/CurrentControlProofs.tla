------------------------ MODULE CurrentControlProofs ------------------------
(***************************************************************************)
(* Proofs about CurrentControl for every configuration, sensor, vehicle    *)
(* and time: the types, the fallback and the validation of its inputs      *)
(* agree, an urgent reduction waits for one poll at most and any other     *)
(* mismatch for a bounded time, every current that is written can be       *)
(* charged with and keeps the limits, and Eco Solar neither skips its      *)
(* start delay nor shortens its pause nor outlasts the dark.               *)
(***************************************************************************)
EXTENDS CurrentControl, SolarEngineProofs

-----------------------------------------------------------------------------
(* The fallback needs invalid inputs.                                      *)

(* The phases the DlbEngine uses are among those ControlInputReader        *)
(* requires, whatever the vehicle draws.                                   *)
LEMMA UsedAreRequired ==
  ASSUME NEW c, NEW wallbox
  PROVE  UsedPhases(c, wallbox.draw) \subseteq Required(c, wallbox)
BY DEF UsedPhases, Required, Active

(* Valid inputs give a valid result.                                       *)
LEMMA ValidInputsSuffice ==
  ASSUME NEW c, NEW wallbox, NEW house,
         DlbInputsValid(c, house, wallbox)
  PROVE  DlbResult(c, TRUE, house, wallbox.draw).valid
BY UsedAreRequired DEF DlbInputsValid, DlbResult, Fallback, Unlimited

(* evaluate falls back only on invalid inputs.                             *)
LEMMA FallbackIsInvalid ==
  ASSUME NEW c, NEW mode, NEW strategy, NEW wallbox, NEW house, NEW power,
         NEW observed, NEW st, NEW ws, NEW d,
         Evaluate(c, mode, strategy, wallbox, house, power, observed, st, ws, d).decision.fallback
  PROVE  ~DlbInputsValid(c, house, wallbox)
<1>1. CASE mode = "off"
  BY <1>1 DEF Evaluate, NoDecision
<1>2. CASE mode # "off"
  <2> DEFINE dlb == DlbResult(c, DlbInputsValid(c, house, wallbox), house, wallbox.draw)
  <2>1. Evaluate(c, mode, strategy, wallbox, house, power, observed, st, ws, d).decision.fallback
          = ~dlb.valid
    BY <1>2 DEF Evaluate, NoDecision
  <2>2. SUFFICES ASSUME DlbInputsValid(c, house, wallbox) PROVE FALSE
    OBVIOUS
  <2>3. DlbInputsValid(c, house, wallbox) = TRUE
    BY <2>2 DEF DlbInputsValid
  <2> QED
    BY <2>1, <2>2, <2>3, ValidInputsSuffice
<1> QED
  BY <1>1, <1>2

(* A decision is a record, so that a guard which sets should_write leaves  *)
(* the rest of it as it is.                                                *)
Fields == {"reason", "enabled", "target", "by", "fallback", "write"}
LEMMA DecisionFields ==
  ASSUME NEW c, NEW mode, NEW strategy, NEW wallbox, NEW house, NEW power,
         NEW observed, NEW st, NEW ws, NEW d
  PROVE  DOMAIN Evaluate(c, mode, strategy, wallbox, house, power, observed, st, ws, d).decision
           = Fields
BY DEF Evaluate, NoDecision, Fields

LEMMA GuardsKeepFallback ==
  ASSUME NEW c, NEW g, NEW mode, NEW wallbox, NEW valid, NEW ready, NEW dec, NEW scheduled,
         DOMAIN dec = Fields
  PROVE  Guarded(c, g, mode, wallbox, valid, ready, dec, scheduled).decision.fallback = dec.fallback
BY DEF Guarded, Fields

-----------------------------------------------------------------------------
(* What a poll does, by name.                                              *)

ResultOf(in, wallbox, d) ==
  Evaluate(Config, in.mode, in.strategy, wallbox, in.house, in.power, in.phases.phases,
           in.solar, in.write, d)
GuardedOf(in, wallbox, attempt, d) ==
  Guarded(Config, in.guards, in.mode, wallbox, in.valid, InputReady(Config, in, wallbox),
          ResultOf(in, wallbox, d).decision, attempt = "scheduled")
OrderedOf(in, wallbox, attempt, d) ==
  Ordered(in.mode, wallbox, GuardedOf(in, wallbox, attempt, d).decision, attempt = "scheduled")

LEMMA PollConcludes ==
  ASSUME NEW d, NEW vehicle, NEW limits, NEW house, NEW sun, NEW attempt,
         Poll(d, vehicle, limits, house, sun, attempt),
         NEW wallbox, wallbox = Wallbox(vehicle, limits),
         NEW in, in = Seen(d, wallbox, house, sun)
  PROVE  Concluded(Config, wallbox, in, ResultOf(in, wallbox, d),
                   GuardedOf(in, wallbox, attempt, d), OrderedOf(in, wallbox, attempt, d),
                   attempt, d)
<1> DEFINE Writes(c, box, inn, res, gua) ==
             \E ord \in {Ordered(inn.mode, box, gua.decision, attempt = "scheduled")} :
               Concluded(c, box, inn, res, gua, ord, attempt, d)
           Guards(c, box, inn, res) ==
             \E gua \in {Guarded(c, inn.guards, inn.mode, box, inn.valid, InputReady(c, inn, box),
                                res.decision, attempt = "scheduled")} :
               Writes(c, box, inn, res, gua)
           Decides(c, box, inn) ==
             \E res \in {Evaluate(c, inn.mode, inn.strategy, box, inn.house, inn.power,
                                 inn.phases.phases, inn.solar, inn.write, d)} :
               Guards(c, box, inn, res)
<1>1. PICK c \in {Config}, box \in {Wallbox(vehicle, limits)} :
        \E inn \in {Seen(d, box, house, sun)} : Decides(c, box, inn)
  BY DEF Poll
<1>2. PICK inn \in {Seen(d, box, house, sun)} : Decides(c, box, inn)
  BY <1>1
<1>3. PICK res \in {Evaluate(c, inn.mode, inn.strategy, box, inn.house, inn.power,
                            inn.phases.phases, inn.solar, inn.write, d)} :
        Guards(c, box, inn, res)
  BY <1>2
<1>4. PICK gua \in {Guarded(c, inn.guards, inn.mode, box, inn.valid, InputReady(c, inn, box),
                           res.decision, attempt = "scheduled")} :
        Writes(c, box, inn, res, gua)
  BY <1>3
<1>5. PICK ord \in {Ordered(inn.mode, box, gua.decision, attempt = "scheduled")} :
        Concluded(c, box, inn, res, gua, ord, attempt, d)
  BY <1>4
<1>6. c = Config /\ box = wallbox
  OBVIOUS
<1>7. inn = in
  BY <1>6
<1>8. res = ResultOf(in, wallbox, d)
  BY <1>6, <1>7 DEF ResultOf
<1>9. gua = GuardedOf(in, wallbox, attempt, d)
  BY <1>6, <1>7, <1>8 DEF GuardedOf
<1>10. ord = OrderedOf(in, wallbox, attempt, d)
  BY <1>6, <1>7, <1>9 DEF OrderedOf
<1> QED
  BY <1>5, <1>6, <1>7, <1>8, <1>9, <1>10

LEMMA GuardsKeepDecision ==
  ASSUME NEW in, NEW wallbox, NEW attempt, NEW d
  PROVE  GuardedOf(in, wallbox, attempt, d).decision.fallback
           = ResultOf(in, wallbox, d).decision.fallback
<1>1. DOMAIN ResultOf(in, wallbox, d).decision = Fields
  BY DecisionFields DEF ResultOf
<1> QED
  BY <1>1, GuardsKeepFallback DEF GuardedOf

(* FallbackOnlyWithoutSensors: every poll keeps it, and only polls decide. *)
THEOREM FallbackSafety == Spec => []FallbackOnlyWithoutSensors
<1>1. Init => FallbackOnlyWithoutSensors
  BY DEF Init, FallbackOnlyWithoutSensors
<1>2. FallbackOnlyWithoutSensors /\ [Next]_vars => FallbackOnlyWithoutSensors'
  <2> SUFFICES ASSUME FallbackOnlyWithoutSensors, [Next]_vars
               PROVE  FallbackOnlyWithoutSensors'
    OBVIOUS
  <2>1. CASE SomePoll
    <3>1. PICK d \in World.gaps, vehicle \in Vehicles, limits \in World.limits,
               house \in World.houses, sun \in World.suns, attempt \in World.attempts :
            Poll(d, vehicle, limits, house, sun, attempt)
      BY <2>1 DEF SomePoll
    <3> DEFINE wallbox == Wallbox(vehicle, limits)
               in      == Seen(d, wallbox, house, sun)
    <3>2. /\ decision'.fallback = GuardedOf(in, wallbox, attempt, d).decision.fallback
          /\ decision'.valid = in.valid
      <4>1. Concluded(Config, wallbox, in, ResultOf(in, wallbox, d),
                      GuardedOf(in, wallbox, attempt, d), OrderedOf(in, wallbox, attempt, d),
                      attempt, d)
        BY <3>1, PollConcludes
      <4> HIDE DEF wallbox, in
      <4> QED
        BY <4>1 DEF Concluded
    <3>3. in.valid = DlbInputsValid(Config, in.house, wallbox)
      BY DEF Seen
    <3> HIDE DEF wallbox, in
    <3>4. GuardedOf(in, wallbox, attempt, d).decision.fallback
            = ResultOf(in, wallbox, d).decision.fallback
      BY GuardsKeepDecision
    <3>5. ResultOf(in, wallbox, d).decision.fallback => ~in.valid
      BY <3>3, FallbackIsInvalid DEF ResultOf
    <3> QED
      BY <3>2, <3>4, <3>5 DEF FallbackOnlyWithoutSensors
  <2>2. CASE ~SomePoll
    <3>1. UNCHANGED decision
      BY <2>2 DEF Next, UserActs, SetMode, PauseOrResume, SetUntilUnplug, SetMaxCurrent,
                  SetFixedCurrent, PlugOrUnplug, ChargerFallsBack, vars
    <3> QED
      BY <3>1 DEF FallbackOnlyWithoutSensors
  <2> QED
    BY <2>1, <2>2
<1> QED
  BY <1>1, <1>2, PTL DEF Spec

-----------------------------------------------------------------------------
(* Types.  The site is well formed, and so is the configuration that the   *)
(* options and the user's currents make.                                   *)

LEMMA CurrentsType ==
  ASSUME NEW i \in Currents
  PROVE  i \in Nat /\ i > 0 /\ \E n \in Nat : i = 1000 * n
<1>1. PICK n \in 6..32 : i = 1000 * n
  BY DEF Currents, Ampere
<1>2. n \in Nat /\ i \in Nat /\ i > 0
  BY <1>1
<1> QED
  BY <1>1, <1>2

ControlStates ==
  [mode : Modes, strategy : Strategies, paused : BOOLEAN,
   until : {"none", "solar", "fixed"}, max : Nat, fixed : Nat]

LEMMA ConfigType ==
  ASSUME site \in Sites, control \in ControlStates
  PROVE  /\ SolarConfig(Config) /\ Config.fixed \in Nat /\ Config.strategy \in Strategies
         /\ Config.startup \in Modes
         /\ Config.min = site.config.min /\ Config.scope = site.config.scope
         /\ Config.startDelay = site.config.startDelay /\ Config.minPause = site.config.minPause
         /\ Config.override \in Strategies \cup {"inherit"}
         /\ Config.stopDelay = site.config.stopDelay /\ Config.minRuntime = site.config.minRuntime
         /\ Config.minPause <= LongAgo /\ Config.startDelay <= LongAgo
         /\ Config.stopDelay <= LongAgo /\ Config.minRuntime <= LongAgo
         /\ Config.stop <= Config.start
<1>1. site.config \in Configs /\ site.config.stop <= site.config.start
  BY SiteAssumption DEF Configurable, SolarInOrder
<1>3. /\ site.config.min \in Nat /\ site.config.safe \in Nat /\ site.config.solarMin \in Nat
  BY <1>1, CurrentsType DEF Configs
<1>4. control.max \in Nat /\ control.fixed \in Nat
  BY DEF ControlStates
<1>5. /\ Config.max = control.max /\ Config.fixed = control.fixed
      /\ Config.min = site.config.min /\ Config.safe = site.config.safe
      /\ Config.solarMin = site.config.solarMin /\ Config.scope = site.config.scope
      /\ Config.startDelay = site.config.startDelay /\ Config.minPause = site.config.minPause
      /\ Config.strategy = site.config.strategy /\ Config.startup = site.config.startup
      /\ Config.override = site.config.override
      /\ Config.stopDelay = site.config.stopDelay /\ Config.minRuntime = site.config.minRuntime
      /\ Config.start = site.config.start /\ Config.stop = site.config.stop
  BY <1>1 DEF Config, Configs
<1>6. /\ Config.fuse \in Nat /\ Config.margin \in Nat /\ Config.start \in Nat
      /\ Config.stop \in Nat /\ Config.installed \in {1, 3}
      /\ Config.smoothing \in Nat \ {0} /\ Config.deadband = 150 /\ Config.ramp = 2000
      /\ {Config.startDelay, Config.stopDelay, Config.minRuntime, Config.minPause} \subseteq Delays
      /\ Config.strategy \in Strategies /\ Config.startup \in Modes
      /\ Config.override \in Strategies \cup {"inherit"}
  BY <1>1 DEF Config, Configs, Ampere, Strategies
<1>7. {Config.startDelay, Config.stopDelay, Config.minRuntime, Config.minPause} \subseteq Nat
      /\ Config.minPause <= LongAgo /\ Config.startDelay <= LongAgo
      /\ Config.stopDelay <= LongAgo /\ Config.minRuntime <= LongAgo
  BY <1>6, GrainAssumption DEF Delays
<1> HIDE DEF Config
<1> QED
  BY <1>1, <1>3, <1>4, <1>5, <1>6, <1>7 DEF SolarConfig, LimitsConfig

(* The write decider.                                                      *)
LEMMA NoWriteType == NoWrite \in WriteStates
BY TimeAssumption DEF NoWrite, WriteStates, Maybe, StableCycles

LEMMA WriteLaterType ==
  ASSUME NEW ws \in WriteStates, NEW d \in Nat
  PROVE  WriteLater(ws, d) \in WriteStates /\ WriteLater(ws, d).last = ws.last
<1>1. Lower(ws.since + d, MinBetween) \in 0..MinBetween
  BY TimeAssumption DEF WriteStates, Lower
<1>2. (IF ws.age = None THEN None ELSE Lower(ws.age + d, PendingMaxAge)) \in Maybe(0..PendingMaxAge)
  BY TimeAssumption DEF WriteStates, Lower, Maybe
<1> QED
  BY <1>1, <1>2 DEF WriteLater, WriteStates

LEMMA CyclesType ==
  /\ 0 \in 0..StableCycles /\ 1 \in 0..StableCycles /\ StableCycles \in 0..StableCycles
BY DEF StableCycles
LEMMA MaybeType ==
  ASSUME NEW S
  PROVE  None \in Maybe(S) /\ \A x \in S : x \in Maybe(S)
BY DEF Maybe

LEMMA NoPendingType ==
  ASSUME NEW ws \in WriteStates
  PROVE  NoPending(ws) \in WriteStates
BY CyclesType, MaybeType DEF NoPending, WriteStates

LEMMA WrittenType ==
  ASSUME NEW ws \in WriteStates, NEW amps \in Nat
  PROVE  Written(ws, amps) \in WriteStates
<1>1. NoPending(ws) \in WriteStates
  BY NoPendingType
<1>2. Ampere * amps \in Maybe(Nat)
  BY DEF Ampere, Maybe
<1>3. 0 \in 0..MinBetween
  BY TimeAssumption
<1> HIDE DEF NoPending
<1> QED
  BY <1>1, <1>2, <1>3 DEF Written, WriteStates

LEMMA WaitingType ==
  ASSUME NEW ws \in WriteStates
  PROVE  Waiting(ws) \in WriteStates
<1>1. 0 \in 0..PendingMaxAge
  BY TimeAssumption
<1> QED
  BY <1>1 DEF Waiting, WriteStates, Maybe

LEMMA TrackedType ==
  ASSUME NEW ws \in WriteStates, NEW target \in Nat
  PROVE  Tracked(ws, target) \in WriteStates
<1> DEFINE w == Waiting(ws)
<1>1. w \in WriteStates
  BY WaitingType
<1> HIDE DEF w
<1>2. Lower(w.cycles + 1, StableCycles) \in 0..StableCycles
  BY <1>1 DEF WriteStates, Lower, StableCycles
<1>3. [w EXCEPT !.cycles = Lower(@ + 1, StableCycles)] \in WriteStates
  BY <1>1, <1>2 DEF WriteStates
<1>4. [w EXCEPT !.target = target, !.cycles = 1] \in WriteStates
  BY <1>1, CyclesType, MaybeType DEF WriteStates
<1> QED
  BY <1>3, <1>4 DEF Tracked, w

(* An urgent reduction below the last written current is written at once,  *)
(* whatever was pending, unless the charger has it already.                *)
LEMMA ShouldWriteType ==
  ASSUME NEW ws \in WriteStates, NEW target \in Nat, NEW reported \in Nat, NEW immediate
  PROVE  /\ ShouldWrite(ws, target, reported, immediate).ws \in WriteStates
         /\ ShouldWrite(ws, target, reported, immediate).write \in BOOLEAN
         /\ immediate /\ ws.last # None /\ target < ws.last /\ ~(Distance(target, reported) < Ampere)
              => ShouldWrite(ws, target, reported, immediate).write
<1> DEFINE lower == immediate /\ ws.last # None /\ target < ws.last
           next  == Tracked(ws, target)
           now   == /\ ws.since >= MinBetween
                    /\ next.cycles >= StableCycles \/ next.age >= PendingMaxAge
           near  == Distance(target, reported) < Ampere
           hasty == [Waiting(ws) EXCEPT !.target = target, !.cycles = StableCycles]
           ripe  == [next EXCEPT !.cycles = StableCycles]
           result == ShouldWrite(ws, target, reported, immediate)
<1>1. next \in WriteStates
  BY TrackedType
<1>2. hasty \in WriteStates
  BY WaitingType, CyclesType, MaybeType DEF WriteStates
<1>3. ripe \in WriteStates
  BY <1>1 DEF WriteStates, StableCycles
<1>4. result = IF near THEN [ws |-> NoPending(ws), write |-> FALSE]
               ELSE IF lower THEN [ws |-> hasty, write |-> TRUE]
               ELSE [ws |-> IF now THEN ripe ELSE next, write |-> now]
  BY DEF ShouldWrite
<1> HIDE DEF result, ripe, hasty, next, near
<1>5. now \in BOOLEAN
  OBVIOUS
<1> HIDE DEF now
<1>6. result.ws \in WriteStates /\ result.write \in BOOLEAN
  BY <1>1, <1>2, <1>3, <1>4, <1>5, NoPendingType
<1>7. lower /\ ~near => result.write
  BY <1>4
<1> QED
  BY <1>6, <1>7 DEF result, near

(* How long a target has been pending; never for longer than the throttle  *)
(* has run: a write resets both.                                           *)
Pending(ws) == IF ws.age = None THEN 0 ELSE ws.age
Orderly(ws) == ws.age # None => Lower(ws.age, MinBetween) <= ws.since

(* What becomes of ws in a decision: an amperage that differs from the     *)
(* register goes on waiting, and is written once it has waited long enough.*)
Decides(ws, next, sends, differs) ==
  /\ Orderly(ws) => Orderly(next)
  /\ differs => /\ next.age = Pending(ws)
                /\ Pending(ws) >= PendingMaxAge /\ ws.since >= MinBetween => sends

LEMMA OrderlyLater ==
  ASSUME NEW ws \in WriteStates, Orderly(ws), NEW d \in Nat
  PROVE  Orderly(WriteLater(ws, d))
<1>1. PICK since : since = Lower(ws.since + d, MinBetween)
  OBVIOUS
<1>2. PICK age : age = IF ws.age = None THEN None ELSE Lower(ws.age + d, PendingMaxAge)
  OBVIOUS
<1>3. WriteLater(ws, d).since = since /\ WriteLater(ws, d).age = age
  BY <1>1, <1>2 DEF WriteLater, WriteStates
<1>4. age # None => Lower(age, MinBetween) <= since
  BY <1>1, <1>2, TimeAssumption DEF Orderly, Lower, WriteStates, Maybe
<1> QED
  BY <1>3, <1>4 DEF Orderly

LEMMA FreshIsOrderly ==
  /\ Orderly(NoWrite)
  /\ \A ws \in WriteStates :
       Orderly(NoPending(ws)) /\ \A amps : Orderly(Written(ws, amps))
BY DEF Orderly, NoWrite, NoPending, Written, WriteStates

LEMMA TrackedWaits ==
  ASSUME NEW ws \in WriteStates, NEW target
  PROVE  /\ Waiting(ws).age = Pending(ws) /\ Waiting(ws).since = ws.since
         /\ Tracked(ws, target).age = Pending(ws) /\ Tracked(ws, target).since = ws.since
<1> DEFINE w == Waiting(ws)
<1>1. w \in WriteStates /\ w.age = Pending(ws) /\ w.since = ws.since
  BY WaitingType DEF Waiting, WriteStates, Pending
<1> HIDE DEF w
<1>2. /\ [w EXCEPT !.cycles = Lower(@ + 1, StableCycles)].age = w.age
      /\ [w EXCEPT !.cycles = Lower(@ + 1, StableCycles)].since = w.since
      /\ [w EXCEPT !.target = target, !.cycles = 1].age = w.age
      /\ [w EXCEPT !.target = target, !.cycles = 1].since = w.since
  BY <1>1 DEF WriteStates
<1>3. Tracked(ws, target) = IF w.target = target THEN [w EXCEPT !.cycles = Lower(@ + 1, StableCycles)]
                            ELSE [w EXCEPT !.target = target, !.cycles = 1]
  BY DEF Tracked, w
<1> QED
  BY <1>1, <1>2, <1>3 DEF w

LEMMA PendingIsOrderly ==
  ASSUME NEW ws \in WriteStates, Orderly(ws), NEW next, next.age = Pending(ws),
         next.since = ws.since
  PROVE  Orderly(next)
BY TimeAssumption DEF Orderly, Pending, Lower, WriteStates, Maybe

LEMMA ShouldWriteDecides ==
  ASSUME NEW ws \in WriteStates, NEW target \in Nat, NEW reported \in Nat, NEW immediate,
         NEW result, result = ShouldWrite(ws, target, reported, immediate)
  PROVE  Decides(ws, result.ws, result.write, ~(Distance(target, reported) < Ampere))
<1> DEFINE lower == immediate /\ ws.last # None /\ target < ws.last
           next  == Tracked(ws, target)
           now   == /\ ws.since >= MinBetween
                    /\ next.cycles >= StableCycles \/ next.age >= PendingMaxAge
           near  == Distance(target, reported) < Ampere
           hasty == [Waiting(ws) EXCEPT !.target = target, !.cycles = StableCycles]
           ripe  == [next EXCEPT !.cycles = StableCycles]
           waits(w) == w.age = Pending(ws) /\ w.since = ws.since
<1>1. next \in WriteStates /\ waits(next)
  BY TrackedType, TrackedWaits
<1>2. waits(hasty)
  BY WaitingType, TrackedWaits DEF WriteStates
<1> HIDE DEF next
<1>3. waits(ripe)
  BY <1>1 DEF WriteStates
<1>4. result = IF near THEN [ws |-> NoPending(ws), write |-> FALSE]
               ELSE IF lower THEN [ws |-> hasty, write |-> TRUE]
               ELSE [ws |-> IF now THEN ripe ELSE next, write |-> now]
  BY DEF ShouldWrite, next
<1> HIDE DEF ripe, hasty, near, lower
<1>5. CASE near
  <2>1. result.ws = NoPending(ws)
    BY <1>4, <1>5
  <2> QED
    BY <1>5, <2>1, FreshIsOrderly DEF Decides, near
<1>6. CASE ~near
  <2>1. waits(result.ws)
    BY <1>1, <1>2, <1>3, <1>4, <1>6
  <2>2. Orderly(ws) => Orderly(result.ws)
    BY <2>1, PendingIsOrderly
  <2>3. Pending(ws) >= PendingMaxAge /\ ws.since >= MinBetween => result.write
    BY <1>1, <1>4, <1>6
  <2> QED
    BY <2>1, <2>2, <2>3 DEF Decides
<1> QED
  BY <1>5, <1>6

-----------------------------------------------------------------------------
(* The decision.                                                           *)

Decisions ==
  [reason : Reasons, enabled : BOOLEAN, target : Maybe(Nat), by : Limiters \cup {"none"},
   fallback : BOOLEAN, write : BOOLEAN]
ControlWallbox(wallbox) ==
  /\ SolarWallbox(wallbox) /\ wallbox.register \in Nat
  /\ wallbox.connected \in BOOLEAN /\ wallbox.charging \in BOOLEAN

(* What evaluate computes on its way, by name.                             *)
Wish(c, mode, strategy, wallbox, power, observed, st, d) ==
  ModeTarget(c, mode, strategy, IF mode = "solar" THEN st ELSE Inactive, power, wallbox,
             observed, d)
Dlb(c, house, wallbox) == DlbResult(c, DlbInputsValid(c, house, wallbox), house, wallbox.draw)
RampedTo(c, ws, wallbox, wish, combined) ==
  Ramped(c, combined.target, Baseline(wish.solar, ws.last, Ampere * wallbox.register))
Target(c, mode, combined, ramped) ==
  IF mode # "solar" \/ combined.target = None THEN combined.target ELSE Tenths(ramped)
Urgent(dec) == dec.fallback \/ dec.by \in Limiters

EvaluatesTo(c, mode, ws, wallbox, wish, dlb, combined, ramped, target, result) ==
  LET verdict == ShouldWrite(ws, target, Ampere * wallbox.register, Urgent(result.decision))
  IN  /\ result.solar = IF mode = "solar" THEN [wish.solar EXCEPT !.lastTarget = ramped]
                        ELSE wish.solar
      /\ result.decision.target = target /\ result.decision.by = combined.by
      /\ result.decision.fallback = ~dlb.valid
      /\ target = None =>
           /\ result.write = ws /\ result.decision.enabled = FALSE
           /\ result.decision.write = FALSE
           /\ result.decision.reason \in {"sensor_unavailable", "below_min_current"}
      /\ target # None =>
           /\ result.write = verdict.ws /\ result.decision.enabled = TRUE
           /\ result.decision.write = verdict.write
           /\ result.decision.reason = Reason(~dlb.valid, combined.by, wish.reason)

LEMMA EvaluateByName ==
  ASSUME NEW c, NEW mode, mode # "off", NEW strategy, NEW wallbox, NEW house, NEW power,
         NEW observed, NEW st, NEW ws, NEW d,
         NEW wish, wish = Wish(c, mode, strategy, wallbox, power, observed, st, d),
         NEW dlb, dlb = Dlb(c, house, wallbox),
         NEW combined, combined = CombineLimits(c, wallbox, wish.target, dlb.limit),
         NEW ramped, ramped = RampedTo(c, ws, wallbox, wish, combined),
         NEW target, target = Target(c, mode, combined, ramped),
         NEW result, result = Evaluate(c, mode, strategy, wallbox, house, power, observed, st, ws, d)
  PROVE  EvaluatesTo(c, mode, ws, wallbox, wish, dlb, combined, ramped, target, result)
<1> DEFINE next == IF mode = "solar" THEN [wish.solar EXCEPT !.lastTarget = ramped]
                   ELSE wish.solar
           fallback == ~dlb.valid
           verdict == ShouldWrite(ws, target, Ampere * wallbox.register,
                                  fallback \/ combined.by \in Limiters)
           nothing == [reason |-> IF wish.reason = "sensor_unavailable" THEN "sensor_unavailable"
                                  ELSE "below_min_current",
                       enabled |-> FALSE, target |-> None, by |-> combined.by,
                       fallback |-> fallback, write |-> FALSE]
           something == [reason |-> Reason(fallback, combined.by, wish.reason),
                         enabled |-> TRUE, target |-> target, by |-> combined.by,
                         fallback |-> fallback, write |-> verdict.write]
<1>0. next = IF mode = "solar" THEN [wish.solar EXCEPT !.lastTarget = ramped] ELSE wish.solar
  OBVIOUS
<1>1. CASE target = None
  <2>1. result = [solar |-> next, write |-> ws, decision |-> nothing]
    BY <1>1 DEF Evaluate, Wish, Dlb, RampedTo, Target, NoDecision
  <2> HIDE DEF next, fallback
  <2>2. result.solar = next /\ result.write = ws /\ result.decision = nothing
    BY <2>1
  <2>3. /\ nothing.target = target /\ nothing.by = combined.by /\ nothing.fallback = fallback
        /\ nothing.enabled = FALSE /\ nothing.write = FALSE
        /\ nothing.reason \in {"sensor_unavailable", "below_min_current"}
    BY <1>1
  <2> HIDE DEF nothing
  <2> QED
    BY <1>0, <1>1, <2>2, <2>3 DEF fallback, EvaluatesTo
<1>2. CASE target # None
  <2>1. result = [solar |-> next, write |-> verdict.ws, decision |-> something]
    BY <1>2 DEF Evaluate, Wish, Dlb, RampedTo, Target
  <2> HIDE DEF next, fallback, verdict
  <2>2. result.solar = next /\ result.write = verdict.ws /\ result.decision = something
    BY <2>1
  <2>3. /\ something.target = target /\ something.by = combined.by
        /\ something.fallback = fallback /\ something.enabled = TRUE
        /\ something.write = verdict.write
        /\ something.reason = Reason(fallback, combined.by, wish.reason)
    OBVIOUS
  <2> HIDE DEF something
  <2>4. Urgent(result.decision) = (fallback \/ combined.by \in Limiters)
    BY <2>2, <2>3 DEF Urgent
  <2>5. verdict = ShouldWrite(ws, target, Ampere * wallbox.register, Urgent(result.decision))
    BY <2>4 DEF verdict
  <2> QED
    BY <1>0, <1>2, <2>2, <2>3, <2>5 DEF fallback, EvaluatesTo
<1> QED
  BY <1>1, <1>2

LEMMA EvaluateOff ==
  ASSUME NEW c, NEW strategy, NEW wallbox, NEW house, NEW power, NEW observed, NEW st, NEW ws,
         NEW d,
         NEW result, result = Evaluate(c, "off", strategy, wallbox, house, power, observed, st, ws, d)
  PROVE  /\ result.solar = Inactive /\ result.write = NoPending(ws)
         /\ result.decision =
              [reason |-> "off_mode", enabled |-> FALSE, target |-> 0, by |-> "none",
               fallback |-> FALSE, write |-> wallbox.connected \/ wallbox.charging]
BY DEF Evaluate, NoDecision

(* A Solar mode asks the engine, the others do not keep its state.         *)
LEMMA WishType ==
  ASSUME NEW c, SolarConfig(c), c.fixed \in Nat, NEW mode, NEW strategy,
         NEW wallbox, ControlWallbox(wallbox), NEW power \in Powers, NEW observed,
         NEW st \in SolarStates, NEW d \in Nat,
         NEW wish, wish = Wish(c, mode, strategy, wallbox, power, observed, st, d)
  PROVE  /\ wish.solar \in SolarStates /\ wish.target \in Maybe(Nat) /\ wish.reason \in Reasons
         /\ mode # "solar" => wish.solar = Inactive
         /\ mode = "solar" =>
              LET volts == VoltageSum(SolarPhases(c, mode, strategy, wallbox, observed), wallbox.volts)
              IN  /\ strategy = "eco" => EcoStandsStill(st, wish) \/ EcoGoesOn(c, st, wish, volts)
                  /\ strategy # "eco" => TimersKept(st, wish.solar)
<1>1. CASE mode = "solar"
  <2> DEFINE volts == VoltageSum(SolarPhases(c, mode, strategy, wallbox, observed), wallbox.volts)
             surplus == Surplus(c, power, wallbox)
  <2>1. volts \in Nat \ {0}
    BY VoltageSumIsPositive
  <2>2. surplus \in Maybe(Nat)
    BY SurplusType DEF ControlWallbox
  <2>3. wish = Solar(c, st, strategy, surplus, volts, d)
    BY <1>1 DEF Wish, ModeTarget
  <2> HIDE DEF volts, surplus
  <2>4. /\ wish \in Results
        /\ strategy = "eco" => EcoStandsStill(st, wish) \/ EcoGoesOn(c, st, wish, volts)
        /\ strategy # "eco" => TimersKept(st, wish.solar)
    BY <2>1, <2>2, <2>3, SolarType
  <2> QED
    BY <1>1, <2>4 DEF Results, Reasons, volts
<1>2. CASE mode # "solar"
  <2>1. wish \in {[solar |-> Inactive, target |-> c.fixed, reason |-> "fixed_current_mode"],
                  [solar |-> Inactive, target |-> c.max, reason |-> "normal_mode"]}
    BY <1>2 DEF Wish, ModeTarget
  <2>2. c.max \in Nat
    BY DEF SolarConfig, LimitsConfig
  <2> QED
    BY <1>2, <2>1, <2>2, InactiveType, MaybeType DEF Reasons
<1> QED
  BY <1>1, <1>2

LEMMA DlbType ==
  ASSUME NEW c, SolarConfig(c), NEW wallbox, ControlWallbox(wallbox),
         NEW house \in [Phases -> Maybe(Int)]
  PROVE  Dlb(c, house, wallbox) \in [limit : Maybe(Nat), valid : BOOLEAN]
BY DlbResultType DEF Dlb, SolarConfig, ControlWallbox, SolarWallbox, LimitsWallbox

LEMMA ReasonType ==
  ASSUME NEW fallback, NEW by \in Limiters \cup {"none"}, NEW modeReason \in Reasons
  PROVE  Reason(fallback, by, modeReason) \in Reasons
BY DEF Reason, Reasons

(* The target and how it comes about; in amperes it is at least the        *)
(* configured minimum, and without the ramp of the Solar modes also that   *)
(* of the charger.                                                         *)
TargetFacts(c, mode, wallbox, wish, combined, ramped, target) ==
  /\ combined \in [target : Maybe(Nat), by : Limiters \cup {"none"}]
  /\ ramped \in Maybe(Nat) /\ target \in Maybe(Nat)
  /\ target # None => wish.target # None
  /\ mode = "solar" => (ramped = None <=> target = None)
  /\ \A n \in Nat : target # None /\ c.min = 1000 * n => Amperes(target) >= n
  /\ \A n \in Nat : target # None /\ mode # "solar" /\ Minimum(c, wallbox) >= 1000 * n =>
       Amperes(target) >= n

LEMMA TargetType ==
  ASSUME NEW c, SolarConfig(c), NEW mode, NEW ws \in WriteStates,
         NEW wallbox, ControlWallbox(wallbox), NEW wish, wish.solar \in SolarStates,
         wish.target \in Maybe(Nat), NEW limit \in Maybe(Nat),
         NEW combined, combined = CombineLimits(c, wallbox, wish.target, limit),
         NEW ramped, ramped = RampedTo(c, ws, wallbox, wish, combined),
         NEW target, target = Target(c, mode, combined, ramped)
  PROVE  TargetFacts(c, mode, wallbox, wish, combined, ramped, target)
<1>1. /\ LimitsConfig(c) /\ LimitsWallbox(wallbox) /\ Ampere * wallbox.register \in Nat
      /\ c.min \in Nat
  BY DEF SolarConfig, LimitsConfig, ControlWallbox, SolarWallbox, Ampere
<1>2. combined \in [target : Maybe(Nat), by : Limiters \cup {"none"}]
  BY <1>1, CombineLimitsType DEF Limiters
<1>3. Baseline(wish.solar, ws.last, Ampere * wallbox.register) \in Nat
  BY <1>1, BaselineType DEF WriteStates
<1>4. /\ ramped \in Maybe(Nat)
      /\ combined.target = None <=> ramped = None
      /\ combined.target # None /\ combined.target >= c.min => ramped >= c.min
  BY <1>2, <1>3, RampedType DEF RampedTo
<1>5. CASE combined.target = None
  <2>1. target = None /\ ramped = None
    BY <1>4, <1>5 DEF Target
  <2> QED
    BY <1>2, <1>4, <1>5, <2>1, MaybeType DEF TargetFacts
<1>6. CASE combined.target # None
  <2>1. combined.target \in Nat /\ ramped \in Nat
    BY <1>2, <1>4, <1>6 DEF Maybe
  <2>2. Tenths(ramped) \in Nat
    BY <2>1, TenthsNear
  <2>3. target \in Nat /\ target # None
    BY <1>6, <2>1, <2>2, NoneIsNoInt DEF Target
  <2>4. wish.target # None
    BY <1>6 DEF CombineLimits
  <2>5. \A n \in Nat : Minimum(c, wallbox) >= 1000 * n => Amperes(combined.target) >= n
    BY <1>1, <1>6, TargetWithinLimits
  <2>6. ASSUME NEW n \in Nat, c.min = 1000 * n
        PROVE  Amperes(target) >= n
    <3> DEFINE m == 10 * n
    <3>1. c.min = 100 * m /\ m \in Int
      BY <2>6
    <3> HIDE DEF m
    <3>2. combined.target >= c.min
      <4> DEFINE low == Tightest(c, wallbox, wish.target, limit)
      <4>1. wish.target \in Nat
        BY <2>4 DEF Maybe
      <4>2. low.amps \in Nat
        BY <1>1, <4>1, TightestIsLowest
      <4> HIDE DEF low
      <4>3. combined.target = Tenths(low.amps) /\ ~(low.amps < Minimum(c, wallbox))
        BY <1>6, <2>4 DEF CombineLimits, low
      <4>4. Minimum(c, wallbox) >= c.min /\ Minimum(c, wallbox) \in Nat
        BY <1>1 DEF Minimum, Higher, LimitsWallbox
      <4>5. low.amps >= 100 * m
        BY <1>1, <3>1, <4>2, <4>3, <4>4
      <4>6. Tenths(low.amps) >= 100 * m
        BY <3>1, <4>2, <4>5, TenthsKeepOrder
      <4> QED
        BY <3>1, <4>3, <4>6
    <3>3. ramped >= 100 * m
      BY <1>4, <1>6, <3>1, <3>2
    <3>4. Tenths(ramped) >= 100 * m
      BY <2>1, <3>1, <3>3, TenthsKeepOrder
    <3>5. target >= 100 * m
      BY <3>1, <3>2, <3>4 DEF Target
    <3>6. target >= 1000 * n
      BY <2>6, <3>1, <3>5
    <3> QED
      BY <2>3, <3>6, AmperesKeepOrder
  <2>7. mode # "solar" => target = combined.target
    BY DEF Target
  <2>8. mode = "solar" => (ramped = None <=> target = None)
    BY <2>1, <2>3, NoneIsNoInt
  <2> QED
    BY <1>2, <1>4, <1>6, <2>3, <2>4, <2>5, <2>6, <2>7, <2>8, MaybeType DEF TargetFacts
<1> QED
  BY <1>5, <1>6

(* What a decision says of the strategy's result: without a target nothing *)
(* is written, without the strategy's there is none, a target keeps the    *)
(* minimum, and an urgent reduction below the last write wants to be       *)
(* written at once.                                                        *)
Differs(dec, wallbox) ==
  dec.enabled /\ ~(Distance(dec.target, Ampere * wallbox.register) < Ampere)
EvaluateFacts(c, mode, wallbox, ws, wish, result, dec) ==
  /\ result.solar \in SolarStates /\ result.write \in WriteStates
  /\ DOMAIN dec = Fields /\ dec \in Decisions
  /\ mode # "solar" => result.solar = Inactive
  /\ mode = "solar" => /\ TimersKept(wish.solar, result.solar)
                       /\ result.solar.filtered = wish.solar.filtered
                       /\ result.solar.lastTarget = None <=> dec.target = None
  /\ dec.enabled <=> dec.target # None
  /\ dec.target = None => ~dec.write
  /\ wish.target = None => dec.target = None
  /\ \A n \in Nat : dec.target # None /\ c.min = 1000 * n => Amperes(dec.target) >= n
  /\ \A n \in Nat : dec.target # None /\ mode # "solar" /\ Minimum(c, wallbox) >= 1000 * n =>
       Amperes(dec.target) >= n
  /\ /\ dec.enabled /\ Urgent(dec) /\ ws.last # None /\ dec.target < ws.last
     /\ ~(Distance(dec.target, Ampere * wallbox.register) < Ampere)
     => dec.write
  /\ Decides(ws, result.write, dec.write, Differs(dec, wallbox))
  /\ dec.target = None => dec.reason \in {"sensor_unavailable", "below_min_current"}

LEMMA EvaluateType ==
  ASSUME NEW c, SolarConfig(c), c.fixed \in Nat, NEW mode, mode # "off", NEW strategy,
         NEW wallbox, ControlWallbox(wallbox), NEW house \in [Phases -> Maybe(Int)],
         NEW power \in Powers, NEW observed, NEW st \in SolarStates, NEW ws \in WriteStates,
         NEW d \in Nat,
         NEW wish, wish = Wish(c, mode, strategy, wallbox, power, observed, st, d),
         NEW result, result = Evaluate(c, mode, strategy, wallbox, house, power, observed, st, ws, d),
         NEW dec, dec = result.decision
  PROVE  EvaluateFacts(c, mode, wallbox, ws, wish, result, dec)
<1>a. PICK dlb : dlb = Dlb(c, house, wallbox)
  OBVIOUS
<1>b. PICK combined : combined = CombineLimits(c, wallbox, wish.target, dlb.limit)
  OBVIOUS
<1>c. PICK ramped : ramped = RampedTo(c, ws, wallbox, wish, combined)
  OBVIOUS
<1>d. PICK target : target = Target(c, mode, combined, ramped)
  OBVIOUS
<1>e. PICK verdict : verdict = ShouldWrite(ws, target, Ampere * wallbox.register, Urgent(dec))
  OBVIOUS
<1>1. /\ wish.solar \in SolarStates /\ wish.target \in Maybe(Nat) /\ wish.reason \in Reasons
      /\ mode # "solar" => wish.solar = Inactive
  BY WishType
<1>2. dlb \in [limit : Maybe(Nat), valid : BOOLEAN]
  BY <1>a, DlbType
<1>3. dlb.limit \in Maybe(Nat) /\ dlb.valid \in BOOLEAN
  BY <1>2
<1>f. TargetFacts(c, mode, wallbox, wish, combined, ramped, target)
  BY <1>1, <1>3, <1>b, <1>c, <1>d, TargetType
<1>4. /\ combined \in [target : Maybe(Nat), by : Limiters \cup {"none"}]
      /\ ramped \in Maybe(Nat) /\ target \in Maybe(Nat)
      /\ target # None => wish.target # None
      /\ mode = "solar" => (ramped = None <=> target = None)
  BY <1>f DEF TargetFacts
<1>g. EvaluatesTo(c, mode, ws, wallbox, wish, dlb, combined, ramped, target, result)
  BY <1>a, <1>b, <1>c, <1>d, EvaluateByName
<1>5. /\ result.solar = IF mode = "solar" THEN [wish.solar EXCEPT !.lastTarget = ramped]
                        ELSE wish.solar
      /\ dec.target = target /\ dec.by = combined.by /\ dec.fallback = ~dlb.valid
      /\ target = None =>
           /\ result.write = ws /\ dec.enabled = FALSE /\ dec.write = FALSE
           /\ dec.reason \in {"sensor_unavailable", "below_min_current"}
      /\ target # None =>
           /\ result.write = verdict.ws /\ dec.enabled = TRUE /\ dec.write = verdict.write
           /\ dec.reason = Reason(~dlb.valid, combined.by, wish.reason)
  BY <1>e, <1>g DEF EvaluatesTo
<1>6. DOMAIN dec = Fields
  BY DecisionFields
<1>7. Ampere * wallbox.register \in Nat
  BY DEF ControlWallbox, Ampere
<1>8. target # None =>
        /\ verdict.ws \in WriteStates /\ verdict.write \in BOOLEAN
        /\ /\ Urgent(dec) /\ ws.last # None /\ target < ws.last
           /\ ~(Distance(target, Ampere * wallbox.register) < Ampere)
           => verdict.write
  BY <1>4, <1>7, <1>e, ShouldWriteType DEF Maybe
<1>18. Decides(ws, result.write, dec.write, Differs(dec, wallbox))
  <2>1. CASE target = None
    BY <1>5, <2>1 DEF Decides, Differs
  <2>2. CASE target # None
    <3>1. Decides(ws, verdict.ws, verdict.write,
                  ~(Distance(target, Ampere * wallbox.register) < Ampere))
      BY <1>4, <1>7, <1>e, <2>2, ShouldWriteDecides DEF Maybe
    <3>2. /\ dec.target = target /\ result.write = verdict.ws /\ dec.enabled = TRUE
          /\ dec.write = verdict.write
      BY <1>5, <2>2
    <3>3. Differs(dec, wallbox) = ~(Distance(target, Ampere * wallbox.register) < Ampere)
      BY <3>2 DEF Differs
    <3> QED
      BY <3>1, <3>2, <3>3
  <2> QED
    BY <2>1, <2>2
<1>9. result.solar \in SolarStates
  BY <1>1, <1>4, <1>5 DEF SolarStates
<1>10. mode = "solar" => /\ TimersKept(wish.solar, result.solar)
                         /\ result.solar.filtered = wish.solar.filtered
                         /\ result.solar.lastTarget = ramped
  BY <1>1, <1>5 DEF TimersKept, SolarStates
<1>11. result.write \in WriteStates
  BY <1>5, <1>8
<1>12. dec.enabled \in BOOLEAN /\ dec.write \in BOOLEAN /\ dec.fallback \in BOOLEAN
  BY <1>3, <1>5, <1>8
<1>13. dec.reason \in Reasons
  <2>1. CASE target = None
    BY <1>5, <2>1 DEF Reasons
  <2>2. CASE target # None
    BY <1>1, <1>4, <1>5, <2>2, ReasonType
  <2> QED
    BY <2>1, <2>2
<1>14. dec.target \in Maybe(Nat) /\ dec.by \in Limiters \cup {"none"}
  BY <1>4, <1>5
<1>15. dec = [reason |-> dec.reason, enabled |-> dec.enabled, target |-> dec.target,
              by |-> dec.by, fallback |-> dec.fallback, write |-> dec.write]
  <2>1. CASE target = None
    BY <1>a, <1>b, <1>c, <1>d, <2>1 DEF Evaluate, NoDecision, Wish, Dlb, RampedTo, Target
  <2>2. CASE target # None
    BY <1>a, <1>b, <1>c, <1>d, <2>2 DEF Evaluate, NoDecision, Wish, Dlb, RampedTo, Target
  <2> QED
    BY <2>1, <2>2
<1>16. dec \in Decisions
  BY <1>12, <1>13, <1>14, <1>15 DEF Decisions
<1>17. dec.enabled <=> dec.target # None
  BY <1>5
<1> QED
  <2>1. /\ \A n \in Nat : dec.target # None /\ c.min = 1000 * n => Amperes(dec.target) >= n
        /\ \A n \in Nat : dec.target # None /\ mode # "solar" /\ Minimum(c, wallbox) >= 1000 * n =>
             Amperes(dec.target) >= n
    BY <1>5, <1>f DEF TargetFacts
  <2> QED
    BY <1>1, <1>4, <1>5, <1>6, <1>8, <1>9, <1>10, <1>11, <1>16, <1>17, <1>18, <2>1
       DEF EvaluateFacts

-----------------------------------------------------------------------------
(* The guards.                                                             *)

LEMMA GuardNumbers ==
  /\ 0 \in 0..ConfirmSamples /\ 0 \in 0..StartupPolls /\ 0 \in 0..StartupTime
  /\ -1 \in -1..DlbGuardTime /\ -1 \in -1..SolarGuardTime
  /\ DlbGuardTime \in -1..DlbGuardTime /\ SolarGuardTime \in -1..SolarGuardTime
BY TimeAssumption DEF ConfirmSamples, StartupPolls

LEMMA NoGuardsType == NoGuards \in GuardStates
BY GuardNumbers DEF NoGuards, GuardStates

LEMMA RefreshedType ==
  ASSUME NEW g \in GuardStates, NEW d \in Nat
  PROVE  /\ Refreshed(GuardsLater(g, d)) \in GuardStates
         /\ Refreshed(GuardsLater(g, d)).charging = g.charging
         /\ Refreshed(GuardsLater(g, d)).dlbSamples = g.dlbSamples
<1> DEFINE later == GuardsLater(g, d)
<1>1. /\ Lower(g.since + d, StartupTime) \in 0..StartupTime
      /\ Higher(g.dlbLeft - d, -1) \in -1..DlbGuardTime
      /\ Higher(g.solarLeft - d, -1) \in -1..SolarGuardTime
  BY TimeAssumption DEF GuardStates, Lower, Higher
<1>2. later \in GuardStates /\ later.charging = g.charging /\ later.dlbSamples = g.dlbSamples
  BY <1>1 DEF GuardsLater, GuardStates
<1> HIDE DEF later
<1>3. Lower(later.polls + 1, StartupPolls) \in 0..StartupPolls
  BY <1>2 DEF GuardStates, Lower, StartupPolls
<1>4. Refreshed(later) = [later EXCEPT !.polls = Lower(@ + 1, StartupPolls)]
  BY DEF Refreshed
<1>5. /\ Refreshed(later) \in GuardStates
      /\ Refreshed(later).charging = later.charging
      /\ Refreshed(later).dlbSamples = later.dlbSamples
  BY <1>2, <1>3, <1>4 DEF GuardStates
<1> QED
  BY <1>2, <1>5 DEF later

(* What the DLB guard takes back it has counted, in a charging session     *)
(* that had no sample yet.                                                 *)
Held(g, wallbox, next) ==
  /\ wallbox.charging /\ next.dlbSamples = 1
  /\ ~(g.charging /\ g.dlbSamples > 0)

LEMMA DlbGuardType ==
  ASSUME NEW c, NEW g \in GuardStates, NEW wallbox, NEW dec, dec.write \in BOOLEAN,
         NEW result, result = DlbGuard(c, g, wallbox, dec)
  PROVE  /\ result.guards \in GuardStates /\ result.write \in BOOLEAN
         /\ result.write => dec.write
         /\ dec.write /\ ~result.write => Held(g, wallbox, result.guards)
<1> DEFINE restarted == [g EXCEPT !.dlbLeft = DlbGuardTime, !.dlbSamples = 0]
<1>1. PICK begun : begun = IF Started(g, wallbox) THEN restarted ELSE g
  OBVIOUS
<1>2. PICK samples : samples = Lower(begun.dlbSamples + 1, ConfirmSamples)
  OBVIOUS
<1>3. restarted \in GuardStates /\ restarted.dlbSamples = 0
  BY GuardNumbers DEF GuardStates
<1>4. begun \in GuardStates
  BY <1>1, <1>3
<1>5. /\ begun.dlbSamples \in Nat /\ samples \in 0..ConfirmSamples /\ samples >= 1
      /\ samples < ConfirmSamples => begun.dlbSamples = 0 /\ samples = 1
  BY <1>2, <1>4 DEF GuardStates, Lower, ConfirmSamples
<1> DEFINE idle == [g EXCEPT !.dlbLeft = -1, !.dlbSamples = 0]
           calm == [begun EXCEPT !.dlbSamples = 0]
           counted == [begun EXCEPT !.dlbSamples = samples]
<1>6. {idle, calm, counted} \subseteq GuardStates /\ counted.dlbSamples = samples
  BY <1>4, <1>5, GuardNumbers DEF GuardStates
<1>7. \/ result = [guards |-> idle, write |-> dec.write]
      \/ result = [guards |-> calm, write |-> dec.write]
      \/ result = [guards |-> begun, write |-> dec.write]
      \/ wallbox.charging /\ result = [guards |-> counted, write |-> samples >= ConfirmSamples]
           /\ dec.write
  BY <1>1, <1>2 DEF DlbGuard
<1> HIDE DEF idle, calm, counted, restarted
<1>8. CASE result \in {[guards |-> next, write |-> dec.write] : next \in {idle, calm, begun}}
  <2>1. PICK next \in {idle, calm, begun} : result = [guards |-> next, write |-> dec.write]
    BY <1>8
  <2>2. result.guards = next /\ result.write = dec.write
    BY <2>1
  <2> QED
    BY <1>4, <1>6, <2>2
<1>9. CASE wallbox.charging /\ result = [guards |-> counted, write |-> samples >= ConfirmSamples]
             /\ dec.write
  <2>1. result.guards = counted /\ result.write = (samples >= ConfirmSamples)
    BY <1>9
  <2>2. ~result.write => samples = 1 /\ begun.dlbSamples = 0
    <3>1. ~(samples >= ConfirmSamples) => samples < ConfirmSamples
      BY <1>5 DEF ConfirmSamples
    <3>2. ~result.write => ~(samples >= ConfirmSamples)
      BY <2>1
    <3> QED
      BY <1>5, <3>1, <3>2
  <2>3. g.charging /\ wallbox.charging => begun = g
    BY <1>1 DEF Started
  <2>4. ~result.write => Held(g, wallbox, counted)
    BY <1>6, <1>9, <2>2, <2>3 DEF Held
  <2>5. result.write \in BOOLEAN
    BY <2>1
  <2> QED
    BY <1>6, <1>9, <2>1, <2>4, <2>5
<1> QED
  BY <1>7, <1>8, <1>9

LEMMA SolarGuardType ==
  ASSUME NEW g \in GuardStates, NEW mode, NEW wallbox, NEW dec, dec.write \in BOOLEAN,
         NEW inputReady, NEW result, result = SolarGuard(g, mode, wallbox, dec, inputReady)
  PROVE  /\ result.guards \in GuardStates /\ result.write \in BOOLEAN
         /\ result.guards.dlbSamples = g.dlbSamples
         /\ result.write => dec.write
         /\ dec.enabled => result.write = dec.write
<1> DEFINE restarted == [g EXCEPT !.solarLeft = SolarGuardTime, !.solarSamples = 0]
<1>1. PICK begun : begun = IF Started(g, wallbox) THEN restarted ELSE g
  OBVIOUS
<1>2. PICK samples : samples = Lower(begun.solarSamples + 1, ConfirmSamples)
  OBVIOUS
<1>3. restarted \in GuardStates /\ restarted.dlbSamples = g.dlbSamples
  BY GuardNumbers DEF GuardStates
<1>4. begun \in GuardStates /\ begun.dlbSamples = g.dlbSamples
  BY <1>1, <1>3
<1>5. samples \in 0..ConfirmSamples
  BY <1>2, <1>4 DEF GuardStates, Lower, ConfirmSamples
<1> DEFINE idle == [g EXCEPT !.solarLeft = -1, !.solarSamples = 0]
           calm == [begun EXCEPT !.solarSamples = 0]
           counted == [begun EXCEPT !.solarSamples = samples]
<1>6. /\ {idle, calm, counted} \subseteq GuardStates
      /\ \A next \in {idle, calm, counted} : next.dlbSamples = g.dlbSamples
  BY <1>4, <1>5, GuardNumbers DEF GuardStates
<1>7. \/ result = [guards |-> idle, write |-> dec.write]
      \/ result = [guards |-> calm, write |-> dec.write]
      \/ result = [guards |-> begun, write |-> dec.write]
      \/ /\ result = [guards |-> counted, write |-> samples >= ConfirmSamples]
         /\ dec.write /\ ~dec.enabled
  BY <1>1, <1>2 DEF SolarGuard
<1> HIDE DEF idle, calm, counted, restarted
<1>8. CASE result \in {[guards |-> next, write |-> dec.write] : next \in {idle, calm, begun}}
  <2>1. PICK next \in {idle, calm, begun} : result = [guards |-> next, write |-> dec.write]
    BY <1>8
  <2>2. result.guards = next /\ result.write = dec.write
    BY <2>1
  <2> QED
    BY <1>4, <1>6, <2>2
<1>9. CASE /\ result = [guards |-> counted, write |-> samples >= ConfirmSamples]
           /\ dec.write /\ ~dec.enabled
  <2>1. result.guards = counted /\ result.write = (samples >= ConfirmSamples)
    BY <1>9
  <2>2. result.write \in BOOLEAN
    BY <2>1
  <2> QED
    BY <1>6, <1>9, <2>1, <2>2
<1> QED
  BY <1>7, <1>8, <1>9

(* Together: the guards only take a write back, and one of a target only   *)
(* for a phase task, the startup deferral or the DLB guard's sample.       *)
LEMMA GuardedType ==
  ASSUME NEW c, NEW g \in GuardStates, NEW mode, NEW wallbox, wallbox.charging \in BOOLEAN,
         NEW valid, NEW inputReady, NEW dec \in Decisions, NEW scheduled,
         NEW result, result = Guarded(c, g, mode, wallbox, valid, inputReady, dec, scheduled)
  PROVE  /\ result.guards \in GuardStates /\ result.guards.charging = wallbox.charging
         /\ result.decision \in Decisions
         /\ result.decision = [dec EXCEPT !.write = result.decision.write]
         /\ result.decision.write => dec.write
         /\ /\ dec.enabled /\ dec.write /\ ~result.decision.write
            /\ ~scheduled /\ ~Deferred(c, g, wallbox, valid, dec)
            => Held(g, wallbox, result.guards)
<1>1. PICK first : first = [dec EXCEPT !.write =
                              @ /\ ~scheduled /\ ~Deferred(c, g, wallbox, valid, dec)]
  OBVIOUS
<1>2. PICK afterDlb : afterDlb = DlbGuard(c, g, wallbox, first)
  OBVIOUS
<1>3. PICK second : second = [first EXCEPT !.write = afterDlb.write]
  OBVIOUS
<1>4. PICK afterSolar : afterSolar = SolarGuard(afterDlb.guards, mode, wallbox, second, inputReady)
  OBVIOUS
<1>5. /\ first.write = (dec.write /\ ~scheduled /\ ~Deferred(c, g, wallbox, valid, dec))
      /\ first \in Decisions
  BY <1>1 DEF Decisions
<1>6. first.write \in BOOLEAN
  BY <1>5 DEF Decisions
<1>7. /\ afterDlb.guards \in GuardStates /\ afterDlb.write \in BOOLEAN
      /\ afterDlb.write => first.write
      /\ first.write /\ ~afterDlb.write => Held(g, wallbox, afterDlb.guards)
  BY <1>2, <1>6, DlbGuardType
<1>8. /\ second \in Decisions /\ second.write = afterDlb.write /\ second.enabled = dec.enabled
  BY <1>1, <1>3, <1>5, <1>7 DEF Decisions
<1>9. /\ afterSolar.guards \in GuardStates /\ afterSolar.write \in BOOLEAN
      /\ afterSolar.guards.dlbSamples = afterDlb.guards.dlbSamples
      /\ afterSolar.write => second.write
      /\ second.enabled => afterSolar.write = second.write
  BY <1>4, <1>7, <1>8, SolarGuardType
<1>10. /\ result.guards = [afterSolar.guards EXCEPT !.charging = wallbox.charging]
       /\ result.decision = [second EXCEPT !.write = afterSolar.write]
  BY <1>1, <1>2, <1>3, <1>4 DEF Guarded
<1>11. /\ result.guards \in GuardStates /\ result.guards.charging = wallbox.charging
       /\ result.guards.dlbSamples = afterDlb.guards.dlbSamples
  BY <1>9, <1>10 DEF GuardStates
<1>12. result.decision \in Decisions /\ result.decision.write = afterSolar.write
  BY <1>8, <1>9, <1>10 DEF Decisions
<1>13. result.decision = [dec EXCEPT !.write = result.decision.write]
  BY <1>1, <1>3, <1>10, <1>12 DEF Decisions
<1>14. result.decision.write => dec.write
  BY <1>5, <1>7, <1>8, <1>9, <1>12
<1>15. ASSUME dec.enabled, dec.write, ~result.decision.write, ~scheduled,
              ~Deferred(c, g, wallbox, valid, dec)
       PROVE  Held(g, wallbox, result.guards)
  <2>1. first.write /\ ~afterDlb.write
    BY <1>5, <1>8, <1>9, <1>12, <1>15
  <2> QED
    BY <1>7, <1>11, <2>1 DEF Held
<1> QED
  BY <1>11, <1>12, <1>13, <1>14, <1>15

-----------------------------------------------------------------------------
(* What a poll reads.                                                      *)

(* The parts of the state a poll keeps from the last one.                  *)
PollStates ==
  /\ site \in Sites /\ plugged \in BOOLEAN /\ register \in Nat /\ control \in ControlStates
  /\ session \in [known : BOOLEAN, connected : BOOLEAN, seen : Observations]
  /\ solar \in SolarStates /\ write \in WriteStates /\ guards \in GuardStates

LEMMA WorldType ==
  ASSUME site \in Sites
  PROVE  /\ World \in Worlds
         /\ World.gaps \subseteq Nat \ {0} /\ World.houses \subseteq [Phases -> States]
         /\ World.suns \subseteq Meters /\ World.attempts \subseteq Attempts
         /\ World.ownLimits \subseteq Nat /\ World.settings \subseteq Nat
         /\ World.choices \subseteq Modes \X Maybe(Strategies)
         /\ World.untils \subseteq {"solar", "fixed"}
         /\ World.vehicles \subseteq [draw : Draws, charging : BOOLEAN]
         /\ World.volts \in [Phases -> Maybe(Int)]
         /\ World.hardwareMin \in Nat /\ \E n \in Nat : World.hardwareMin = 1000 * n
         /\ \A limits \in World.limits : limits.cable \in Maybe(Nat) /\ limits.ev \in Maybe(Nat)
<1>1. World \in Worlds
  BY SiteAssumption DEF World
<1>2. World.hardwareMin \in {Ampere * i : i \in 0..32}
  BY <1>1 DEF Worlds
<1>3. PICK n \in 0..32 : World.hardwareMin = 1000 * n
  BY <1>2 DEF Ampere
<1>4. n \in Nat /\ World.hardwareMin \in Nat
  BY <1>3
<1> HIDE DEF World
<1> QED
  BY <1>1, <1>3, <1>4 DEF Worlds, Draws, Meters

LEMMA WallboxType ==
  ASSUME site \in Sites, plugged \in BOOLEAN, register \in Nat,
         NEW vehicle \in Vehicles, NEW limits \in World.limits,
         NEW wallbox, wallbox = Wallbox(vehicle, limits)
  PROVE  /\ ControlWallbox(wallbox) /\ wallbox.register = register
         /\ wallbox.connected = plugged /\ wallbox.hardwareMin = World.hardwareMin
<1>1. vehicle.draw \in Draws /\ vehicle.charging \in BOOLEAN
  <2>1. AtRest \in [draw : Draws, charging : BOOLEAN]
    BY DEF AtRest, Draws
  <2>2. World.vehicles \subseteq [draw : Draws, charging : BOOLEAN]
    BY WorldType
  <2> HIDE DEF World, AtRest
  <2>3. vehicle \in [draw : Draws, charging : BOOLEAN]
    BY <2>1, <2>2 DEF Vehicles
  <2> QED
    BY <2>3
<1> DEFINE draw == vehicle.draw
           power == (draw[1] * PhaseVoltage(World.volts[1])
                     + draw[2] * PhaseVoltage(World.volts[2])
                     + draw[3] * PhaseVoltage(World.volts[3])) \div 1000
           charging == vehicle.charging \/ power > 100 \/ Largest(draw) > 500
<1>2. power \in Int
  <2>1. draw[1] \in Nat /\ draw[2] \in Nat /\ draw[3] \in Nat
    BY <1>1 DEF Draws, Phases
  <2>2. PICK u \in 180..260 : u = PhaseVoltage(World.volts[1])
    BY PhaseVoltageInRange
  <2>3. PICK v \in 180..260, w \in 180..260 :
          v = PhaseVoltage(World.volts[2]) /\ w = PhaseVoltage(World.volts[3])
    BY PhaseVoltageInRange
  <2>4. draw[1] * u + draw[2] * v + draw[3] * w \in Int
    BY <2>1
  <2>5. power = (draw[1] * u + draw[2] * v + draw[3] * w) \div 1000
    BY <2>2, <2>3
  <2> QED
    BY <2>4, <2>5
<1> HIDE DEF power
<1>3. charging \in BOOLEAN
  OBVIOUS
<1> HIDE DEF charging
<1>4. wallbox = [connected |-> plugged, draw |-> draw, power |-> power, volts |-> World.volts,
                 charging |-> charging, switch |-> limits.switch, register |-> register,
                 hardwareMin |-> World.hardwareMin, cableMax |-> limits.cable,
                 evMax |-> limits.ev]
  BY DEF Wallbox, power, charging
<1>5. /\ wallbox.connected = plugged /\ wallbox.draw = draw /\ wallbox.power = power
      /\ wallbox.charging = charging /\ wallbox.register = register
      /\ wallbox.hardwareMin = World.hardwareMin /\ wallbox.cableMax = limits.cable
      /\ wallbox.evMax = limits.ev
  BY <1>4
<1>6. World.hardwareMin \in Nat /\ limits.cable \in Maybe(Nat) /\ limits.ev \in Maybe(Nat)
  BY WorldType
<1> QED
  BY <1>1, <1>2, <1>3, <1>5, <1>6 DEF ControlWallbox, SolarWallbox, LimitsWallbox

LEMMA ObservedType ==
  ASSUME NEW seen \in Observations, NEW wallbox
  PROVE  Observed(seen, wallbox) \in Observations
BY DEF Observed, Observations, NothingSeen, Maybe

LEMMA DefaultType ==
  ASSUME site \in Sites, control \in ControlStates
  PROVE  Default(control, Config) \in ControlStates
<1>1. StartupMode(Config) \in Modes /\ Config.strategy \in Strategies
  BY ConfigType DEF StartupMode, Modes
<1> HIDE DEF StartupMode, Config
<1> QED
  BY <1>1 DEF Default, ControlStates

Inputs(in, d) ==
  /\ in.control \in ControlStates /\ in.phases \in Observations
  /\ in.guards \in GuardStates
  /\ in.guards.charging = guards.charging /\ in.guards.dlbSamples = guards.dlbSamples
  /\ in.write \in WriteStates
  /\ \/ in.write = WriteLater(write, d)
     \/ in.write = NoWrite /\ ~session.connected
  /\ in.solar \in SolarStates
  /\ \/ in.solar = Later(solar, d)
     \/ in.solar = Inactive /\ session.connected /\ ~plugged
  /\ in.house \in [Phases -> Maybe(Int)] /\ in.power \in Powers

LEMMA SeenType ==
  ASSUME PollStates, NEW d \in World.gaps, NEW wallbox, NEW house \in World.houses,
         NEW sun \in World.suns, NEW in, in = Seen(d, wallbox, house, sun)
  PROVE  Inputs(in, d)
<1>1. d \in Nat /\ house \in [Phases -> States] /\ sun \in Meters
  BY WorldType DEF PollStates
<1> DEFINE ends   == session.known /\ session.connected /\ ~plugged
           begins == session.known /\ ~session.connected /\ plugged
<1>2. in.control = (IF ends THEN Default(control, Config) ELSE control)
  BY DEF Seen
<1>3. in.phases = Observed(IF begins \/ ends THEN NothingSeen ELSE session.seen, wallbox)
  BY DEF Seen
<1>4. in.guards = Refreshed(GuardsLater(guards, d))
  BY DEF Seen
<1>5. in.write = IF begins THEN NoWrite ELSE WriteLater(write, d)
  BY DEF Seen
<1>6. in.solar = IF ends THEN Inactive ELSE Later(solar, d)
  BY DEF Seen
<1>7. in.house = HouseCurrents(Config, house) /\ in.power = SolarInput(Config, sun)
  BY DEF Seen
<1>8. in.control \in ControlStates
  BY <1>2, DefaultType DEF PollStates
<1>9. in.phases \in Observations
  <2>1. NothingSeen \in Observations
    BY DEF NothingSeen, Observations, Maybe
  <2> QED
    BY <1>3, <2>1, ObservedType DEF PollStates
<1>10. /\ in.guards \in GuardStates
       /\ in.guards.charging = guards.charging /\ in.guards.dlbSamples = guards.dlbSamples
  BY <1>1, <1>4, RefreshedType DEF PollStates
<1>11. in.write \in WriteStates
  BY <1>1, <1>5, NoWriteType, WriteLaterType DEF PollStates
<1>12. in.solar \in SolarStates
  BY <1>1, <1>6, InactiveType, LaterType DEF PollStates
<1>13. in.house \in [Phases -> Maybe(Int)] /\ in.power \in Powers
  BY <1>1, <1>7, HouseCurrentsType, SolarInputType
<1> QED
  BY <1>5, <1>6, <1>8, <1>9, <1>10, <1>11, <1>12, <1>13 DEF Inputs

-----------------------------------------------------------------------------
(* A poll keeps the types.  Off writes 0 A, and every other write has a    *)
(* target.                                                                 *)

LEMMA OffType ==
  ASSUME NEW c, NEW strategy, NEW wallbox, ControlWallbox(wallbox), NEW house, NEW power,
         NEW observed, NEW st, NEW ws \in WriteStates, NEW d,
         NEW result, result = Evaluate(c, "off", strategy, wallbox, house, power, observed, st, ws, d)
  PROVE  /\ result.solar = Inactive /\ result.solar \in SolarStates
         /\ result.write \in WriteStates
         /\ result.decision \in Decisions /\ result.decision.target = 0
         /\ ~result.decision.enabled /\ result.decision.reason = "off_mode"
         /\ Decides(ws, result.write, result.decision.write, Differs(result.decision, wallbox))
<1> DEFINE dec == [reason |-> "off_mode", enabled |-> FALSE, target |-> 0, by |-> "none",
                   fallback |-> FALSE, write |-> wallbox.connected \/ wallbox.charging]
<1>1. result.solar = Inactive /\ result.write = NoPending(ws) /\ result.decision = dec
  BY EvaluateOff
<1>2. (wallbox.connected \/ wallbox.charging) \in BOOLEAN
  OBVIOUS
<1>3. "off_mode" \in Reasons /\ "none" \in Limiters \cup {"none"} /\ 0 \in Maybe(Nat)
  BY MaybeType DEF Reasons
<1>4. dec \in Decisions /\ dec.target = 0 /\ dec.enabled = FALSE /\ dec.reason = "off_mode"
  BY <1>2, <1>3 DEF Decisions
<1>5. Decides(ws, result.write, dec.write, Differs(dec, wallbox))
  BY <1>1, FreshIsOrderly DEF Decides, Differs
<1> HIDE DEF dec
<1> QED
  BY <1>1, <1>4, <1>5, InactiveType, NoPendingType

(* How the Solar state goes on, in terms of the target of the decision.    *)
VoltsOf(in, wallbox) ==
  VoltageSum(SolarPhases(Config, in.mode, in.strategy, wallbox, in.phases.phases), wallbox.volts)
Bright(c, next, volts) ==
  next.filtered # None /\ ~(next.filtered < Threshold(c, c.start, volts))
Dim(c, next, volts) ==
  next.filtered # None /\ next.filtered < Threshold(c, c.stop, volts)
SolarFollows(c, mode, strategy, st, next, target, volts) ==
  LET waited == IF st.startFor = None THEN 0 ELSE st.startFor
  IN  /\ mode # "solar" => next = Inactive
      /\ mode = "solar" /\ strategy # "eco" => TimersKept(st, next)
      /\ mode = "solar" /\ strategy = "eco" =>
           /\ next.startFor # None => Bright(c, next, volts) /\ next.startFor = waited
           /\ next.active /\ ~st.active =>
                /\ Bright(c, next, volts) /\ waited >= c.startDelay
                /\ ~(st.sinceStop < c.minPause)
           /\ ~next.active /\ st.active => next.sinceStop = 0
           /\ next.active = st.active \/ next.active => next.sinceStop = st.sinceStop
           /\ target # None => next.active
           /\ Dim(c, next, volts) /\ st.active /\ next.active => FadesOut(c, st, next)

LEMMA EvaluateFollows ==
  ASSUME NEW c, SolarConfig(c), c.fixed \in Nat, NEW mode, NEW strategy,
         NEW wallbox, ControlWallbox(wallbox), NEW power \in Powers, NEW observed,
         NEW st \in SolarStates, NEW ws, NEW d \in Nat,
         NEW wish, wish = Wish(c, mode, strategy, wallbox, power, observed, st, d),
         NEW result, NEW dec, EvaluateFacts(c, mode, wallbox, ws, wish, result, dec),
         NEW volts,
         volts = VoltageSum(SolarPhases(c, mode, strategy, wallbox, observed), wallbox.volts)
  PROVE  SolarFollows(c, mode, strategy, st, result.solar, dec.target, volts)
<1>1. CASE mode # "solar"
  BY <1>1 DEF EvaluateFacts, SolarFollows
<1>2. CASE mode = "solar"
  <2>1. /\ strategy = "eco" => EcoStandsStill(st, wish) \/ EcoGoesOn(c, st, wish, volts)
        /\ strategy # "eco" => TimersKept(st, wish.solar)
    BY <1>2, WishType
  <2>2. /\ TimersKept(wish.solar, result.solar)
        /\ result.solar.filtered = wish.solar.filtered
        /\ wish.target = None => dec.target = None
    BY <1>2 DEF EvaluateFacts
  <2>3. CASE strategy # "eco"
    BY <1>2, <2>1, <2>2, <2>3 DEF SolarFollows, TimersKept
  <2>4. CASE strategy = "eco" /\ EcoStandsStill(st, wish)
    BY <1>2, <2>2, <2>4 DEF SolarFollows, TimersKept, EcoStandsStill, Dim
  <2>5. CASE strategy = "eco" /\ EcoGoesOn(c, st, wish, volts)
    BY <1>2, <2>2, <2>5 DEF SolarFollows, TimersKept, EcoGoesOn, Bright, Dim, FadesOut
  <2> QED
    BY <2>1, <2>3, <2>4, <2>5
<1> QED
  BY <1>1, <1>2

(* What evaluate returns for a poll.                                       *)
ResultFacts(in, wallbox, result, dec) ==
  /\ result.solar \in SolarStates /\ result.write \in WriteStates
  /\ dec \in Decisions
  /\ dec.write => dec.target # None
  /\ dec.enabled => dec.target # None /\ in.mode # "off"
  /\ in.mode = "off" => dec.target = 0
  /\ SolarFollows(Config, in.mode, in.strategy, in.solar, result.solar, dec.target,
                  VoltsOf(in, wallbox))
  /\ in.mode = "solar" => (result.solar.lastTarget = None <=> dec.target = None)
  /\ \A n \in Nat : dec.target # None /\ in.mode # "off" /\ Config.min = 1000 * n =>
       Amperes(dec.target) >= n
  /\ \A n \in Nat : /\ dec.target # None /\ in.mode \notin {"off", "solar"}
                     /\ Minimum(Config, wallbox) >= 1000 * n => Amperes(dec.target) >= n
  /\ /\ dec.enabled /\ Urgent(dec) /\ in.write.last # None /\ dec.target < in.write.last
     /\ ~(Distance(dec.target, Ampere * wallbox.register) < Ampere)
     => dec.write
  /\ Decides(in.write, result.write, dec.write, Differs(dec, wallbox))
  /\ in.mode = "solar" /\ dec.target = None =>
       ~dec.enabled /\ dec.reason \in {"sensor_unavailable", "below_min_current"}

LEMMA ResultType ==
  ASSUME PollStates, NEW d \in Nat, NEW in, Inputs(in, d), NEW wallbox, ControlWallbox(wallbox),
         NEW result, result = ResultOf(in, wallbox, d), NEW dec, dec = result.decision
  PROVE  ResultFacts(in, wallbox, result, dec)
<1>1. SolarConfig(Config) /\ Config.fixed \in Nat
  BY ConfigType DEF PollStates
<1>2. /\ in.house \in [Phases -> Maybe(Int)] /\ in.power \in Powers /\ in.solar \in SolarStates
      /\ in.write \in WriteStates
  BY DEF Inputs
<1>3. result = Evaluate(Config, in.mode, in.strategy, wallbox, in.house, in.power,
                        in.phases.phases, in.solar, in.write, d)
  BY DEF ResultOf
<1>4. PICK volts : volts = VoltsOf(in, wallbox)
  OBVIOUS
<1>5. PICK c : c = Config
  OBVIOUS
<1>6. PICK mode : mode = in.mode
  OBVIOUS
<1>7. PICK strategy : strategy = in.strategy
  OBVIOUS
<1>8. volts = VoltageSum(SolarPhases(c, mode, strategy, wallbox, in.phases.phases), wallbox.volts)
  BY <1>4, <1>5, <1>6, <1>7 DEF VoltsOf
<1> HIDE DEF Config
<1>9. result = Evaluate(c, mode, strategy, wallbox, in.house, in.power, in.phases.phases,
                        in.solar, in.write, d)
  BY <1>3, <1>5, <1>6, <1>7
<1>10. CASE mode = "off"
  <2>1. /\ result.solar = Inactive /\ result.solar \in SolarStates
        /\ result.write \in WriteStates /\ dec \in Decisions
        /\ dec.target = 0 /\ ~dec.enabled
        /\ Decides(in.write, result.write, dec.write, Differs(dec, wallbox))
    BY <1>2, <1>9, <1>10, OffType
  <2>2. dec.target # None
    BY <2>1, NoneIsNoInt
  <2>3. SolarFollows(c, mode, strategy, in.solar, result.solar, dec.target, volts)
    BY <1>10, <2>1 DEF SolarFollows
  <2> QED
    BY <1>4, <1>5, <1>6, <1>7, <1>10, <2>1, <2>2, <2>3 DEF ResultFacts
<1>11. CASE mode # "off"
  <2>1. PICK wish : wish = Wish(c, mode, strategy, wallbox, in.power, in.phases.phases,
                                in.solar, d)
    OBVIOUS
  <2>2. SolarConfig(c) /\ c.fixed \in Nat
    BY <1>1, <1>5
  <2>3. EvaluateFacts(c, mode, wallbox, in.write, wish, result, dec)
    BY <1>2, <1>9, <1>11, <2>1, <2>2, EvaluateType
  <2>4. SolarFollows(c, mode, strategy, in.solar, result.solar, dec.target, volts)
    BY <1>2, <1>8, <2>1, <2>2, <2>3, EvaluateFollows
  <2> QED
    BY <1>4, <1>5, <1>6, <1>7, <1>11, <2>3, <2>4 DEF EvaluateFacts, ResultFacts
<1> QED
  BY <1>10, <1>11

(* The guards and the queue write nothing that the decision did not want,  *)
(* except a pause.                                                         *)
LEMMA OrderedType ==
  ASSUME NEW mode, NEW wallbox, NEW dec \in Decisions, dec.write => dec.target # None,
         NEW blocked, NEW ordered, ordered = Ordered(mode, wallbox, dec, blocked)
  PROVE  /\ ordered \in Maybe(Nat)
         /\ ordered # None /\ ordered # 0 =>
              dec.write /\ dec.target # None /\ ordered = Amperes(dec.target)
         /\ ~blocked /\ wallbox.connected /\ dec.write => ordered # None
         /\ /\ ~blocked /\ wallbox.connected /\ ~dec.enabled /\ mode = "solar"
            /\ dec.reason \in {"sensor_unavailable", "below_min_current"}
            => ordered = 0
<1>1. dec.write => dec.target \in Nat
  BY DEF Decisions, Maybe
<1>2. dec.write => Amperes(dec.target) \in Nat /\ Amperes(dec.target) # None
  BY <1>1, AmperesNear, NoneIsNoInt
<1>3. 0 # None
  BY NoneIsNoInt
<1>4. \/ ordered = None /\ (blocked \/ ~wallbox.connected \/ ~dec.write)
      \/ ordered = 0
      \/ ordered = Amperes(dec.target) /\ dec.write
  BY DEF Ordered
<1>5. /\ ~blocked /\ wallbox.connected /\ ~dec.enabled /\ mode = "solar"
      /\ dec.reason \in {"sensor_unavailable", "below_min_current"}
      => ordered = 0
  BY DEF Ordered
<1> QED
  BY <1>2, <1>3, <1>4, <1>5, MaybeType

(* What the steps of a poll return, in one place.                          *)
PollResults(in, wallbox, attempt, result, dec, guarded, ordered) ==
  /\ ResultFacts(in, wallbox, result, dec)
  /\ guarded.guards \in GuardStates /\ guarded.guards.charging = wallbox.charging
  /\ guarded.decision \in Decisions
  /\ guarded.decision = [dec EXCEPT !.write = guarded.decision.write]
  /\ guarded.decision.write => dec.write
  /\ /\ dec.enabled /\ dec.write /\ ~guarded.decision.write
     /\ attempt # "scheduled"
     /\ ~Deferred(Config, in.guards, wallbox, in.valid, dec)
     => Held(in.guards, wallbox, guarded.guards)
  /\ ordered \in Maybe(Nat)
  /\ ordered # None /\ ordered # 0 =>
       guarded.decision.write /\ ordered = Amperes(dec.target)
  /\ attempt # "scheduled" /\ wallbox.connected /\ guarded.decision.write => ordered # None
  /\ attempt # "scheduled" /\ wallbox.connected /\ in.mode = "solar" /\ dec.target = None =>
       ordered = 0

LEMMA PollResultsType ==
  ASSUME PollStates, NEW d \in Nat, NEW in, Inputs(in, d), NEW wallbox, ControlWallbox(wallbox),
         NEW attempt, NEW result, result = ResultOf(in, wallbox, d),
         NEW dec, dec = result.decision,
         NEW guarded, guarded = GuardedOf(in, wallbox, attempt, d),
         NEW ordered, ordered = OrderedOf(in, wallbox, attempt, d)
  PROVE  PollResults(in, wallbox, attempt, result, dec, guarded, ordered)
<1>1. ResultFacts(in, wallbox, result, dec)
  BY ResultType
<1>2. dec \in Decisions /\ (dec.write => dec.target # None)
  BY <1>1 DEF ResultFacts
<1>3. PICK scheduled : scheduled = (attempt = "scheduled")
  OBVIOUS
<1>4. PICK ready : ready = InputReady(Config, in, wallbox)
  OBVIOUS
<1>5. guarded = Guarded(Config, in.guards, in.mode, wallbox, in.valid, ready, dec, scheduled)
  BY <1>3, <1>4 DEF GuardedOf
<1>6. /\ guarded.guards \in GuardStates /\ guarded.guards.charging = wallbox.charging
      /\ guarded.decision \in Decisions
      /\ guarded.decision = [dec EXCEPT !.write = guarded.decision.write]
      /\ guarded.decision.write => dec.write
      /\ /\ dec.enabled /\ dec.write /\ ~guarded.decision.write
         /\ ~scheduled /\ ~Deferred(Config, in.guards, wallbox, in.valid, dec)
         => Held(in.guards, wallbox, guarded.guards)
  <2>1. in.guards \in GuardStates /\ wallbox.charging \in BOOLEAN
    BY DEF Inputs, ControlWallbox
  <2> QED
    BY <1>2, <1>5, <2>1, GuardedType
<1>7. guarded.decision.target = dec.target
  BY <1>2, <1>6 DEF Decisions
<1>8. ordered = Ordered(in.mode, wallbox, guarded.decision, scheduled)
  BY <1>3 DEF OrderedOf
<1>9. guarded.decision.write => guarded.decision.target # None
  BY <1>2, <1>6, <1>7
<1>10. /\ ordered \in Maybe(Nat)
       /\ ordered # None /\ ordered # 0 =>
            guarded.decision.write /\ ordered = Amperes(guarded.decision.target)
       /\ ~scheduled /\ wallbox.connected /\ guarded.decision.write => ordered # None
       /\ /\ ~scheduled /\ wallbox.connected /\ ~guarded.decision.enabled /\ in.mode = "solar"
          /\ guarded.decision.reason \in {"sensor_unavailable", "below_min_current"}
          => ordered = 0
  BY <1>6, <1>8, <1>9, OrderedType
<1>11. guarded.decision.enabled = dec.enabled /\ guarded.decision.reason = dec.reason
  BY <1>2, <1>6 DEF Decisions
<1>12. ~scheduled /\ wallbox.connected /\ in.mode = "solar" /\ dec.target = None => ordered = 0
  BY <1>1, <1>10, <1>11 DEF ResultFacts
<1> QED
  BY <1>1, <1>3, <1>6, <1>7, <1>10, <1>12 DEF PollResults

(* A poll: what it read, what its steps returned, and its conclusion.      *)
PollOf(d, wallbox, in, attempt, result, dec, guarded, ordered) ==
  /\ d \in World.gaps /\ d \in Nat
  /\ ControlWallbox(wallbox) /\ wallbox.register = register
  /\ wallbox.connected = plugged /\ wallbox.hardwareMin = World.hardwareMin
  /\ Inputs(in, d) /\ in.valid \in BOOLEAN
  /\ PollResults(in, wallbox, attempt, result, dec, guarded, ordered)
  /\ dec = result.decision
  /\ Concluded(Config, wallbox, in, result, guarded, ordered, attempt, d)

LEMMA ValidIsBoolean ==
  ASSUME NEW d, NEW wallbox, NEW house, NEW sun
  PROVE  Seen(d, wallbox, house, sun).valid \in BOOLEAN
BY DEF Seen, DlbInputsValid

LEMMA PollByName ==
  ASSUME PollStates, NEW d \in World.gaps, NEW vehicle \in Vehicles,
         NEW limits \in World.limits, NEW house \in World.houses, NEW sun \in World.suns, NEW attempt,
         Poll(d, vehicle, limits, house, sun, attempt),
         NEW wallbox, wallbox = Wallbox(vehicle, limits),
         NEW in, in = Seen(d, wallbox, house, sun)
  PROVE  \E result, dec, guarded, ordered :
           /\ PollOf(d, wallbox, in, attempt, result, dec, guarded, ordered)
           /\ result = ResultOf(in, wallbox, d)
<1>1. PICK result : result = ResultOf(in, wallbox, d)
  OBVIOUS
<1>2. PICK dec : dec = result.decision
  OBVIOUS
<1>3. PICK guarded : guarded = GuardedOf(in, wallbox, attempt, d)
  OBVIOUS
<1>4. PICK ordered : ordered = OrderedOf(in, wallbox, attempt, d)
  OBVIOUS
<1>5. d \in Nat
  BY WorldType DEF PollStates
<1>6. /\ ControlWallbox(wallbox) /\ wallbox.register = register
      /\ wallbox.connected = plugged /\ wallbox.hardwareMin = World.hardwareMin
  BY WallboxType DEF PollStates
<1>7. Inputs(in, d)
  BY SeenType
<1>8. PollResults(in, wallbox, attempt, result, dec, guarded, ordered)
  BY <1>1, <1>2, <1>3, <1>4, <1>5, <1>6, <1>7, PollResultsType
<1>9. Concluded(Config, wallbox, in, ResultOf(in, wallbox, d),
                 GuardedOf(in, wallbox, attempt, d), OrderedOf(in, wallbox, attempt, d),
                 attempt, d)
  BY PollConcludes
<1>10. Concluded(Config, wallbox, in, result, guarded, ordered, attempt, d)
  BY <1>1, <1>3, <1>4, <1>9
<1>11. in.valid \in BOOLEAN
  BY ValidIsBoolean
<1> QED
  BY <1>1, <1>2, <1>5, <1>6, <1>7, <1>8, <1>10, <1>11 DEF PollOf

LEMMA PollHappens ==
  ASSUME PollStates, SomePoll
  PROVE  \E d, wallbox, in, attempt, result, dec, guarded, ordered :
           PollOf(d, wallbox, in, attempt, result, dec, guarded, ordered)
<1>1. PICK d \in World.gaps, vehicle \in Vehicles, limits \in World.limits,
           house \in World.houses, sun \in World.suns, attempt \in World.attempts :
        Poll(d, vehicle, limits, house, sun, attempt)
  BY DEF SomePoll
<1>2. PICK wallbox : wallbox = Wallbox(vehicle, limits)
  OBVIOUS
<1>3. PICK in : in = Seen(d, wallbox, house, sun)
  OBVIOUS
<1>4. PICK result, dec, guarded, ordered :
        PollOf(d, wallbox, in, attempt, result, dec, guarded, ordered)
  BY <1>1, <1>2, <1>3, PollByName
<1> QED
  BY <1>4

-----------------------------------------------------------------------------
(* TypeOK.                                                                 *)

LateStates == [age : Maybe(Nat), urgent : 0..2]
EcoAges == 0..2 * LongAgo
EcoStates == [sun : Maybe(EcoAges), rest : Maybe(EcoAges), dark : Maybe(EcoAges)]

LEMMA ForType ==
  ASSUME NEW holds, NEW age \in Maybe(EcoAges), NEW d \in Nat
  PROVE  /\ For(holds, age, d) \in Maybe(EcoAges)
         /\ ~holds => For(holds, age, d) = None
         /\ holds /\ age = None => For(holds, age, d) = 0
         /\ holds /\ age # None => For(holds, age, d) = Lower(age + d, 2 * LongAgo)
<1>1. 0 \in EcoAges /\ 2 * LongAgo \in EcoAges
  BY GrainAssumption DEF EcoAges
<1>2. age # None => Lower(age + d, 2 * LongAgo) \in EcoAges
  BY GrainAssumption DEF Maybe, EcoAges, Lower
<1> QED
  BY <1>1, <1>2 DEF For, Maybe

LEMMA EcoSeenType ==
  ASSUME eco \in EcoStates, NEW d \in Nat, NEW c, NEW mode, NEW strategy, NEW volts,
         NEW before, NEW next, NEW attempt
  PROVE  EcoSeen(c, mode, strategy, volts, before, next, attempt, d) \in EcoStates
<1>1. eco.sun \in Maybe(EcoAges) /\ eco.rest \in Maybe(EcoAges) /\ eco.dark \in Maybe(EcoAges)
  BY DEF EcoStates
<1>2. 0 \in Maybe(EcoAges)
  BY GrainAssumption DEF EcoAges, Maybe
<1>3. PICK isEco : isEco = (mode = "solar" /\ strategy = "eco")
  OBVIOUS
<1>4. PICK shines : shines =
        IF isEco THEN isEco /\ next.filtered # None /\ ~(next.filtered < Threshold(c, c.start, volts))
        ELSE mode = "solar" /\ eco.sun # None
  OBVIOUS
<1>5. PICK dims : dims = /\ isEco /\ next.filtered # None /\ plugged /\ attempt = "ok"
                         /\ next.filtered < Threshold(c, c.stop, volts)
  OBVIOUS
<1>6. EcoSeen(c, mode, strategy, volts, before, next, attempt, d) =
        [sun  |-> For(shines, eco.sun, d),
         rest |-> IF isEco /\ before.active /\ ~next.active THEN 0
                  ELSE For(isEco /\ eco.rest # None, eco.rest, d),
         dark |-> For(dims, eco.dark, d)]
  BY <1>3, <1>4, <1>5 DEF EcoSeen
<1>7. /\ For(shines, eco.sun, d) \in Maybe(EcoAges)
      /\ For(isEco /\ eco.rest # None, eco.rest, d) \in Maybe(EcoAges)
      /\ For(dims, eco.dark, d) \in Maybe(EcoAges)
  BY <1>1, ForType
<1> QED
  BY <1>2, <1>6, <1>7 DEF EcoStates

LEMMA OverdueType ==
  ASSUME late \in LateStates, NEW d \in Nat, NEW dec, NEW ordered, NEW attempt,
         NEW starting, NEW own
  PROVE  Overdue(dec, ordered, attempt, starting, own, d) \in LateStates
<1>1. late.age \in Maybe(Nat) /\ late.urgent \in 0..2
  BY DEF LateStates
<1>2. /\ (IF late.age = None THEN 0 ELSE late.age + d) \in Maybe(Nat) /\ None \in Maybe(Nat)
      /\ Lower(late.urgent + 1, 2) \in 0..2 /\ 0 \in 0..2
  BY <1>1 DEF Maybe, Lower
<1>3. PICK lower : lower = (dec.target < Ampere * register)
  OBVIOUS
<1>4. PICK open : open = /\ attempt = "ok" /\ plugged /\ dec.enabled /\ ordered = None
                         /\ ~(Distance(dec.target, Ampere * register) < Ampere)
                         /\ ~(starting /\ dec.fallback /\ lower)
  OBVIOUS
<1>5. PICK urgent : urgent = (lower /\ own /\ (dec.fallback \/ dec.by \in Limiters))
  OBVIOUS
<1>6. Overdue(dec, ordered, attempt, starting, own, d) =
        [age |-> IF ~open THEN None ELSE IF late.age = None THEN 0 ELSE late.age + d,
         urgent |-> IF open /\ urgent THEN Lower(late.urgent + 1, 2) ELSE 0]
  BY <1>3, <1>4, <1>5 DEF Overdue
<1> QED
  BY <1>2, <1>6 DEF LateStates

LEMMA TypeParts ==
  TypeOK <=> /\ PollStates /\ late \in LateStates /\ eco \in EcoStates
             /\ decision \in [reason : Reasons, fallback : BOOLEAN, valid : BOOLEAN]
BY DEF TypeOK, PollStates, ControlStates, LateStates, EcoStates, EcoAges

LEMMA InitTypes == Init => TypeOK
<1> SUFFICES ASSUME Init PROVE TypeOK
  OBVIOUS
<1>1. site \in Sites /\ plugged \in BOOLEAN
  BY DEF Init
<1>2. register \in Nat
  BY <1>1, WorldType DEF Init
<1>3. control \in ControlStates
  <2>1. site.config \in Configs
    BY <1>1, SiteAssumption DEF Configurable
  <2>2. /\ site.config.max \in Nat /\ site.config.fixed \in Nat
        /\ site.config.strategy \in Strategies /\ site.config.startup \in Modes
    BY <2>1, CurrentsType DEF Configs
  <2>3. StartupMode(site.config) \in Modes
    BY <2>2 DEF StartupMode, Modes
  <2> QED
    BY <2>2, <2>3 DEF Init, ControlStates
<1>4. session \in [known : BOOLEAN, connected : BOOLEAN, seen : Observations]
  BY MaybeType DEF Init, NothingSeen, Observations
<1>5. solar \in SolarStates /\ write \in WriteStates /\ guards \in GuardStates
  BY InactiveType, NoWriteType, NoGuardsType DEF Init
<1>6. late \in LateStates /\ eco \in EcoStates
  BY MaybeType DEF Init, LateStates, EcoStates, NoEco, NotLate
<1>7. decision \in [reason : Reasons, fallback : BOOLEAN, valid : BOOLEAN]
  BY DEF Init, Reasons
<1> QED
  BY <1>1, <1>2, <1>3, <1>4, <1>5, <1>6, <1>7, TypeParts DEF PollStates

LEMMA PollTypes ==
  ASSUME TypeOK, SomePoll
  PROVE  TypeOK'
<1>1. PollStates /\ late \in LateStates /\ eco \in EcoStates
  BY TypeParts
<1>2. PICK d, wallbox, in, attempt, result, dec, guarded, ordered :
        PollOf(d, wallbox, in, attempt, result, dec, guarded, ordered)
  BY <1>1, PollHappens
<1>3. /\ d \in Nat /\ Inputs(in, d) /\ in.valid \in BOOLEAN
      /\ PollResults(in, wallbox, attempt, result, dec, guarded, ordered)
      /\ dec = result.decision
      /\ Concluded(Config, wallbox, in, result, guarded, ordered, attempt, d)
  BY <1>2 DEF PollOf
<1>4. /\ ResultFacts(in, wallbox, result, dec) /\ guarded.guards \in GuardStates
      /\ guarded.decision \in Decisions /\ ordered \in Maybe(Nat)
  BY <1>3 DEF PollResults
<1>5. site' \in Sites /\ plugged' \in BOOLEAN /\ control' \in ControlStates
  BY <1>1, <1>3 DEF Concluded, Inputs, PollStates
<1>6. session' \in [known : BOOLEAN, connected : BOOLEAN, seen : Observations]
  BY <1>1, <1>3 DEF Concluded, Inputs, PollStates
<1>7. solar' \in SolarStates /\ guards' \in GuardStates
  BY <1>3, <1>4 DEF Concluded, ResultFacts
<1>8. register' \in Nat
  BY <1>1, <1>3, <1>4 DEF Concluded, Maybe, PollStates
<1>9. write' \in WriteStates
  <2>1. result.write \in WriteStates
    BY <1>4 DEF ResultFacts
  <2>2. ordered # None => Written(result.write, ordered) \in WriteStates
    BY <1>4, <2>1, WrittenType DEF Maybe
  <2> QED
    BY <1>3, <2>1, <2>2 DEF Concluded
<1>10. decision' \in [reason : Reasons, fallback : BOOLEAN, valid : BOOLEAN]
  <2>1. guarded.decision.reason \in Reasons /\ guarded.decision.fallback \in BOOLEAN
    BY <1>4 DEF Decisions
  <2> QED
    BY <1>3, <2>1 DEF Concluded
<1>11. late' \in LateStates
  BY <1>1, <1>3, OverdueType DEF Concluded
<1>12. eco' \in EcoStates
  BY <1>1, <1>3, EcoSeenType DEF Concluded
<1> QED
  BY <1>5, <1>6, <1>7, <1>8, <1>9, <1>10, <1>11, <1>12, TypeParts
     DEF TypeOK, ControlStates, LateStates, EcoStates, EcoAges

LEMMA UserTypes ==
  ASSUME TypeOK, UserActs
  PROVE  TypeOK'
<1>1. PollStates /\ late \in LateStates /\ eco \in EcoStates /\ site \in Sites
      /\ control \in ControlStates
  BY TypeParts DEF PollStates
<1>2. NoEco \in EcoStates /\ Inactive \in SolarStates
  BY InactiveType, MaybeType DEF NoEco, EcoStates
<1>3. /\ UNCHANGED <<site, plugged, register, session, write, guards, decision, late>>
      /\ solar' \in {solar, Inactive} /\ eco' \in {eco, NoEco}
  BY DEF UserActs, SetMode, PauseOrResume, SetUntilUnplug, SetMaxCurrent, SetFixedCurrent,
         NewIntention
<1>4. control' \in ControlStates
  <2>1. ASSUME NEW choice \in World.choices, SetMode(choice[1], choice[2])
        PROVE  control' \in ControlStates
    <3>1. choice[1] \in Modes /\ choice[2] \in Maybe(Strategies)
      BY <1>1, WorldType
    <3>2. Config.strategy \in Strategies
      BY <1>1, ConfigType
    <3>3. PICK strategy \in Strategies :
            control' = [control EXCEPT !.mode = choice[1], !.until = "none", !.strategy = strategy]
      <4>1. control.strategy \in Strategies
        BY <1>1 DEF ControlStates
      <4> HIDE DEF Config
      <4> QED
        BY <2>1, <3>1, <3>2, <4>1 DEF SetMode, Maybe
    <3> QED
      BY <1>1, <3>1, <3>3 DEF ControlStates
  <2>2. ASSUME PauseOrResume
        PROVE  control' \in ControlStates
    BY <1>1, <2>2 DEF PauseOrResume, ControlStates
  <2>3. ASSUME NEW until \in World.untils, NEW enabled \in BOOLEAN,
               SetUntilUnplug(until, enabled)
        PROVE  control' \in ControlStates
    <3>1. until \in {"solar", "fixed"}
      BY <1>1, WorldType
    <3>2. PICK next \in {"none", "solar", "fixed"} : control' = [control EXCEPT !.until = next]
      BY <1>1, <2>3, <3>1 DEF SetUntilUnplug, ControlStates
    <3> QED
      BY <1>1, <3>2 DEF ControlStates
  <2>4. ASSUME NEW i \in World.settings, SetMaxCurrent(i) \/ SetFixedCurrent(i)
        PROVE  control' \in ControlStates
    <3>1. i \in Nat
      BY <1>1, WorldType
    <3> QED
      BY <1>1, <2>4, <3>1 DEF SetMaxCurrent, SetFixedCurrent, ControlStates
  <2> QED
    BY <2>1, <2>2, <2>3, <2>4 DEF UserActs
<1> QED
  BY <1>1, <1>2, <1>3, <1>4 DEF TypeOK, PollStates, ControlStates, LateStates, EcoStates, EcoAges

LEMMA ChargerTypes ==
  ASSUME TypeOK, PlugOrUnplug \/ ChargerFallsBack
  PROVE  TypeOK'
<1>1. PollStates /\ late \in LateStates /\ eco \in EcoStates /\ site \in Sites
  BY TypeParts DEF PollStates
<1>2. /\ UNCHANGED <<site, control, session, solar, write, guards, decision>>
      /\ plugged' \in BOOLEAN /\ late' = NotLate
      /\ eco' = [eco EXCEPT !.rest = None, !.dark = None]
      /\ register' \in {register} \cup World.ownLimits
  BY <1>1 DEF PlugOrUnplug, ChargerFallsBack, OwnLimit, PollStates
<1>3. register' \in Nat
  BY <1>1, <1>2, WorldType DEF PollStates
<1>4. late' \in LateStates /\ eco' \in EcoStates
  <2>1. None \in Maybe(EcoAges) /\ None \in Maybe(Nat) /\ 0 \in 0..2
    BY MaybeType
  <2> QED
    BY <1>1, <1>2, <2>1 DEF LateStates, EcoStates, NotLate
<1> QED
  BY <1>1, <1>2, <1>3, <1>4, TypeParts
     DEF TypeOK, PollStates, ControlStates, LateStates, EcoStates, EcoAges

LEMMA StepTypes ==
  ASSUME TypeOK, [Next]_vars
  PROVE  TypeOK'
<1>1. CASE UNCHANGED vars
  BY <1>1 DEF vars, TypeOK
<1> QED
  BY <1>1, PollTypes, UserTypes, ChargerTypes DEF Next

(* TypeOK: whatever the site, its sensors and its charger report, every    *)
(* part of the state stays within the type its class declares.             *)
THEOREM ControlTypes == Spec => []TypeOK
<1>1. Init => TypeOK
  BY InitTypes
<1>2. TypeOK /\ [Next]_vars => TypeOK'
  BY StepTypes
<1> QED
  BY <1>1, <1>2, PTL DEF Spec

-----------------------------------------------------------------------------
(* ReductionWaitsOnce.  Inductive with: a reduction that has waited for    *)
(* one poll is one of which the DLB guard holds its first sample, in a     *)
(* session that charges; the next sample confirms it.  Only a fallback of  *)
(* a running charge is ever deferred, and only before the start-up is over.*)

WaitingIsHeld ==
  late.urgent # 0 => late.urgent = 1 /\ guards.charging /\ guards.dlbSamples = 1
ReductionInv == TypeOK /\ WaitingIsHeld

LEMMA PollReduces ==
  ASSUME ReductionInv, SomePoll
  PROVE  WaitingIsHeld'
<1>1. PollStates /\ late \in LateStates
  BY TypeParts DEF ReductionInv
<1>2. PICK d, wallbox, in, attempt, result, dec, guarded, ordered :
        PollOf(d, wallbox, in, attempt, result, dec, guarded, ordered)
  BY <1>1, PollHappens
<1>3. /\ d \in Nat /\ Inputs(in, d) /\ wallbox.register = register /\ wallbox.connected = plugged
      /\ PollResults(in, wallbox, attempt, result, dec, guarded, ordered)
      /\ dec = result.decision
      /\ Concluded(Config, wallbox, in, result, guarded, ordered, attempt, d)
  BY <1>2 DEF PollOf
<1>4. PICK deferred, starting :
        /\ deferred = Deferred(Config, in.guards, wallbox, in.valid, dec)
        /\ starting = (wallbox.charging /\ ~Ready(in.guards))
  OBVIOUS
<1>5. late' = Overdue(dec, ordered, attempt, starting, in.write.last = Ampere * register, d)
      /\ guards' = guarded.guards
  BY <1>3, <1>4 DEF Concluded
<1>6. /\ dec \in Decisions
      /\ /\ dec.enabled /\ Urgent(dec) /\ in.write.last # None /\ dec.target < in.write.last
         /\ ~(Distance(dec.target, Ampere * register) < Ampere)
         => dec.write
  BY <1>3 DEF PollResults, ResultFacts
<1>7. /\ guarded.guards.charging = wallbox.charging /\ guarded.guards \in GuardStates
      /\ dec.enabled /\ dec.write /\ ~guarded.decision.write /\ attempt # "scheduled" /\ ~deferred
         => Held(in.guards, wallbox, guarded.guards)
      /\ attempt # "scheduled" /\ plugged /\ guarded.decision.write => ordered # None
  BY <1>3, <1>4 DEF PollResults
<1>8. SUFFICES ASSUME late'.urgent # 0
               PROVE  late'.urgent = 1 /\ guards'.charging /\ guards'.dlbSamples = 1
  BY DEF WaitingIsHeld
<1>9. /\ attempt = "ok" /\ plugged /\ dec.enabled /\ ordered = None
      /\ ~(Distance(dec.target, Ampere * register) < Ampere)
      /\ Urgent(dec) /\ in.write.last = Ampere * register /\ dec.target < Ampere * register
      /\ ~(starting /\ dec.fallback)
      /\ late'.urgent = Lower(late.urgent + 1, 2)
  BY <1>5, <1>8 DEF Overdue, Urgent
(* A deferral is one of the start-up, which is not counted.                *)
<1>15. ~deferred
  BY <1>4, <1>9 DEF Deferred
<1>10. in.write.last # None
  BY <1>1, <1>9, NoneIsNoInt DEF PollStates, Ampere
<1>11. dec.write
  BY <1>6, <1>9, <1>10
<1>12. Held(in.guards, wallbox, guarded.guards)
  BY <1>7, <1>9, <1>11, <1>15
<1>13. ~(guards.charging /\ guards.dlbSamples > 0)
  BY <1>3, <1>12 DEF Held, Inputs
<1>14. late.urgent = 0
  BY <1>13 DEF ReductionInv, WaitingIsHeld
<1> QED
  BY <1>5, <1>7, <1>9, <1>12, <1>14 DEF Held, Lower

(* ReductionWaitsOnce: the throttle and the stability of the target never  *)
(* delay an urgent reduction of a current that the integration has written *)
(* itself; only the DLB guard does, for one poll.  The fallback of a       *)
(* running charge is excepted until the start-up is over, which holds it.  *)
THEOREM ReductionSafety == Spec => []ReductionWaitsOnce
<1>1. Init => ReductionInv
  BY InitTypes DEF ReductionInv, WaitingIsHeld, Init, NotLate
<1>2. ReductionInv /\ [Next]_vars => ReductionInv'
  <2> SUFFICES ASSUME ReductionInv, [Next]_vars PROVE ReductionInv'
    OBVIOUS
  <2>1. TypeOK'
    BY StepTypes DEF ReductionInv
  <2>2. WaitingIsHeld'
    <3>1. CASE SomePoll
      BY <3>1, PollReduces
    <3>2. CASE UserActs \/ UNCHANGED vars
      <4>1. UNCHANGED <<late, guards>>
        BY <3>2 DEF UserActs, SetMode, PauseOrResume, SetUntilUnplug, SetMaxCurrent,
                    SetFixedCurrent, vars
      <4> QED
        BY <4>1 DEF ReductionInv, WaitingIsHeld
    <3>3. CASE PlugOrUnplug \/ ChargerFallsBack
      BY <3>3 DEF PlugOrUnplug, ChargerFallsBack, OwnLimit, WaitingIsHeld, NotLate
    <3> QED
      BY <3>1, <3>2, <3>3 DEF Next
  <2> QED
    BY <2>1, <2>2 DEF ReductionInv
<1>3. ReductionInv => ReductionWaitsOnce
  BY DEF ReductionInv, WaitingIsHeld, ReductionWaitsOnce, TypeOK
<1> QED
  BY <1>1, <1>2, <1>3, PTL DEF Spec

-----------------------------------------------------------------------------
(* MismatchIsBounded.  Inductive with: the decider counts at least as long *)
(* as the write is overdue, and never longer than the throttle has run, so *)
(* an old target is always written; one that is still overdue then is held *)
(* by the DLB guard with its first sample, and the next poll confirms it.  *)

OldIsHeld ==
  late.age # None =>
    /\ session.connected
    /\ write.age # None /\ Lower(late.age, PendingMaxAge) <= write.age
    /\ late.age >= PendingMaxAge => guards.charging /\ guards.dlbSamples = 1
MismatchInv == TypeOK /\ Orderly(write) /\ OldIsHeld /\ MismatchIsBounded

LEMMA PollIsOrderly ==
  ASSUME MismatchInv, NEW d, NEW wallbox, NEW in, NEW attempt, NEW result, NEW dec, NEW guarded,
         NEW ordered, PollOf(d, wallbox, in, attempt, result, dec, guarded, ordered)
  PROVE  Orderly(in.write) /\ Orderly(write')
<1>1. write \in WriteStates
  BY DEF MismatchInv, TypeOK
<1>2. /\ d \in Nat /\ Inputs(in, d)
      /\ PollResults(in, wallbox, attempt, result, dec, guarded, ordered)
      /\ Concluded(Config, wallbox, in, result, guarded, ordered, attempt, d)
  BY DEF PollOf
<1>3. Orderly(in.write)
  BY <1>1, <1>2, OrderlyLater, FreshIsOrderly DEF Inputs, MismatchInv
<1>4. Orderly(result.write) /\ result.write \in WriteStates
  BY <1>2, <1>3 DEF PollResults, ResultFacts, Decides
<1>5. write' \in {Written(result.write, ordered), result.write}
  BY <1>2 DEF Concluded
<1> QED
  BY <1>3, <1>4, <1>5, FreshIsOrderly

LEMMA PollBounds ==
  ASSUME MismatchInv, SomePoll
  PROVE  Orderly(write') /\ OldIsHeld' /\ MismatchIsBounded'
<1>1. PollStates /\ late \in LateStates
  BY TypeParts DEF MismatchInv
<1>2. PICK d, wallbox, in, attempt, result, dec, guarded, ordered :
        PollOf(d, wallbox, in, attempt, result, dec, guarded, ordered)
  BY <1>1, PollHappens
<1>3. /\ d \in World.gaps /\ d \in Nat \ {0}
      /\ Inputs(in, d) /\ wallbox.register = register /\ wallbox.connected = plugged
      /\ PollResults(in, wallbox, attempt, result, dec, guarded, ordered)
      /\ dec = result.decision
      /\ Concluded(Config, wallbox, in, result, guarded, ordered, attempt, d)
  BY <1>1, <1>2, WorldType DEF PollOf, PollStates
<1>4. Orderly(in.write) /\ Orderly(write')
  BY <1>2, PollIsOrderly
<1>5. PICK deferred, starting :
        /\ deferred = Deferred(Config, in.guards, wallbox, in.valid, dec)
        /\ starting = (wallbox.charging /\ ~Ready(in.guards))
  OBVIOUS
<1>6. /\ late' = Overdue(dec, ordered, attempt, starting, in.write.last = Ampere * register, d)
      /\ guards' = guarded.guards /\ site' = site
      /\ session'.connected = plugged
      /\ ordered = None => write' = result.write
  BY <1>3, <1>5 DEF Concluded
<1> SUFFICES ASSUME late'.age # None
             PROVE  OldIsHeld' /\ MismatchIsBounded'
  BY <1>4 DEF OldIsHeld, MismatchIsBounded
<1>7. /\ attempt = "ok" /\ plugged /\ ordered = None /\ Differs(dec, wallbox)
      /\ dec.enabled /\ ~(starting /\ dec.fallback /\ dec.target < Ampere * register)
      /\ late'.age = IF late.age = None THEN 0 ELSE late.age + d
  BY <1>3, <1>6 DEF Overdue, Differs
(* What the start-up defers is a fallback below the register.              *)
<1>17. ~deferred
  <2> SUFFICES ASSUME deferred PROVE FALSE
    OBVIOUS
  <2>1. /\ starting /\ dec.fallback /\ Distance(dec.target, Config.safe) <= 10
        /\ Ampere * register > Config.safe + 10 /\ dec.target # None
    BY <1>3, <1>5 DEF Deferred
  <2>2. dec.target \in Nat /\ Config.safe \in Nat /\ Ampere * register \in Nat
    <3>1. dec \in Decisions
      BY <1>3 DEF PollResults, ResultFacts
    <3>2. dec.target \in Nat
      BY <2>1, <3>1 DEF Decisions, Maybe
    <3>3. Config.safe \in Nat
      BY <1>1, ConfigType DEF PollStates, LimitsConfig, SolarConfig
    <3> QED
      BY <1>1, <3>2, <3>3 DEF PollStates, Ampere
  <2>3. dec.target < Ampere * register
    BY <2>1, <2>2 DEF Distance
  <2> QED
    BY <1>7, <2>1, <2>3
<1>8. /\ in.write \in WriteStates /\ result.write.age = Pending(in.write)
      /\ Pending(in.write) >= PendingMaxAge /\ in.write.since >= MinBetween => dec.write
  BY <1>3, <1>7 DEF PollResults, ResultFacts, Decides, Inputs
(* An old target is written unless the DLB guard holds it.                 *)
<1>9. Pending(in.write) >= PendingMaxAge => Held(in.guards, wallbox, guarded.guards)
  <2>1. Pending(in.write) >= PendingMaxAge => in.write.since >= MinBetween
    <3>1. in.write.since \in 0..MinBetween /\ in.write.age \in Maybe(0..PendingMaxAge)
      BY <1>8 DEF WriteStates
    <3> QED
      BY <1>4, <3>1, TimeAssumption DEF Orderly, Pending, Lower, Maybe
  <2>2. ~guarded.decision.write
    BY <1>3, <1>7 DEF PollResults
  <2> QED
    BY <1>3, <1>5, <1>7, <1>17, <1>8, <2>1, <2>2 DEF PollResults
(* The decider's clock started no later than the overdue one.              *)
<1>10. Lower(late'.age, PendingMaxAge) <= Pending(in.write) /\ late'.age \in Nat
  <2>1. CASE late.age = None
    <3>1. Pending(in.write) \in Nat /\ late'.age = 0
      BY <1>7, <1>8, <2>1, TimeAssumption DEF Pending, WriteStates, Maybe
    <3> QED
      BY <3>1, TimeAssumption DEF Lower
  <2>2. CASE late.age # None
    <3>1. late.age \in Nat /\ write.age \in 0..PendingMaxAge
          /\ Lower(late.age, PendingMaxAge) <= write.age
      BY <1>1, <2>2 DEF MismatchInv, OldIsHeld, LateStates, PollStates, WriteStates, Maybe
    <3>2. in.write = WriteLater(write, d)
      BY <1>3, <2>2 DEF MismatchInv, OldIsHeld, Inputs
    <3>3. in.write.age = Lower(write.age + d, PendingMaxAge)
      BY <1>1, <2>2, <3>2, NoneIsNoInt DEF WriteLater, PollStates, WriteStates, MismatchInv,
         OldIsHeld
    <3>4. Pending(in.write) = Lower(write.age + d, PendingMaxAge)
      BY <1>3, <3>1, <3>3, TimeAssumption, NoneIsNoInt DEF Pending, Lower
    <3> QED
      BY <1>3, <1>7, <2>2, <3>1, <3>4, TimeAssumption DEF Lower
  <2> QED
    BY <2>1, <2>2
<1>11. Pending(in.write) \in 0..PendingMaxAge
  BY <1>8, TimeAssumption DEF Pending, WriteStates, Maybe
<1>12. late'.age >= PendingMaxAge => Held(in.guards, wallbox, guarded.guards)
  BY <1>9, <1>10, <1>11, TimeAssumption DEF Lower
<1>13. guarded.guards.charging = wallbox.charging
  BY <1>3 DEF PollResults
<1>14. OldIsHeld'
  <2>1. write'.age = Pending(in.write)
    BY <1>6, <1>7, <1>8
  <2>2. write'.age # None /\ Lower(late'.age, PendingMaxAge) <= write'.age
    BY <1>10, <1>11, <2>1, NoneIsNoInt
  <2> QED
    BY <1>6, <1>7, <1>12, <1>13, <2>2 DEF OldIsHeld, Held
<1>15. late'.age < PendingMaxAge + d
  <2>1. CASE late.age = None
    BY <1>3, <1>7, <2>1, TimeAssumption
  <2>2. CASE late.age # None /\ late.age < PendingMaxAge
    BY <1>1, <1>3, <1>7, <2>2, TimeAssumption DEF LateStates, Maybe
  <2>3. CASE late.age # None /\ ~(late.age < PendingMaxAge)
    <3>1. late.age \in Nat /\ late.age >= PendingMaxAge /\ late'.age >= PendingMaxAge
      BY <1>1, <1>3, <1>7, <2>3, TimeAssumption DEF LateStates, Maybe
    <3>2. guards.charging /\ guards.dlbSamples = 1
      BY <2>3, <3>1 DEF MismatchInv, OldIsHeld
    <3>3. ~(guards.charging /\ guards.dlbSamples > 0)
      BY <1>3, <1>12, <3>1 DEF Held, Inputs
    <3> QED
      BY <3>2, <3>3
  <2> QED
    BY <2>1, <2>2, <2>3
<1>16. World' = World
  BY <1>6 DEF World
<1> QED
  BY <1>3, <1>14, <1>15, <1>16 DEF MismatchIsBounded

(* MismatchIsBounded: a current the charger should have but has not is     *)
(* corrected by the first poll after PendingMaxAge, or the one after that  *)
(* if the DLB guard wants a second sample, for every gap between polls and *)
(* every sequence of targets, failures and restarts of the pending target; *)
(* fallbacks that the start-up may hold are not counted.                   *)
THEOREM MismatchSafety == Spec => []MismatchIsBounded
<1>1. Init => MismatchInv
  <2> SUFFICES ASSUME Init PROVE MismatchInv
    OBVIOUS
  <2>1. late.age = None /\ write = NoWrite
    BY DEF Init, NotLate
  <2> QED
    BY <2>1, InitTypes, FreshIsOrderly DEF MismatchInv, OldIsHeld, MismatchIsBounded
<1>2. MismatchInv /\ [Next]_vars => MismatchInv'
  <2> SUFFICES ASSUME MismatchInv, [Next]_vars PROVE MismatchInv'
    OBVIOUS
  <2>1. TypeOK'
    BY StepTypes DEF MismatchInv
  <2>2. CASE SomePoll
    BY <2>1, <2>2, PollBounds DEF MismatchInv, Orderly
  <2>3. CASE UserActs \/ UNCHANGED vars
    <3>1. UNCHANGED <<site, session, late, write, guards>>
      BY <2>3 DEF UserActs, SetMode, PauseOrResume, SetUntilUnplug, SetMaxCurrent,
                  SetFixedCurrent, vars
    <3> QED
      BY <2>1, <3>1 DEF MismatchInv, Orderly, OldIsHeld, MismatchIsBounded, World
  <2>4. CASE PlugOrUnplug \/ ChargerFallsBack
    <3>1. late'.age = None /\ write' = write
      BY <2>4 DEF PlugOrUnplug, ChargerFallsBack, OwnLimit, NotLate
    <3> QED
      BY <2>1, <3>1 DEF MismatchInv, Orderly, OldIsHeld, MismatchIsBounded
  <2> QED
    BY <2>2, <2>3, <2>4 DEF Next
<1>3. MismatchInv => MismatchIsBounded
  BY DEF MismatchInv
<1> QED
  BY <1>1, <1>2, <1>3, PTL DEF Spec

-----------------------------------------------------------------------------
(* The start timer of Eco Solar.  Inductive with: a timer that runs has    *)
(* not run for longer than the polls have seen sun.                        *)

TimerInSun == solar.startFor # None => eco.sun # None /\ eco.sun >= solar.startFor
StartInv == TypeOK /\ TimerInSun

(* Time passes for both alike.                                             *)
LEMMA BothAge ==
  ASSUME NEW sun \in EcoAges, NEW timer \in 0..LongAgo, sun >= timer, NEW d \in Nat
  PROVE  /\ Lower(sun + d, 2 * LongAgo) >= Lower(timer + d, LongAgo)
         /\ Lower(sun + d, 2 * LongAgo) \in Nat /\ Lower(timer + d, LongAgo) \in Nat
BY GrainAssumption DEF Lower, EcoAges

LEMMA LaterGoesOn ==
  ASSUME solar \in SolarStates, NEW d, NEW next, next = Later(solar, d) \/ next = Inactive
  PROVE  /\ next.active => solar.active
         /\ next = Later(solar, d) =>
              /\ next.active = solar.active /\ next.startFor = Aged(solar.startFor, d)
              /\ next.sinceStop = Aged(solar.sinceStop, d)
<1>1. CASE next = Inactive
  <2>1. /\ Inactive.active = FALSE /\ Inactive.startFor = None
        /\ Inactive.sinceStop = LongAgo
    BY DEF Inactive
  <2>2. next = Later(solar, d) =>
          /\ next.active = solar.active /\ next.startFor = Aged(solar.startFor, d)
          /\ next.sinceStop = Aged(solar.sinceStop, d)
    BY DEF Later, SolarStates
  <2> QED
    BY <1>1, <2>1, <2>2
<1>2. CASE next = Later(solar, d)
  <2>1. /\ next.active = solar.active /\ next.startFor = Aged(solar.startFor, d)
        /\ next.sinceStop = Aged(solar.sinceStop, d)
    BY <1>2 DEF Later, SolarStates
  <2> QED
    BY <1>2, <2>1
<1> QED
  BY <1>1, <1>2

(* A poll keeps the timer in the sun, and starts only in lasting sun.      *)
LEMMA PollStarts ==
  ASSUME StartInv, SomePoll
  PROVE  /\ TimerInSun'
         /\ ~solar.active /\ solar'.active =>
              eco'.sun # None /\ eco'.sun >= site.config.startDelay
<1>1. PollStates /\ eco \in EcoStates
  BY TypeParts DEF StartInv
<1>2. PICK d, wallbox, in, attempt, result, dec, guarded, ordered :
        PollOf(d, wallbox, in, attempt, result, dec, guarded, ordered)
  BY <1>1, PollHappens
<1>3. /\ d \in Nat /\ Inputs(in, d)
      /\ PollResults(in, wallbox, attempt, result, dec, guarded, ordered)
      /\ Concluded(Config, wallbox, in, result, guarded, ordered, attempt, d)
  BY <1>2 DEF PollOf
<1>4. PICK c : c = Config
  OBVIOUS
<1>5. PICK volts : volts = VoltsOf(in, wallbox)
  OBVIOUS
<1>6. PICK isEco : isEco = (in.mode = "solar" /\ in.strategy = "eco")
  OBVIOUS
<1>7. PICK next : next = result.solar
  OBVIOUS
<1>8. PICK shines : shines =
        IF isEco THEN isEco /\ next.filtered # None /\ ~(next.filtered < Threshold(c, c.start, volts))
        ELSE in.mode = "solar" /\ eco.sun # None
  OBVIOUS
<1>9. solar' = next /\ eco'.sun = For(shines, eco.sun, d)
  <2>1. eco' = EcoSeen(c, in.mode, in.strategy, volts, in.solar, next, attempt, d)
    BY <1>3, <1>4, <1>5, <1>7 DEF Concluded, VoltsOf
  <2>2. EcoSeen(c, in.mode, in.strategy, volts, in.solar, next, attempt, d).sun
          = For(shines, eco.sun, d)
    BY <1>6, <1>8 DEF EcoSeen
  <2>3. solar' = next
    BY <1>3, <1>7 DEF Concluded
  <2> QED
    BY <2>1, <2>2, <2>3
<1>10. SolarFollows(c, in.mode, in.strategy, in.solar, next, dec.target, volts)
  BY <1>3, <1>4, <1>5, <1>7 DEF PollResults, ResultFacts
<1>11. c.startDelay = site.config.startDelay /\ c.startDelay \in Nat
  BY <1>1, <1>4, ConfigType DEF PollStates, SolarConfig
<1>12. /\ eco.sun \in Maybe(EcoAges) /\ solar.startFor \in Maybe(0..LongAgo)
       /\ in.solar.startFor \in Maybe(0..LongAgo)
  BY <1>1, <1>3 DEF EcoStates, PollStates, SolarStates, Inputs
<1>13. /\ shines /\ eco.sun = None => eco'.sun = 0
       /\ shines /\ eco.sun # None => eco'.sun = Lower(eco.sun + d, 2 * LongAgo)
  <2>1. PICK sun : sun = eco.sun
    OBVIOUS
  <2>2. d \in Nat /\ sun \in Maybe(EcoAges)
    BY <1>3, <1>12, <2>1
  <2>3. /\ shines /\ sun = None => For(shines, sun, d) = 0
        /\ shines /\ sun # None => For(shines, sun, d) = Lower(sun + d, 2 * LongAgo)
    BY <2>2, ForType
  <2> QED
    BY <1>9, <2>1, <2>3
<1>14. in.solar.active => solar.active
  BY <1>1, <1>3, LaterGoesOn DEF Inputs, PollStates
<1>15. in.solar.startFor # None =>
         /\ eco.sun # None /\ in.solar.startFor = Lower(solar.startFor + d, LongAgo)
         /\ eco.sun \in EcoAges /\ solar.startFor \in 0..LongAgo /\ eco.sun >= solar.startFor
  <2>1. CASE in.solar = Inactive
    BY <2>1 DEF Inactive
  <2>2. CASE in.solar = Later(solar, d)
    <3>1. in.solar.startFor = Aged(solar.startFor, d)
      BY <1>1, <2>2 DEF Later, PollStates, SolarStates
    <3>2. in.solar.startFor # None => solar.startFor # None
      BY <3>1 DEF Aged
    <3> QED
      BY <1>12, <3>1, <3>2 DEF Aged, StartInv, TimerInSun, Maybe
  <2> QED
    BY <1>3, <2>1, <2>2 DEF Inputs
<1>16. PICK waited : waited = IF in.solar.startFor = None THEN 0 ELSE in.solar.startFor
  OBVIOUS
(* As long as it shines, it has shone for as long as the timer has run.    *)
<1>17. shines => eco'.sun # None /\ eco'.sun \in Nat /\ waited \in Nat /\ eco'.sun >= waited
  <2> SUFFICES ASSUME shines
               PROVE  eco'.sun # None /\ eco'.sun \in Nat /\ waited \in Nat /\ eco'.sun >= waited
    OBVIOUS
  <2>1. CASE in.solar.startFor = None
    <3>1. waited = 0
      BY <1>16, <2>1
    <3>2. eco'.sun \in Nat
      <4>1. eco.sun # None => Lower(eco.sun + d, 2 * LongAgo) \in Nat
        BY <1>3, <1>12, GrainAssumption DEF Maybe, EcoAges, Lower
      <4> QED
        BY <1>13, <4>1
    <3> QED
      BY <3>1, <3>2, NoneIsNoInt
  <2>2. CASE in.solar.startFor # None
    <3>1. /\ eco'.sun >= in.solar.startFor /\ eco'.sun \in Nat /\ in.solar.startFor \in Nat
      BY <1>3, <1>13, <1>15, <2>2, BothAge
    <3> QED
      BY <1>16, <2>2, <3>1, NoneIsNoInt
  <2> QED
    BY <2>1, <2>2
<1>18. CASE isEco
  <2>1. shines <=> Bright(c, next, volts)
    BY <1>8, <1>18 DEF Bright
  <2>2. /\ next.startFor # None => Bright(c, next, volts) /\ next.startFor = waited
        /\ next.active /\ ~in.solar.active => Bright(c, next, volts) /\ waited >= c.startDelay
    BY <1>6, <1>10, <1>16, <1>18 DEF SolarFollows
  <2>3. TimerInSun'
    BY <1>9, <1>17, <2>1, <2>2 DEF TimerInSun
  <2>4. ASSUME ~solar.active, solar'.active
        PROVE  eco'.sun # None /\ eco'.sun >= site.config.startDelay
    <3>1. Bright(c, next, volts) /\ waited >= c.startDelay
      BY <1>9, <1>14, <2>2, <2>4
    <3> QED
      BY <1>11, <1>17, <2>1, <3>1
  <2> QED
    BY <2>3, <2>4
<1>19. CASE in.mode = "solar" /\ in.strategy # "eco"
  <2>1. next.startFor = in.solar.startFor /\ next.active = in.solar.active
    BY <1>10, <1>19 DEF SolarFollows, TimersKept
  <2>2. next.startFor # None => shines /\ next.startFor = waited
    BY <1>6, <1>8, <1>15, <1>16, <1>19, <2>1
  <2> QED
    BY <1>9, <1>14, <1>17, <2>1, <2>2 DEF TimerInSun
<1>20. CASE in.mode # "solar"
  <2>1. next = Inactive
    BY <1>10, <1>20 DEF SolarFollows
  <2> QED
    BY <1>9, <2>1 DEF Inactive, TimerInSun
<1> QED
  BY <1>6, <1>18, <1>19, <1>20

(* StartNeedsLastingSun: however polls of other strategies, plugging and   *)
(* the user's changes are mixed with them, no start comes before the polls *)
(* of Eco Solar have seen enough sun for the whole start delay.            *)
THEOREM StartSafety == Spec => StartNeedsLastingSun
<1>1. Init => StartInv
  BY InitTypes DEF StartInv, TimerInSun, Init, Inactive
<1>2. StartInv /\ [Next]_vars =>
        /\ StartInv'
        /\ ~solar.active /\ solar'.active =>
             eco'.sun # None /\ eco'.sun >= site.config.startDelay
  <2> SUFFICES ASSUME StartInv, [Next]_vars
               PROVE  /\ StartInv'
                      /\ ~solar.active /\ solar'.active =>
                           eco'.sun # None /\ eco'.sun >= site.config.startDelay
    OBVIOUS
  <2>1. TypeOK'
    BY StepTypes DEF StartInv
  <2>2. CASE SomePoll
    BY <2>1, <2>2, PollStarts DEF StartInv
  <2>3. CASE ~SomePoll
    <3>1. solar' = Inactive \/ (solar' = solar /\ eco'.sun = eco.sun)
      <4>1. eco \in EcoStates
        BY TypeParts DEF StartInv
      <4>2. [eco EXCEPT !.rest = None, !.dark = None].sun = eco.sun
        BY <4>1 DEF EcoStates
      <4> QED
        BY <2>3, <4>2 DEF Next, UserActs, SetMode, PauseOrResume, SetUntilUnplug, SetMaxCurrent,
                    SetFixedCurrent, PlugOrUnplug, ChargerFallsBack, OwnLimit, vars
    <3>2. Inactive.startFor = None /\ Inactive.active = FALSE
      BY DEF Inactive
    <3> QED
      BY <2>1, <3>1, <3>2 DEF StartInv, TimerInSun
  <2> QED
    BY <2>2, <2>3
<1> QED
  BY <1>1, <1>2, PTL DEF Spec, StartNeedsLastingSun

-----------------------------------------------------------------------------
(* What a poll writes: nothing, 0 A, or the target of its decision.        *)

LEMMA PollWrites ==
  ASSUME PollStates, NEW d, NEW wallbox, NEW in, NEW attempt, NEW result, NEW dec, NEW guarded,
         NEW ordered, PollOf(d, wallbox, in, attempt, result, dec, guarded, ordered),
         register' \notin {0, register}
  PROVE  dec.target # None /\ register' = Amperes(dec.target) /\ in.mode # "off"
<1>1. /\ PollResults(in, wallbox, attempt, result, dec, guarded, ordered)
      /\ Concluded(Config, wallbox, in, result, guarded, ordered, attempt, d)
  BY DEF PollOf
<1>2. ordered # None /\ register' = ordered
  BY <1>1 DEF Concluded
<1>3. dec.write /\ register' = Amperes(dec.target)
  BY <1>1, <1>2 DEF PollResults
<1>4. dec.target # None
  BY <1>1, <1>3 DEF PollResults, ResultFacts
<1>5. Amperes(0) = 0
  BY DEF Amperes
<1>6. in.mode # "off"
  BY <1>1, <1>3, <1>5 DEF PollResults, ResultFacts
<1> QED
  BY <1>3, <1>4, <1>6

LEMMA MoreAmperes ==
  ASSUME NEW i \in Nat, NEW n \in Nat, i >= n
  PROVE  Ampere * i >= 1000 * n
BY DEF Ampere

(* ChargeableOrZero: whatever limits, ramp, smoothing and rounding do to a *)
(* target, a poll writes no current below the minimum.                     *)
LEMMA PollIsChargeable ==
  ASSUME TypeOK, SomePoll, register' \notin {0, register}
  PROVE  /\ Ampere * register' >= site.config.min
         /\ solar'.lastTarget = None => Ampere * register' >= World.hardwareMin
<1>1. PollStates /\ site \in Sites
  BY TypeParts DEF PollStates
<1>2. PICK d, wallbox, in, attempt, result, dec, guarded, ordered :
        PollOf(d, wallbox, in, attempt, result, dec, guarded, ordered)
  BY <1>1, PollHappens
<1>3. /\ wallbox.hardwareMin = World.hardwareMin
      /\ PollResults(in, wallbox, attempt, result, dec, guarded, ordered)
      /\ Concluded(Config, wallbox, in, result, guarded, ordered, attempt, d)
  BY <1>2 DEF PollOf
<1>4. dec.target # None /\ register' = Amperes(dec.target) /\ in.mode # "off"
  BY <1>1, <1>2, PollWrites
<1>5. /\ \A n \in Nat : Config.min = 1000 * n => register' >= n
      /\ \A n \in Nat : in.mode # "solar" /\ Minimum(Config, wallbox) >= 1000 * n => register' >= n
      /\ in.mode = "solar" => result.solar.lastTarget # None
      /\ solar' = result.solar
  BY <1>3, <1>4 DEF PollResults, ResultFacts, Concluded
<1>6. register' \in Nat
  BY PollTypes DEF TypeOK
<1>7. Ampere * register' >= site.config.min
  <2>1. site.config.min \in Currents
    BY <1>1, SiteAssumption DEF Configurable, Configs
  <2>2. PICK n \in Nat : site.config.min = 1000 * n
    BY <2>1, CurrentsType
  <2>3. Config.min = site.config.min
    BY <1>1, ConfigType DEF PollStates
  <2>4. register' >= n
    BY <1>5, <2>2, <2>3
  <2> QED
    BY <1>6, <2>2, <2>4, MoreAmperes
<1>8. ASSUME solar'.lastTarget = None
      PROVE  Ampere * register' >= World.hardwareMin
  <2>1. PICK n \in Nat : World.hardwareMin = 1000 * n
    BY <1>1, WorldType
  <2>2. Config.min \in Nat
    BY <1>1, ConfigType DEF PollStates, SolarConfig, LimitsConfig
  <2>3. Minimum(Config, wallbox) >= 1000 * n
    <3> HIDE DEF Config, World
    <3> QED
      BY <1>3, <2>1, <2>2 DEF Minimum, Higher
  <2>4. register' >= n
    BY <1>5, <1>8, <2>3
  <2> HIDE DEF World
  <2> QED
    BY <1>6, <2>1, <2>4, MoreAmperes
<1> QED
  BY <1>7, <1>8

(* Only polls, the plug and the charger itself change the register.        *)
LEMMA OtherRegister ==
  ASSUME TypeOK, [Next]_vars, ~SomePoll
  PROVE  /\ register' \in {register} \cup World.ownLimits
         /\ register' # register => eco'.rest = None
<1>1. CASE UserActs \/ UNCHANGED vars
  BY <1>1 DEF UserActs, SetMode, PauseOrResume, SetUntilUnplug, SetMaxCurrent, SetFixedCurrent,
              vars
<1>2. CASE PlugOrUnplug \/ ChargerFallsBack
  <2>1. eco' = [eco EXCEPT !.rest = None, !.dark = None]
    BY <1>2 DEF PlugOrUnplug, ChargerFallsBack, OwnLimit
  <2>2. eco'.rest = None
    BY <2>1, TypeParts DEF EcoStates
  <2>3. register' \in {register} \cup World.ownLimits
    BY <1>2 DEF PlugOrUnplug, ChargerFallsBack
  <2> QED
    BY <2>2, <2>3
<1> QED
  BY <1>1, <1>2 DEF Next

THEOREM ChargeableSafety == Spec => ChargeableOrZero
<1>1. TypeOK /\ [Next]_vars =>
        [register' \notin World.ownLimits \cup {0, register} =>
           /\ Ampere * register' >= site.config.min
           /\ solar'.lastTarget = None => Ampere * register' >= World.hardwareMin]_vars
  <2> SUFFICES ASSUME TypeOK, [Next]_vars, register' \notin World.ownLimits \cup {0, register}
               PROVE  /\ Ampere * register' >= site.config.min
                      /\ solar'.lastTarget = None => Ampere * register' >= World.hardwareMin
    OBVIOUS
  <2>1. SomePoll
    BY OtherRegister
  <2> QED
    BY <2>1, PollIsChargeable
<1> QED
  BY <1>1, ControlTypes, PTL DEF Spec, ChargeableOrZero

-----------------------------------------------------------------------------
(* LimitsAreKept: the ramp and the roundings come after the limits were    *)
(* combined, but a ramp only lowers a target that is in whole tenths.      *)

LEMMA TargetIsCombined ==
  ASSUME NEW c, SolarConfig(c), NEW mode, NEW ws \in WriteStates,
         NEW wallbox, ControlWallbox(wallbox), NEW wish, wish.solar \in SolarStates,
         wish.target \in Maybe(Nat), NEW limit \in Maybe(Nat),
         NEW combined, combined = CombineLimits(c, wallbox, wish.target, limit),
         NEW ramped, ramped = RampedTo(c, ws, wallbox, wish, combined),
         NEW target, target = Target(c, mode, combined, ramped), target # None
  PROVE  /\ combined.target \in Nat /\ combined.target # None
         /\ target \in Nat /\ target <= combined.target
<1>1. LimitsConfig(c) /\ LimitsWallbox(wallbox) /\ Ampere * wallbox.register \in Nat
  BY DEF SolarConfig, ControlWallbox, SolarWallbox, Ampere
<1>2. combined.target # None /\ combined.target \in Nat
  <2>1. combined.target \in Maybe(Nat)
    BY <1>1, CombineLimitsType
  <2>2. combined.target # None
    BY DEF Target
  <2> QED
    BY <2>1, <2>2 DEF Maybe
<1>3. Baseline(wish.solar, ws.last, Ampere * wallbox.register) \in Nat
  BY <1>1, BaselineType DEF WriteStates
<1>4. ramped \in Nat /\ ramped <= combined.target
  BY <1>2, <1>3, RampedType, MaybeType DEF RampedTo, Maybe
<1>5. PICK n \in Int : combined.target = 100 * n
  <2> DEFINE low == Tightest(c, wallbox, wish.target, limit)
  <2>1. wish.target # None /\ wish.target \in Nat
    BY <1>2 DEF CombineLimits, Maybe
  <2>2. low.amps \in Nat
    BY <1>1, <2>1, TightestIsLowest
  <2> HIDE DEF low
  <2>3. combined.target = Tenths(low.amps)
    BY <1>2, <2>1 DEF CombineLimits, low
  <2>4. combined.target = 100 * ((low.amps + 50) \div 100)
    BY <2>3 DEF Tenths
  <2> QED
    BY <2>2, <2>4
<1>6. Tenths(ramped) \in Nat /\ Tenths(ramped) <= combined.target
  BY <1>4, <1>5, TenthsNear, TenthsStayBelow
<1> QED
  BY <1>2, <1>6 DEF Target

(* What the sensors leave the charger, after the fallback and the fuse.    *)
Chargeable(c) == SolarConfig(c) /\ c.fixed \in Nat /\ c.min > 0
Permits(c, wallbox, house, dec, amps) ==
  /\ \A i \in {c.max, wallbox.cableMax, wallbox.evMax} \ {None} : amps <= i + 550
  /\ dec.fallback => amps <= c.safe + 550
  /\ c.dlb /\ DlbInputsValid(c, house, wallbox) =>
       \A p \in UsedPhases(c, wallbox.draw) :
         /\ house[p] # None
         /\ house[p] - ChargerShare(c, wallbox.draw[p]) + amps <= c.fuse - c.margin + 550

LEMMA EvaluateRespects ==
  ASSUME NEW c, Chargeable(c), NEW mode, mode # "off",
         NEW strategy, NEW wallbox, ControlWallbox(wallbox),
         NEW house \in [Phases -> Maybe(Int)], NEW power \in Powers, NEW observed,
         NEW st \in SolarStates, NEW ws \in WriteStates, NEW d \in Nat,
         NEW result, result = Evaluate(c, mode, strategy, wallbox, house, power, observed, st, ws, d),
         NEW dec, dec = result.decision, dec.target # None,
         NEW amps, amps = 1000 * Amperes(dec.target)
  PROVE  Permits(c, wallbox, house, dec, amps)
<1>0. SolarConfig(c) /\ c.fixed \in Nat /\ c.min > 0
  BY DEF Chargeable
<1>1. PICK wish : wish = Wish(c, mode, strategy, wallbox, power, observed, st, d)
  OBVIOUS
<1>2. PICK dlb : dlb = Dlb(c, house, wallbox)
  OBVIOUS
<1>3. PICK combined : combined = CombineLimits(c, wallbox, wish.target, dlb.limit)
  OBVIOUS
<1>4. PICK ramped : ramped = RampedTo(c, ws, wallbox, wish, combined)
  OBVIOUS
<1>5. PICK target : target = Target(c, mode, combined, ramped)
  OBVIOUS
<1>6. EvaluatesTo(c, mode, ws, wallbox, wish, dlb, combined, ramped, target, result)
  BY <1>1, <1>2, <1>3, <1>4, <1>5, EvaluateByName
<1>7. dec.target = target /\ dec.fallback = ~dlb.valid
  BY <1>6 DEF EvaluatesTo
<1>8. wish.solar \in SolarStates /\ wish.target \in Maybe(Nat)
  BY <1>0, <1>1, WishType
<1>9. dlb.limit \in Maybe(Nat)
  BY <1>0, <1>2, DlbType
<1>10. /\ combined.target \in Nat /\ combined.target # None
       /\ target \in Nat /\ target <= combined.target
  BY <1>0, <1>3, <1>4, <1>5, <1>7, <1>8, <1>9, TargetIsCombined
<1>11. LimitsConfig(c) /\ LimitsWallbox(wallbox)
  BY <1>0 DEF SolarConfig, ControlWallbox, SolarWallbox
<1>12. /\ Amperes(target) \in Int /\ Amperes(combined.target) \in Int
       /\ Amperes(target) <= Amperes(combined.target)
       /\ amps = 1000 * Amperes(target)
  <2>1. target \in Int /\ combined.target \in Int
    BY <1>10
  <2>2. Amperes(target) \in Int /\ Amperes(combined.target) \in Int
    BY <2>1, AmperesNear
  <2>3. Amperes(target) <= Amperes(combined.target)
    BY <1>10, <2>1, AmperesRise
  <2> QED
    BY <1>7, <2>2, <2>3
<1>13. amps \in Int /\ amps <= 1000 * Amperes(combined.target)
  BY <1>12
<1>14. \A i \in Limiting(c, wallbox, wish.target, dlb.limit) :
         1000 * Amperes(combined.target) <= i + 550
  BY <1>3, <1>8, <1>9, <1>10, <1>11, TargetWithinLimits
<1>15. \A i \in Nat : i \in Limiting(c, wallbox, wish.target, dlb.limit) => amps <= i + 550
  BY <1>12, <1>13, <1>14
<1>16. ASSUME NEW i \in {c.max, wallbox.cableMax, wallbox.evMax} \ {None}
       PROVE  amps <= i + 550
  <2>1. i \in Nat
    BY <1>11 DEF LimitsConfig, LimitsWallbox, Maybe
  <2>2. i \in Limiting(c, wallbox, wish.target, dlb.limit)
    BY DEF Limiting
  <2> QED
    BY <1>15, <2>1, <2>2
<1>17. ASSUME dec.fallback
       PROVE  amps <= c.safe + 550
  <2>1. ~dlb.valid
    BY <1>7, <1>17
  <2>2. dlb.limit = c.safe
    BY <1>2, <2>1 DEF Dlb, DlbResult, Fallback, Unlimited
  <2>3. c.safe \in Nat /\ c.safe # None
    BY <1>11, NoneIsNoInt DEF LimitsConfig
  <2>4. c.safe \in Limiting(c, wallbox, wish.target, dlb.limit)
    BY <2>2, <2>3 DEF Limiting
  <2> QED
    BY <1>15, <2>3, <2>4
<1>18. ASSUME c.dlb, DlbInputsValid(c, house, wallbox),
              NEW p \in UsedPhases(c, wallbox.draw)
       PROVE  /\ house[p] # None
              /\ house[p] - ChargerShare(c, wallbox.draw[p]) + amps <= c.fuse - c.margin + 550
  <2>1. house[p] # None
    BY <1>18, UsedAreRequired DEF DlbInputsValid
  <2>2. DlbInputsValid(c, house, wallbox) = TRUE
    BY <1>18 DEF DlbInputsValid
  <2>3. dlb = DlbResult(c, TRUE, house, wallbox.draw) /\ dlb.valid
    BY <1>2, <1>18, <2>2, ValidInputsSuffice DEF Dlb
  <2>4. house[p] - ChargerShare(c, wallbox.draw[p]) + 1000 * Amperes(combined.target)
          <= c.fuse - c.margin + 550
    <3>1. PICK least : least = combined.target
      OBVIOUS
    <3>2. least = CombineLimits(c, wallbox, wish.target, dlb.limit).target /\ least # None
      BY <1>3, <1>10, <3>1
    <3>3. house[p] - ChargerShare(c, wallbox.draw[p]) + 1000 * Amperes(least)
            <= c.fuse - c.margin + 550
      <4>1. Balanced(c) /\ LimitsWallbox(wallbox)
        BY <1>0, <1>11, <1>18 DEF Balanced
      <4>2. PICK valid : valid = DlbInputsValid(c, house, wallbox)
        OBVIOUS
      <4>3. dlb = DlbResult(c, valid, house, wallbox.draw)
        BY <1>2, <4>2 DEF Dlb
      <4>4. dlb.valid
        BY <2>3
      <4>5. PICK wanted : wanted = wish.target
        OBVIOUS
      <4>6. /\ wanted \in Maybe(Nat)
            /\ least = CombineLimits(c, wallbox, wanted, dlb.limit).target /\ least # None
        BY <1>8, <3>2, <4>5
      <4> QED
        BY <4>1, <4>3, <4>4, <4>6, FuseKeepsItsMargin
    <3> QED
      BY <3>1, <3>3
  <2>5. p \in Phases /\ house[p] \in Int
    BY <2>1, UsedPhasesExist DEF Maybe
  <2>6. ChargerShare(c, wallbox.draw[p]) \in Int
    BY <1>11, <2>5 DEF ChargerShare, Higher, LimitsWallbox, Draws
  <2>7. c.fuse \in Nat /\ c.margin \in Nat
    BY <1>11 DEF LimitsConfig
  <2> QED
    BY <1>12, <1>13, <2>1, <2>4, <2>5, <2>6, <2>7
<1> QED
  BY <1>16, <1>17, <1>18 DEF Permits

(* A poll's register is what its decision wants, by its own readings.      *)
LEMMA PollRespects ==
  ASSUME TypeOK, register' \notin {0, register}, NEW vehicle \in Vehicles,
         NEW limits \in World.limits, NEW house \in World.houses,
         PollReading(vehicle, limits, house)
  PROVE  Respects(Config, limits, HouseCurrents(Config, house), vehicle.draw, Ampere * register')
<1>1. PollStates /\ site \in Sites
  BY TypeParts DEF PollStates
<1>2. PICK d \in World.gaps, sun \in World.suns, attempt \in World.attempts :
        Poll(d, vehicle, limits, house, sun, attempt)
  BY DEF PollReading
<1>3. PICK wallbox : wallbox = Wallbox(vehicle, limits)
  OBVIOUS
<1>4. PICK in : in = Seen(d, wallbox, house, sun)
  OBVIOUS
<1>5. PICK result, dec, guarded, ordered :
        /\ PollOf(d, wallbox, in, attempt, result, dec, guarded, ordered)
        /\ result = ResultOf(in, wallbox, d)
  BY <1>1, <1>2, <1>3, <1>4, PollByName
<1>6. /\ d \in Nat /\ ControlWallbox(wallbox) /\ Inputs(in, d)
      /\ PollResults(in, wallbox, attempt, result, dec, guarded, ordered)
      /\ dec = result.decision
      /\ Concluded(Config, wallbox, in, result, guarded, ordered, attempt, d)
  BY <1>5 DEF PollOf
<1>7. dec.target # None /\ register' = Amperes(dec.target) /\ in.mode # "off"
  BY <1>1, <1>5, PollWrites
<1>8. /\ wallbox.draw = vehicle.draw
      /\ wallbox.cableMax = limits.cable /\ wallbox.evMax = limits.ev
  BY <1>3 DEF Wallbox
<1>9. in.house = HouseCurrents(Config, house) /\ in.valid = DlbInputsValid(Config, in.house, wallbox)
  BY <1>4 DEF Seen
<1>10. SolarConfig(Config) /\ Config.fixed \in Nat /\ Config.min > 0
  <2>1. site.config.min \in Currents
    BY <1>1, SiteAssumption DEF Configurable, Configs
  <2> QED
    BY <1>1, <2>1, ConfigType, CurrentsType DEF PollStates
<1>11. decision' = [reason |-> guarded.decision.reason, fallback |-> guarded.decision.fallback,
                    valid |-> in.valid]
  BY <1>6 DEF Concluded
<1>12. guarded.decision.fallback = dec.fallback
  <2>1. dec \in Decisions /\ guarded.decision = [dec EXCEPT !.write = guarded.decision.write]
    BY <1>6 DEF PollResults, ResultFacts
  <2> QED
    BY <2>1 DEF Decisions
<1>13. PICK c : c = Config
  OBVIOUS
<1>14. PICK amps : amps = 1000 * Amperes(dec.target)
  OBVIOUS
<1>15. PICK mode : mode = in.mode
  OBVIOUS
<1>16. PICK strategy : strategy = in.strategy
  OBVIOUS
<1> HIDE DEF Config
<1>17. Permits(c, wallbox, in.house, dec, amps)
  <2>a. PICK currents : currents = in.house
    OBVIOUS
  <2>b. PICK power : power = in.power
    OBVIOUS
  <2>c. PICK st : st = in.solar
    OBVIOUS
  <2>d. PICK ws : ws = in.write
    OBVIOUS
  <2>e. PICK observed : observed = in.phases.phases
    OBVIOUS
  <2>1. result = Evaluate(c, mode, strategy, wallbox, currents, power, observed, st, ws, d)
    BY <1>5, <1>13, <1>15, <1>16, <2>a, <2>b, <2>c, <2>d, <2>e DEF ResultOf
  <2>2. /\ currents \in [Phases -> Maybe(Int)] /\ power \in Powers /\ st \in SolarStates
        /\ ws \in WriteStates
    BY <1>6, <2>a, <2>b, <2>c, <2>d DEF Inputs
  <2>3. Chargeable(c) /\ mode # "off"
    BY <1>7, <1>10, <1>13, <1>15 DEF Chargeable
  <2>4. ControlWallbox(wallbox) /\ d \in Nat /\ dec = result.decision /\ dec.target # None
    BY <1>6, <1>7
  <2>5. Permits(c, wallbox, currents, dec, amps)
    BY <1>14, <2>1, <2>2, <2>3, <2>4, EvaluateRespects
  <2> QED
    BY <2>5, <2>a
<1>18. amps = Ampere * register'
  BY <1>7, <1>14 DEF Ampere
<1>19. \A p \in UsedPhases(c, vehicle.draw) :
         (IF c.scope = "including" THEN vehicle.draw[p] ELSE 0) = ChargerShare(c, vehicle.draw[p])
  <2>1. vehicle.draw \in Draws
    BY <1>6, <1>8 DEF ControlWallbox, SolarWallbox, LimitsWallbox
  <2>2. UsedPhases(c, vehicle.draw) \subseteq Phases
    BY <2>1, <1>10, <1>13, UsedPhasesExist DEF SolarConfig
  <2> QED
    BY <2>1, <2>2 DEF ChargerShare, Higher, Draws
<1> QED
  BY <1>8, <1>9, <1>11, <1>12, <1>13, <1>17, <1>18, <1>19
     DEF Permits, Respects, Elsewhere, Rounding

(* Whatever the configuration, the installation, its sensors and the       *)
(* timing: no poll writes more than the user, the cable, the vehicle, the  *)
(* safe current and the main fuse allow, up to the roundings.              *)
THEOREM LimitSafety == Spec => LimitsAreKept
<1>1. TypeOK =>
        [register' \notin {0, register} =>
           \A vehicle \in Vehicles, limits \in World.limits, house \in World.houses :
             \/ Respects(Config, limits, HouseCurrents(Config, house), vehicle.draw,
                         Ampere * register')
             \/ ~PollReading(vehicle, limits, house)]_vars
  BY PollRespects
<1> QED
  BY <1>1, ControlTypes, PTL DEF Spec, LimitsAreKept

-----------------------------------------------------------------------------
(* PauseIsKept.  Inductive with: Eco Solar has rested for at least as long *)
(* as the engine counts since its stop, for the whole pause once it is     *)
(* active again, and a vehicle that left is seen first.                    *)

RestedEnough ==
  eco.rest # None =>
    /\ eco.rest >= solar.sinceStop
    /\ solar.active => eco.rest >= site.config.minPause
    /\ ~(session.connected /\ ~plugged)
PauseInv == TypeOK /\ RestedEnough

LEMMA PollRests ==
  ASSUME PauseInv, SomePoll
  PROVE  /\ RestedEnough'
         /\ register = 0 /\ register' > 0 /\ eco'.rest # None =>
              eco'.rest >= site.config.minPause
<1>1. PollStates /\ eco \in EcoStates
  BY TypeParts DEF PauseInv
<1>2. PICK d, wallbox, in, attempt, result, dec, guarded, ordered :
        PollOf(d, wallbox, in, attempt, result, dec, guarded, ordered)
  BY <1>1, PollHappens
<1>3. /\ d \in Nat /\ Inputs(in, d)
      /\ PollResults(in, wallbox, attempt, result, dec, guarded, ordered)
      /\ Concluded(Config, wallbox, in, result, guarded, ordered, attempt, d)
  BY <1>2 DEF PollOf
<1>4. PICK c : c = Config
  OBVIOUS
<1>5. PICK volts : volts = VoltsOf(in, wallbox)
  OBVIOUS
<1>6. PICK isEco : isEco = (in.mode = "solar" /\ in.strategy = "eco")
  OBVIOUS
<1>7. PICK next : next = result.solar
  OBVIOUS
<1>8. PICK st : st = in.solar
  OBVIOUS
<1>9. /\ solar' = next /\ session'.connected = plugged' /\ site' = site
      /\ eco'.rest = IF isEco /\ st.active /\ ~next.active THEN 0
                     ELSE For(isEco /\ eco.rest # None, eco.rest, d)
  <2>1. eco' = EcoSeen(c, in.mode, in.strategy, volts, st, next, attempt, d)
    BY <1>3, <1>4, <1>5, <1>7, <1>8 DEF Concluded, VoltsOf
  <2>2. EcoSeen(c, in.mode, in.strategy, volts, st, next, attempt, d).rest
          = IF isEco /\ st.active /\ ~next.active THEN 0
            ELSE For(isEco /\ eco.rest # None, eco.rest, d)
    BY <1>6 DEF EcoSeen
  <2> QED
    BY <1>3, <1>7, <2>1, <2>2 DEF Concluded
<1>10. /\ SolarFollows(c, in.mode, in.strategy, st, next, dec.target, volts)
       /\ next \in SolarStates /\ st \in SolarStates
  BY <1>3, <1>4, <1>5, <1>7, <1>8 DEF PollResults, ResultFacts, Inputs
<1>11. c.minPause = site.config.minPause /\ c.minPause \in Nat /\ c.minPause <= LongAgo
  BY <1>1, <1>4, ConfigType DEF PollStates, SolarConfig
<1>12. /\ eco.rest \in Maybe(EcoAges) /\ solar.sinceStop \in 0..LongAgo
       /\ st.active \in BOOLEAN /\ next.active \in BOOLEAN
  BY <1>1, <1>10 DEF EcoStates, PollStates, SolarStates
<1>13. CASE eco'.rest = None
  BY <1>13, NoneIsNoInt DEF RestedEnough
<1>14. CASE eco'.rest # None
  <2>1. isEco
    BY <1>3, <1>9, <1>12, <1>14, ForType
  <2>2. /\ next.active /\ ~st.active => ~(st.sinceStop < c.minPause)
        /\ ~next.active /\ st.active => next.sinceStop = 0
        /\ next.active = st.active \/ next.active => next.sinceStop = st.sinceStop
        /\ dec.target # None => next.active
    BY <1>6, <1>10, <2>1 DEF SolarFollows
  <2>3. ~(session'.connected /\ ~plugged')
    BY <1>9
  <2>4. register = 0 /\ register' > 0 => next.active
    <3>1. register' \in Nat
      BY PollTypes DEF PauseInv, TypeOK
    <3> QED
      BY <1>1, <1>2, <2>2, <3>1, PollWrites
  <2>5. CASE st.active /\ ~next.active
    <3>1. eco'.rest = 0 /\ next.sinceStop = 0
      BY <1>9, <2>1, <2>2, <2>5
    <3> QED
      BY <1>9, <2>3, <2>4, <2>5, <3>1 DEF RestedEnough
  <2>6. CASE ~(st.active /\ ~next.active)
    <3>1. eco.rest # None /\ eco'.rest = Lower(eco.rest + d, 2 * LongAgo)
      BY <1>3, <1>9, <1>12, <1>14, <2>6, ForType
    <3>2. /\ eco.rest \in EcoAges /\ eco.rest >= solar.sinceStop
          /\ solar.active => eco.rest >= c.minPause
          /\ ~(session.connected /\ ~plugged)
      BY <1>11, <1>12, <3>1 DEF Maybe, PauseInv, RestedEnough
    <3>3. st = Later(solar, d)
      BY <1>3, <1>8, <3>2 DEF Inputs
    <3>4. /\ st.active => solar.active
          /\ st.sinceStop = Aged(solar.sinceStop, d)
      BY <1>1, <3>3, LaterGoesOn DEF PollStates
    <3>5. st.sinceStop = Lower(solar.sinceStop + d, LongAgo)
      BY <1>12, <3>4, NoneIsNoInt DEF Aged
    <3>6. eco'.rest >= st.sinceStop /\ eco'.rest \in Nat /\ st.sinceStop \in Nat
      BY <1>3, <1>12, <3>1, <3>2, <3>5, BothAge
    <3>7. next.sinceStop = st.sinceStop
      BY <1>12, <2>2, <2>6
    <3>8. next.active => eco'.rest >= c.minPause
      <4>1. CASE st.active
        <5>1. eco.rest >= c.minPause
          BY <3>2, <3>4, <4>1
        <5> QED
          BY <1>3, <1>11, <3>1, <3>2, <5>1, GrainAssumption DEF Lower, EcoAges
      <4>2. CASE ~st.active
        BY <1>11, <2>2, <3>6, <4>2
      <4> QED
        BY <4>1, <4>2
    <3> QED
      BY <1>9, <1>11, <2>3, <2>4, <3>6, <3>7, <3>8 DEF RestedEnough
  <2> QED
    BY <2>5, <2>6
<1> QED
  BY <1>13, <1>14

(* PauseIsKept: neither a change of mode or strategy and back, nor a new   *)
(* session, nor lost writes let Eco Solar charge again during the pause.   *)
THEOREM PauseSafety == Spec => PauseIsKept
<1>1. Init => PauseInv
  BY InitTypes DEF PauseInv, RestedEnough, Init, NoEco
<1>2. PauseInv /\ [Next]_vars =>
        /\ PauseInv'
        /\ register = 0 /\ register' > 0 /\ eco'.rest # None => eco'.rest >= site.config.minPause
  <2> SUFFICES ASSUME PauseInv, [Next]_vars
               PROVE  /\ PauseInv'
                      /\ register = 0 /\ register' > 0 /\ eco'.rest # None =>
                           eco'.rest >= site.config.minPause
    OBVIOUS
  <2>1. TypeOK'
    BY StepTypes DEF PauseInv
  <2>2. CASE SomePoll
    BY <2>1, <2>2, PollRests DEF PauseInv
  <2>3. CASE UserActs \/ UNCHANGED vars
    <3>1. UNCHANGED <<site, session, plugged, register>>
          /\ (UNCHANGED <<solar, eco>> \/ eco' = NoEco \/ (solar' = Inactive /\ eco' = NoEco))
      BY <2>3 DEF UserActs, SetMode, PauseOrResume, SetUntilUnplug, SetMaxCurrent,
                  SetFixedCurrent, NewIntention, vars
    <3>2. NoEco.rest = None
      BY DEF NoEco
    <3>3. register \in Nat
      BY DEF PauseInv, TypeOK
    <3> QED
      BY <2>1, <3>1, <3>2, <3>3 DEF PauseInv, RestedEnough
  <2>4. CASE PlugOrUnplug \/ ChargerFallsBack
    <3>1. eco' = [eco EXCEPT !.rest = None, !.dark = None]
      BY <2>4 DEF PlugOrUnplug, ChargerFallsBack, OwnLimit
    <3>2. eco'.rest = None
      BY <3>1, TypeParts DEF PauseInv, EcoStates
    <3> QED
      BY <2>1, <3>2 DEF PauseInv, RestedEnough
  <2> QED
    BY <2>2, <2>3, <2>4 DEF Next
<1> QED
  BY <1>1, <1>2, PTL DEF Spec, PauseIsKept
-----------------------------------------------------------------------------
(* EcoStopsInTime.  Inductive with: in lasting dark, an active Eco Solar   *)
(* is in its minimum runtime, which began before the dark, or its stop     *)
(* timer runs since the first poll after that; an inactive one is paused.  *)

Fading(dark, since, stopFor, runtime, gaps) ==
  IF since < runtime THEN dark <= since
  ELSE stopFor # None /\ \E d \in gaps : dark < runtime + stopFor + d
FadesInTime(c) ==
  /\ World.gaps # {}
  /\ Fading(eco.dark, solar.sinceStart, solar.stopFor, c.minRuntime, World.gaps)
  /\ solar.sinceStart < c.minRuntime \/ solar.stopFor < c.stopDelay
Darkening == eco.dark # None => IF solar.active THEN FadesInTime(site.config) ELSE register = 0
DarkInv == TypeOK /\ Darkening

LEMMA LaterRuns ==
  ASSUME solar \in SolarStates, NEW d
  PROVE  /\ Later(solar, d).active = solar.active
         /\ Later(solar, d).sinceStart = Aged(solar.sinceStart, d)
         /\ Later(solar, d).stopFor = Aged(solar.stopFor, d)
BY DEF Later, SolarStates

(* A surplus below the stop threshold is below that of a start.            *)
LEMMA DimIsNotBright ==
  ASSUME NEW c, SolarConfig(c), c.stop <= c.start, NEW next \in SolarStates,
         NEW volts \in Nat \ {0}, Dim(c, next, volts)
  PROVE  ~Bright(c, next, volts)
<1>1. next.filtered \in Nat
  BY DEF SolarStates, Dim, Maybe
<1>2. (c.solarMin * volts) \div 1000 \in Nat
  BY DivisionKeepsNat DEF SolarConfig
<1> QED
  BY <1>1, <1>2 DEF Dim, Bright, Threshold, Higher, SolarConfig

(* One poll in the dark.  Each timer grows at least as fast as the dark.   *)
LEMMA DarkerStill ==
  ASSUME NEW runtime \in 0..LongAgo, NEW delay \in 0..LongAgo,
         NEW gaps \in SUBSET (Nat \ {0}), NEW d \in gaps,
         NEW dark \in Maybe(EcoAges), NEW since \in 0..LongAgo, NEW stopFor \in Maybe(0..LongAgo),
         dark # None => Fading(dark, since, stopFor, runtime, gaps),
         NEW darker, darker = IF dark = None THEN 0 ELSE Lower(dark + d, 2 * LongAgo),
         NEW later, later = Lower(since + d, LongAgo),
         NEW waited, waited = IF stopFor = None THEN 0 ELSE Lower(stopFor + d, LongAgo),
         later < runtime \/ waited < delay
  PROVE  Fading(darker, later, waited, runtime, gaps)
<1>1. later \in Nat /\ waited \in Nat /\ waited # None
  BY GrainAssumption, NoneIsNoInt DEF Lower, Maybe
<1>2. CASE dark = None
  <2>1. darker = 0 /\ darker < runtime + waited + d
    BY <1>1, <1>2, GrainAssumption
  <2> QED
    BY <1>1, <2>1 DEF Fading
<1>3. CASE dark # None /\ since < runtime
  <2>1. dark \in Nat /\ darker <= dark + d /\ darker \in Nat /\ dark <= since
    BY <1>3, GrainAssumption DEF Lower, Maybe, EcoAges, Fading
  <2>2. later < runtime => later = since + d
    BY GrainAssumption DEF Lower
  <2>3. darker < runtime + waited + d
    BY <1>1, <1>3, <2>1
  <2>4. later < runtime => darker <= later
    BY <1>3, <2>1, <2>2
  <2> QED
    BY <1>1, <2>3, <2>4 DEF Fading
<1>4. CASE dark # None /\ ~(since < runtime)
  <2>1. PICK e \in gaps : dark < runtime + stopFor + e
    BY <1>4 DEF Fading
  <2>2. dark \in Nat /\ darker <= dark + d /\ darker \in Nat /\ stopFor \in Nat /\ e \in Nat
    BY <1>4, <2>1, GrainAssumption DEF Lower, Maybe, EcoAges, Fading
  <2>3. ~(later < runtime)
    BY <1>4, GrainAssumption DEF Lower
  <2>4. waited = stopFor + d
    BY <1>4, <2>2, <2>3, GrainAssumption, NoneIsNoInt DEF Lower
  <2>5. darker < runtime + waited + e
    BY <2>1, <2>2, <2>4
  <2> QED
    BY <1>1, <2>3, <2>5 DEF Fading
<1> QED
  BY <1>2, <1>3, <1>4

LEMMA PollDarkens ==
  ASSUME DarkInv, SomePoll
  PROVE  Darkening'
<1>1. PollStates /\ eco \in EcoStates
  BY TypeParts DEF DarkInv
<1>2. PICK d, wallbox, in, attempt, result, dec, guarded, ordered :
        PollOf(d, wallbox, in, attempt, result, dec, guarded, ordered)
  BY <1>1, PollHappens
<1>3. /\ d \in World.gaps /\ d \in Nat \ {0} /\ Inputs(in, d) /\ ControlWallbox(wallbox)
      /\ wallbox.connected = plugged
      /\ PollResults(in, wallbox, attempt, result, dec, guarded, ordered)
      /\ Concluded(Config, wallbox, in, result, guarded, ordered, attempt, d)
  BY <1>1, <1>2, WorldType DEF PollOf, PollStates
<1>4. PICK c : c = Config
  OBVIOUS
<1>5. PICK volts : volts = VoltsOf(in, wallbox)
  OBVIOUS
<1>6. PICK dims : dims = /\ in.mode = "solar" /\ in.strategy = "eco" /\ Dim(c, result.solar, volts)
                         /\ plugged /\ attempt = "ok"
  OBVIOUS
<1>7. PICK next : next = result.solar
  OBVIOUS
<1>8. /\ solar' = next /\ site' = site
      /\ eco'.dark = For(dims, eco.dark, d)
  <2>1. eco' = EcoSeen(c, in.mode, in.strategy, volts, in.solar, next, attempt, d)
    BY <1>3, <1>4, <1>5, <1>7 DEF Concluded, VoltsOf
  <2>2. dims = (/\ (in.mode = "solar" /\ in.strategy = "eco") /\ next.filtered # None /\ plugged
                /\ attempt = "ok" /\ next.filtered < Threshold(c, c.stop, volts))
    BY <1>6, <1>7 DEF Dim
  <2>3. EcoSeen(c, in.mode, in.strategy, volts, in.solar, next, attempt, d).dark
          = For(dims, eco.dark, d)
    BY <2>2 DEF EcoSeen
  <2> QED
    BY <1>3, <1>7, <2>1, <2>3 DEF Concluded
<1> SUFFICES ASSUME eco'.dark # None
             PROVE  IF next.active THEN FadesInTime(site.config)' ELSE register' = 0
  BY <1>8 DEF Darkening
<1>9. eco.dark \in Maybe(EcoAges)
  BY <1>1 DEF EcoStates
<1>10. dims /\ eco'.dark = IF eco.dark = None THEN 0 ELSE Lower(eco.dark + d, 2 * LongAgo)
  BY <1>3, <1>8, <1>9, ForType
<1>11. /\ in.solar \in SolarStates /\ next \in SolarStates
       /\ SolarFollows(c, in.mode, in.strategy, in.solar, next, dec.target, volts)
       /\ attempt # "scheduled" /\ plugged /\ in.mode = "solar" /\ dec.target = None => ordered = 0
  BY <1>3, <1>4, <1>5, <1>7 DEF PollResults, ResultFacts, Inputs
<1>12. /\ dec.target # None => next.active
       /\ next.active /\ ~in.solar.active => Bright(c, next, volts)
       /\ in.solar.active /\ next.active => FadesOut(c, in.solar, next)
  BY <1>6, <1>7, <1>10, <1>11 DEF SolarFollows
<1>13. CASE ~next.active
  <2>1. ordered = 0 /\ attempt = "ok"
    BY <1>6, <1>10, <1>11, <1>12, <1>13
  <2> QED
    BY <1>3, <1>13, <2>1, NoneIsNoInt DEF Concluded
<1>14. CASE next.active
  <2>1. /\ SolarConfig(c) /\ c.stop <= c.start
        /\ c.minRuntime = site.config.minRuntime /\ c.stopDelay = site.config.stopDelay
        /\ c.minRuntime \in 0..LongAgo /\ c.stopDelay \in 0..LongAgo
    BY <1>1, <1>4, ConfigType, GrainAssumption DEF PollStates, SolarConfig
  <2>2. volts \in Nat \ {0}
    BY <1>3, <1>5, VoltageSumIsPositive DEF VoltsOf
  <2>3. in.solar.active
    BY <1>6, <1>7, <1>10, <1>11, <1>12, <1>14, <2>1, <2>2, DimIsNotBright
  <2>4. in.solar = Later(solar, d)
    BY <1>3, <2>3 DEF Inputs, Inactive
  <2>5. solar.active /\ solar.sinceStart \in 0..LongAgo /\ solar.stopFor \in Maybe(0..LongAgo)
    BY <1>1, <2>3, <2>4, LaterRuns DEF PollStates, SolarStates
  <2>6. /\ in.solar.sinceStart = Lower(solar.sinceStart + d, LongAgo)
        /\ in.solar.stopFor = IF solar.stopFor = None THEN None
                              ELSE Lower(solar.stopFor + d, LongAgo)
    <3>1. /\ in.solar.sinceStart = Aged(solar.sinceStart, d)
          /\ in.solar.stopFor = Aged(solar.stopFor, d)
      BY <1>1, <2>4, LaterRuns DEF PollStates
    <3>2. solar.sinceStart # None
      BY <2>5, NoneIsNoInt
    <3> QED
      BY <3>1, <3>2 DEF Aged
  <2>7. PICK waited : waited = IF solar.stopFor = None THEN 0
                               ELSE Lower(solar.stopFor + d, LongAgo)
    OBVIOUS
  <2>8. /\ next.sinceStart = in.solar.sinceStart
        /\ ~(in.solar.sinceStart < c.minRuntime) => next.stopFor = waited /\ waited < c.stopDelay
    <3>1. solar.stopFor # None => Lower(solar.stopFor + d, LongAgo) # None
      BY <1>3, <2>5, NoneIsNoInt, GrainAssumption DEF Lower, Maybe
    <3> QED
      BY <1>12, <1>14, <2>3, <2>6, <2>7, <3>1 DEF FadesOut
  <2>9. World.gaps \in SUBSET (Nat \ {0}) /\ World' = World
    BY <1>1, <1>8, WorldType DEF PollStates, World
  <2>10. PICK gaps \in SUBSET (Nat \ {0}) : gaps = World.gaps
    BY <2>9
  <2>11. PICK later : later = in.solar.sinceStart
    OBVIOUS
  <2>12. later < c.minRuntime \/ waited < c.stopDelay
    BY <2>8, <2>11
  <2>13. Fading(eco'.dark, later, waited, c.minRuntime, gaps)
    <3>1. PICK dark \in Maybe(EcoAges) : dark = eco.dark
      BY <1>9
    <3>2. PICK darker : darker = eco'.dark
      OBVIOUS
    <3>3. PICK since \in 0..LongAgo : since = solar.sinceStart
      BY <2>5
    <3>4. PICK stopFor \in Maybe(0..LongAgo) : stopFor = solar.stopFor
      BY <2>5
    <3>5. PICK runtime \in 0..LongAgo : runtime = c.minRuntime
      BY <2>1
    <3>6. PICK delay \in 0..LongAgo : delay = c.stopDelay
      BY <2>1
    <3>7. dark # None => Fading(dark, since, stopFor, runtime, gaps)
      BY <2>1, <2>5, <2>10, <3>1, <3>3, <3>4, <3>5 DEF DarkInv, Darkening, FadesInTime
    <3>8. /\ darker = IF dark = None THEN 0 ELSE Lower(dark + d, 2 * LongAgo)
          /\ later = Lower(since + d, LongAgo)
          /\ waited = IF stopFor = None THEN 0 ELSE Lower(stopFor + d, LongAgo)
          /\ later < runtime \/ waited < delay
          /\ d \in gaps
      BY <1>3, <1>10, <2>6, <2>7, <2>10, <2>11, <2>12, <3>1, <3>2, <3>3, <3>4, <3>5, <3>6
    <3>9. Fading(darker, later, waited, runtime, gaps)
      BY <3>7, <3>8, DarkerStill
    <3> QED
      BY <3>2, <3>5, <3>9
  <2>14. World'.gaps # {} /\ site'.config.minRuntime = c.minRuntime
         /\ site'.config.stopDelay = c.stopDelay /\ World'.gaps = gaps
    BY <1>3, <1>8, <2>1, <2>9, <2>10
  <2>15. solar'.sinceStart = later /\ (~(later < c.minRuntime) => solar'.stopFor = waited)
    BY <1>8, <2>8, <2>11
  <2>16. Fading(eco'.dark, solar'.sinceStart, solar'.stopFor, c.minRuntime, gaps)
    BY <2>13, <2>15 DEF Fading
  <2>17. solar'.sinceStart < c.minRuntime \/ solar'.stopFor < c.stopDelay
    BY <2>12, <2>15
  <2> QED
    BY <1>14, <2>14, <2>16, <2>17 DEF FadesInTime
<1> QED
  BY <1>13, <1>14

(* EcoStopsInTime: in lasting dark the current is off as soon as minimum   *)
(* runtime and stop delay are over, up to the rest of a gap between polls, *)
(* whatever the user changes, the sensors miss or the charger loses before *)
(* the dark began, for all delays and gaps.                                *)
THEOREM StopSafety == Spec => []EcoStopsInTime
<1>1. Init => DarkInv
  BY InitTypes DEF DarkInv, Darkening, Init, NoEco
<1>2. DarkInv /\ [Next]_vars => DarkInv'
  <2> SUFFICES ASSUME DarkInv, [Next]_vars PROVE DarkInv'
    OBVIOUS
  <2>1. TypeOK'
    BY StepTypes DEF DarkInv
  <2>2. CASE SomePoll
    BY <2>1, <2>2, PollDarkens DEF DarkInv
  <2>3. CASE UserActs \/ UNCHANGED vars
    <3>1. UNCHANGED <<site, register>> /\ (UNCHANGED <<solar, eco>> \/ eco' = NoEco)
      BY <2>3 DEF UserActs, SetMode, PauseOrResume, SetUntilUnplug, SetMaxCurrent,
                  SetFixedCurrent, NewIntention, vars
    <3>2. NoEco.dark = None
      BY DEF NoEco
    <3> QED
      BY <2>1, <3>1, <3>2 DEF DarkInv, Darkening, FadesInTime, World
  <2>4. CASE PlugOrUnplug \/ ChargerFallsBack
    <3>1. eco' = [eco EXCEPT !.rest = None, !.dark = None]
      BY <2>4 DEF PlugOrUnplug, ChargerFallsBack, OwnLimit
    <3>2. eco'.dark = None
      BY <3>1, TypeParts DEF DarkInv, EcoStates
    <3> QED
      BY <2>1, <3>2 DEF DarkInv, Darkening
  <2> QED
    BY <2>2, <2>3, <2>4 DEF Next
<1>3. DarkInv => EcoStopsInTime
  <2> SUFFICES ASSUME DarkInv, eco.dark # None, register # 0
               PROVE  \E d \in World.gaps : eco.dark < Patience(site.config) + (d - 1)
    BY DEF EcoStopsInTime
  <2>1. /\ site.config.minRuntime \in Nat /\ site.config.stopDelay \in Nat
        /\ World.gaps \subseteq Nat \ {0}
        /\ eco.dark \in Nat /\ solar.sinceStart \in Nat /\ solar.stopFor \in Maybe(Nat)
    <3>1. PollStates /\ eco \in EcoStates
      BY TypeParts DEF DarkInv
    <3>2. Config.minRuntime \in Nat /\ Config.stopDelay \in Nat
      BY <3>1, ConfigType DEF PollStates, SolarConfig
    <3>3. site.config.minRuntime = Config.minRuntime /\ site.config.stopDelay = Config.stopDelay
      BY <3>1, ConfigType DEF PollStates
    <3> QED
      BY <3>1, <3>2, <3>3, WorldType
         DEF PollStates, SolarStates, EcoStates, EcoAges, Maybe
  <2>2. FadesInTime(site.config)
    BY DEF DarkInv, Darkening
  <2>3. CASE solar.sinceStart < site.config.minRuntime
    <3>1. PICK d \in World.gaps : TRUE
      BY <2>2 DEF FadesInTime
    <3>2. eco.dark < Patience(site.config) + (d - 1)
      BY <2>1, <2>2, <2>3, <3>1 DEF Patience, FadesInTime, Fading
    <3> QED
      BY <3>2
  <2>4. CASE ~(solar.sinceStart < site.config.minRuntime)
    <3>1. /\ solar.stopFor # None /\ solar.stopFor < site.config.stopDelay
          /\ \E d \in World.gaps : eco.dark < site.config.minRuntime + solar.stopFor + d
      BY <2>2, <2>4 DEF FadesInTime, Fading
    <3>2. PICK d \in World.gaps : eco.dark < site.config.minRuntime + solar.stopFor + d
      BY <3>1
    <3>3. eco.dark < Patience(site.config) + (d - 1)
      BY <2>1, <3>1, <3>2 DEF Patience, Maybe
    <3> QED
      BY <3>3
  <2> QED
    BY <2>3, <2>4
<1> QED
  BY <1>1, <1>2, <1>3, PTL DEF Spec
=============================================================================
