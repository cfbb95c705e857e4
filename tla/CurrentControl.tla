---------------------------- MODULE CurrentControl ----------------------------
(***************************************************************************)
(* One poll's way from sensors and charger registers to a charging current *)
(* and its write: controller.py with the limits, the dynamic load          *)
(* balancing (DLB), the Solar engine, the write decider, the runtime       *)
(* guards and the session.                                                 *)
(*                                                                         *)
(* A poll is one step: what other coroutines do between its awaits is the  *)
(* subject of WritePath and PhaseActions.  Times are counted in ticks; a   *)
(* poll follows the last one after a gap that the site allows.  A site is  *)
(* a configuration of the integration together with what its sensors,      *)
(* charger and vehicle may report.                                         *)
(***************************************************************************)
EXTENDS SolarEngine

CONSTANTS
  Sites,          \* configurations to explore, see SiteAssumption
  MinBetween,     \* min_seconds_between_writes
  PendingMaxAge,  \* pending_stable_max_age_s
  StartupTime,    \* STARTUP_STABILIZATION_MIN_SECONDS
  DlbGuardTime,   \* DLB_START_GUARD_SECONDS
  SolarGuardTime  \* SOLAR_START_GUARD_SECONDS

StableCycles == 2      \* stable_cycles_before_write
StartupPolls == 3      \* STARTUP_STABILIZATION_MIN_POLLS
ConfirmSamples == 2    \* DLB_ and SOLAR_START_GUARD_CONFIRM_SAMPLES
Ampere == 1000         \* min_current_change_a

(* A ControlConfig as config_flow.py and config_validation.py let the user *)
(* configure it (every phase of the DLB has its sensor); smoothing,        *)
(* deadband and ramp keep their defaults, the smoothing in ticks.          *)
Modes == {"off", "normal", "fixed_current", "solar"}
Currents == {Ampere * i : i \in 6..32}
Delays == 0..LongAgo
Configs == [
  min : Currents, max : Currents, safe : Currents, fixed : Currents, solarMin : Currents,
  fuse : Nat, margin : Nat, dlb : BOOLEAN, scope : {"including", "excluding"},
  installed : {1, 3}, needsUnits : BOOLEAN, solarUnits : BOOLEAN,
  strategy : Strategies, override : {"inherit", "eco", "smart", "boost"},
  failure : {"pause", "continue_minimum"}, input : {"surplus", "grid", "dsmr"},
  positiveExport : BOOLEAN, start : Nat, stop : Nat,
  startDelay : Delays, stopDelay : Delays, minRuntime : Delays, minPause : Delays,
  smoothing : Nat \ {0}, deadband : {150}, ramp : {2 * Ampere}, startup : Modes]
CurrentsInOrder(c) == c.min <= c.safe /\ c.safe <= c.max
SolarInOrder(c) == c.stop <= c.start /\ c.solarMin <= c.max /\ c.fixed <= c.max
Configurable(c) == c \in Configs /\ CurrentsInOrder(c) /\ SolarInOrder(c)

(* What sensors, charger, vehicle and user may do at a site: gaps between  *)
(* polls, the vehicle's draw and whether it reports charging, what a poll  *)
(* may read of register 405 and of the cable's and the vehicle's limits,   *)
(* sensor states, Attempts, limits that the charger sets by itself, what   *)
(* the user selects, voltages and the charger's own minimum.               *)
(* Attempts of the writing part of a poll: it works; it fails before the   *)
(* charger has taken the value (or a running phase task blocks it); it     *)
(* fails afterwards; this poll schedules a phase task, which blocks it.    *)
Attempts == {"ok", "lost", "landed", "scheduled"}
Worlds == [
  gaps : SUBSET (Nat \ {0}), vehicles : SUBSET [draw : [Phases -> Nat], charging : BOOLEAN],
  limits : SUBSET [switch : Maybe({0, 1}), cable : Maybe(Nat), ev : Maybe(Nat)],
  houses : SUBSET [Phases -> States],
  suns : SUBSET [first : States, second : States], attempts : SUBSET Attempts,
  ownLimits : SUBSET Nat, choices : SUBSET (Modes \X Maybe(Strategies)), pauses : BOOLEAN,
  untils : SUBSET {"solar", "fixed"}, settings : SUBSET Nat, volts : [Phases -> Maybe(Int)],
  hardwareMin : {Ampere * i : i \in 0..32}]

ASSUME SiteAssumption == \A s \in Sites : Configurable(s.config) /\ s.world \in Worlds
ASSUME TimeAssumption ==
  /\ {MinBetween, PendingMaxAge, StartupTime, DlbGuardTime, SolarGuardTime} \subseteq Nat
  /\ MinBetween <= PendingMaxAge   \* 5 s and 30 s, not configurable

VARIABLES
  site,     \* the site; never changes
  plugged,  \* whether a vehicle is connected
  register, \* register 5004 of the charger, in A
  control,  \* mode, strategy, pause, until-unplug mode, user's current settings
  session,  \* SessionRuntimeState, and the phases observed in this session
  solar,    \* PvRuntimeState
  write,    \* WriteState of the CurrentWriteDecider
  guards,   \* RuntimeGuardState
  decision, \* of the last poll
  late,     \* history: how long, and for how many polls, a write is overdue
  eco       \* history: how long Eco Solar has seen sun, and rested

vars == <<site, plugged, register, control, session, solar, write, guards, decision, late, eco>>

World == site.world
(* The control_config that build_control_config makes of the options;      *)
(* set_max_current and set_fixed_current change it in place.               *)
Config == [site.config EXCEPT !.max = control.max, !.fixed = control.fixed]

-----------------------------------------------------------------------------
(* Write decider.                                                          *)

WriteStates ==
  [last : Maybe(Nat), since : 0..MinBetween, cycles : 0..StableCycles,
   target : Maybe(Nat), age : Maybe(0..PendingMaxAge)]
NoWrite == [last |-> None, since |-> MinBetween, cycles |-> 0, target |-> None, age |-> None]
WriteLater(ws, d) ==
  [ws EXCEPT !.since = Lower(@ + d, MinBetween),
             !.age = IF @ = None THEN None ELSE Lower(@ + d, PendingMaxAge)]
NoPending(ws) == [ws EXCEPT !.cycles = 0, !.target = None, !.age = None]
Written(ws, amps) == [NoPending(ws) EXCEPT !.last = Ampere * amps, !.since = 0]
Waiting(ws) == [ws EXCEPT !.age = IF @ = None THEN 0 ELSE @]

(* _track_pending_write_target.                                            *)
Tracked(ws, target) ==
  LET w == Waiting(ws)
  IN  IF w.target = target THEN [w EXCEPT !.cycles = Lower(@ + 1, StableCycles)]
      ELSE [w EXCEPT !.target = target, !.cycles = 1]

Distance(a, b) == IF a >= b THEN a - b ELSE b - a

(* should_write_current, with the reported limit that every successful     *)
(* poll has read (mutants: a restless target never gets old; a reduction   *)
(* waits like an increase).                                                *)
ShouldWriteStable(ws, target, reported, immediate) ==
  LET lower == immediate /\ ws.last # None /\ target < ws.last
      next  == Tracked(ws, target)
  IN  IF Distance(target, reported) < Ampere THEN [ws |-> NoPending(ws), write |-> FALSE]
      ELSE IF lower THEN [ws |-> [Waiting(ws) EXCEPT !.target = target, !.cycles = StableCycles],
                          write |-> TRUE]
      ELSE [ws |-> next, write |-> ws.since >= MinBetween /\ next.cycles >= StableCycles]
ShouldWriteNoHurry(ws, target, reported, immediate) ==
  LET next == Tracked(ws, target)
      ripe == next.cycles >= StableCycles \/ next.age >= PendingMaxAge
  IN  IF Distance(target, reported) < Ampere THEN [ws |-> NoPending(ws), write |-> FALSE]
      ELSE [ws |-> next, write |-> ws.since >= MinBetween /\ ripe]
ShouldWrite(ws, target, reported, immediate) ==
  LET lower == immediate /\ ws.last # None /\ target < ws.last
      next  == Tracked(ws, target)
      ripe  == next.cycles >= StableCycles \/ next.age >= PendingMaxAge
      now   == ws.since >= MinBetween /\ ripe
  IN  IF Distance(target, reported) < Ampere THEN [ws |-> NoPending(ws), write |-> FALSE]
      ELSE IF lower THEN [ws |-> [Waiting(ws) EXCEPT !.target = target, !.cycles = StableCycles],
                          write |-> TRUE]
      ELSE [ws |-> IF now THEN [next EXCEPT !.cycles = StableCycles] ELSE next, write |-> now]

-----------------------------------------------------------------------------
(* Mode and session.                                                       *)

(* ModeRuntimeState.effective_mode.                                        *)
Effective(ctl) ==
  IF ctl.mode = "off" \/ ctl.paused THEN "off"
  ELSE IF ctl.until = "fixed" THEN "fixed_current"
  ELSE IF ctl.until = "solar" THEN "solar"
  ELSE ctl.mode

(* resolve_startup_mode, reset_to_default.                                 *)
StartupMode(c) ==
  IF c.startup = "solar" /\ c.strategy = "disabled" THEN "normal" ELSE c.startup
Default(ctl, c) ==
  [ctl EXCEPT !.mode = StartupMode(c), !.strategy = c.strategy, !.until = "none"]

(* _update_session_phase_observation: two polls in a row must agree.       *)
Observations == [phases : Maybe({1, 3}), pending : Maybe({1, 3})]
NothingSeen == [phases |-> None, pending |-> None]
Observed(seen, wallbox) ==
  LET used == Cardinality(Active(wallbox.draw))
  IN  IF ~wallbox.connected THEN NothingSeen
      ELSE IF ~wallbox.charging \/ used \notin {1, 3} \/ seen.phases = used
      THEN [seen EXCEPT !.pending = None]
      ELSE IF seen.pending = used THEN [phases |-> used, pending |-> None]
      ELSE [seen EXCEPT !.pending = used]

-----------------------------------------------------------------------------
(* Decision.                                                               *)

Limiters == {"dlb", "cable", "ev"}
Reasons ==
  {"none", "off_mode", "normal_mode", "fixed_current_mode", "solar_mode", "below_min_current",
   "sensor_unavailable", "safe_current_fallback"} \cup Limiters
NoDecision == [reason |-> "none", enabled |-> FALSE, target |-> None, by |-> "none",
               fallback |-> FALSE, write |-> FALSE]

Reason(fallback, by, modeReason) ==
  IF fallback THEN "safe_current_fallback"
  ELSE IF by # "none" THEN by ELSE modeReason

(* _mode_target.                                                           *)
ModeTarget(c, mode, strategy, st, power, wallbox, observed, d) ==
  CASE mode = "solar" ->
         Solar(c, st, strategy, Surplus(c, power, wallbox),
               VoltageSum(SolarPhases(c, mode, strategy, wallbox, observed), wallbox.volts), d)
    [] mode = "fixed_current" -> [solar |-> st, target |-> c.fixed, reason |-> "fixed_current_mode"]
    [] OTHER                  -> [solar |-> st, target |-> c.max, reason |-> "normal_mode"]

(* WallboxController.evaluate on the sensors' house currents and power.    *)
Evaluate(c, mode, strategy, wallbox, house, power, observed, st, ws, d) ==
  IF mode = "off"
  THEN [solar |-> Inactive, write |-> NoPending(ws),
        decision |-> [NoDecision EXCEPT !.reason = "off_mode", !.target = 0,
                                        !.write = wallbox.connected \/ wallbox.charging]]
  ELSE
  LET valid    == DlbInputsValid(c, house, wallbox)
      dlb      == DlbResult(c, valid, house, wallbox.draw)
      wish     == ModeTarget(c, mode, strategy, IF mode = "solar" THEN st ELSE Inactive,
                             power, wallbox, observed, d)
      combined == CombineLimits(c, wallbox, wish.target, dlb.limit)
      ramped   == Ramped(c, combined.target,
                         Baseline(wish.solar, ws.last, Ampere * wallbox.register))
      target   == IF mode # "solar" \/ combined.target = None THEN combined.target ELSE Tenths(ramped)
      next     == IF mode = "solar" THEN [wish.solar EXCEPT !.lastTarget = ramped] ELSE wish.solar
      fallback == ~dlb.valid
      nothing  == IF wish.reason = "sensor_unavailable" THEN wish.reason ELSE "below_min_current"
  IN  IF target = None
      THEN [solar |-> next, write |-> ws,
            decision |-> [NoDecision EXCEPT !.reason = nothing, !.by = combined.by,
                                            !.fallback = fallback]]
      ELSE LET verdict == ShouldWrite(ws, target, Ampere * wallbox.register,
                                      fallback \/ combined.by \in Limiters)
           IN  [solar |-> next, write |-> verdict.ws,
                decision |-> [reason |-> Reason(fallback, combined.by, wish.reason),
                              enabled |-> TRUE, target |-> target, by |-> combined.by,
                              fallback |-> fallback, write |-> verdict.write]]

-----------------------------------------------------------------------------
(* Runtime guards: each may take back decision.write.                      *)

GuardStates ==
  [polls : 0..StartupPolls, since : 0..StartupTime, charging : BOOLEAN,
   dlbLeft : -1..DlbGuardTime, dlbSamples : 0..ConfirmSamples,
   solarLeft : -1..SolarGuardTime, solarSamples : 0..ConfirmSamples]
NoGuards == [polls |-> 0, since |-> 0, charging |-> FALSE, dlbLeft |-> -1, dlbSamples |-> 0,
             solarLeft |-> -1, solarSamples |-> 0]
GuardsLater(g, d) ==
  [g EXCEPT !.since = Lower(@ + d, StartupTime), !.dlbLeft = Higher(@ - d, -1),
            !.solarLeft = Higher(@ - d, -1)]

(* record_startup_refresh, startup_stabilization_ready.                    *)
Refreshed(g) == [g EXCEPT !.polls = Lower(@ + 1, StartupPolls)]
Ready(g) == g.polls >= StartupPolls /\ g.since >= StartupTime

(* should_defer_startup_safe_current_fallback_write.                       *)
Deferred(c, g, wallbox, valid, dec) ==
  /\ c.dlb /\ ~Ready(g) /\ wallbox.charging /\ ~valid
  /\ dec.fallback /\ dec.reason = "safe_current_fallback" /\ dec.target # None
  /\ Distance(dec.target, c.safe) <= 10
  /\ Ampere * wallbox.register > c.safe + 10

(* apply_dlb_start_transient_guard: in the first moments of charging the   *)
(* meter and the charger disagree, so a reduction needs a second sample.   *)
Started(g, wallbox) == wallbox.charging /\ ~g.charging
DlbGuard(c, g, wallbox, dec) ==
  LET begun == IF Started(g, wallbox) THEN [g EXCEPT !.dlbLeft = DlbGuardTime, !.dlbSamples = 0] ELSE g
      lowers == /\ dec.write /\ dec.target # None /\ dec.by = "dlb"
                /\ dec.target + 10 < Ampere * wallbox.register
      samples == Lower(begun.dlbSamples + 1, ConfirmSamples)
  IN  IF c.scope # "including"
      THEN [guards |-> [g EXCEPT !.dlbLeft = -1, !.dlbSamples = 0], write |-> dec.write]
      ELSE IF ~(wallbox.charging /\ begun.dlbLeft >= 0 /\ lowers)
      THEN [guards |-> [begun EXCEPT !.dlbSamples = 0], write |-> dec.write]
      ELSE IF dec.target <= c.min + 10 THEN [guards |-> begun, write |-> dec.write]
      ELSE [guards |-> [begun EXCEPT !.dlbSamples = samples], write |-> samples >= ConfirmSamples]

(* apply_solar_start_transient_guard.                                      *)
SolarGuard(g, mode, wallbox, dec, inputReady) ==
  LET begun == IF Started(g, wallbox)
               THEN [g EXCEPT !.solarLeft = SolarGuardTime, !.solarSamples = 0] ELSE g
      within == wallbox.charging /\ (begun.solarLeft >= 0 \/ ~Ready(g))
      pauses == /\ dec.write /\ ~dec.enabled /\ dec.target # None /\ dec.target <= 10
                /\ dec.reason \in {"below_min_current", "sensor_unavailable"} /\ dec.by = "none"
      samples == Lower(begun.solarSamples + 1, ConfirmSamples)
  IN  IF mode # "solar"
      THEN [guards |-> [g EXCEPT !.solarLeft = -1, !.solarSamples = 0], write |-> dec.write]
      ELSE IF ~(within /\ pauses)
      THEN [guards |-> [begun EXCEPT !.solarSamples = 0], write |-> dec.write]
      ELSE IF inputReady THEN [guards |-> begun, write |-> dec.write]
      ELSE [guards |-> [begun EXCEPT !.solarSamples = samples], write |-> samples >= ConfirmSamples]

(* _apply_runtime_guards.                                                  *)
Guarded(c, g, mode, wallbox, valid, inputReady, dec, scheduled) ==
  LET first == [dec EXCEPT !.write =
                  @ /\ ~scheduled /\ ~Deferred(c, g, wallbox, valid, dec)]
      afterDlb == DlbGuard(c, g, wallbox, first)
      second == [first EXCEPT !.write = afterDlb.write]
      afterSolar == SolarGuard(afterDlb.guards, mode, wallbox, second, inputReady)
  IN  [guards |-> [afterSolar.guards EXCEPT !.charging = wallbox.charging],
       decision |-> [second EXCEPT !.write = afterSolar.write]]

(* WriteRuntime.enqueue_decision with nothing queued: the amperes it       *)
(* writes, if any (mutant: a Solar pause needs should_write).              *)
OrderedOnDemand(mode, wallbox, dec, blocked) ==
  IF blocked \/ ~wallbox.connected \/ ~dec.write THEN None ELSE Amperes(dec.target)
Ordered(mode, wallbox, dec, blocked) ==
  LET limited == dec.reason = "below_min_current" /\ dec.by \in Limiters
      shaded  == mode = "solar" /\ dec.reason \in {"below_min_current", "sensor_unavailable"}
  IN  IF blocked \/ ~wallbox.connected THEN None
      ELSE IF ~dec.enabled /\ (limited \/ shaded) THEN 0
      ELSE IF dec.write THEN Amperes(dec.target)
      ELSE None

-----------------------------------------------------------------------------
(* Poll.                                                                   *)

(* WallboxReader.read_wallbox_state, update_charging_active.               *)
Largest(draw) == Higher(draw[1], Higher(draw[2], draw[3]))
Wallbox(vehicle, limits) ==
  LET draw  == vehicle.draw
      power == (draw[1] * PhaseVoltage(World.volts[1]) + draw[2] * PhaseVoltage(World.volts[2])
                + draw[3] * PhaseVoltage(World.volts[3])) \div 1000
  IN  [connected |-> plugged, draw |-> draw, power |-> power, volts |-> World.volts,
       charging |-> vehicle.charging \/ power > 100 \/ Largest(draw) > 500,
       switch |-> limits.switch, register |-> register, hardwareMin |-> World.hardwareMin,
       cableMax |-> limits.cable, evMax |-> limits.ev]

AtRest == [draw |-> [p \in Phases |-> 0], charging |-> FALSE]
Vehicles == IF plugged THEN World.vehicles \cup {AtRest} ELSE {AtRest}

(* How long, and for how many polls in a row, a register that should be    *)
(* changed is left as it is by a poll that may write it.  While the        *)
(* integration starts it may hold the reduction of a running charge to the *)
(* fallback: polls with such a reduction are not counted, and the count    *)
(* begins anew after them.                                                 *)
NotLate == [age |-> None, urgent |-> 0]
Overdue(dec, ordered, attempt, starting, own, d) ==
  LET lower == dec.target < Ampere * register
      open  == /\ attempt = "ok" /\ plugged /\ dec.enabled
               /\ ordered = None /\ ~(Distance(dec.target, Ampere * register) < Ampere)
               /\ ~(starting /\ dec.fallback /\ lower)
  IN  [age    |-> IF ~open THEN None ELSE IF late.age = None THEN 0 ELSE late.age + d,
       urgent |-> IF open /\ lower /\ own /\ (dec.fallback \/ dec.by \in Limiters)
                  THEN Lower(late.urgent + 1, 2) ELSE 0]

(* For how long no poll of Eco Solar has seen less sun than a start needs  *)
(* (polls of another strategy do not look), and for how long it has rested *)
(* after a stop or, in polls that may write, seen less sun than it needs.  *)
NoEco == [sun |-> None, rest |-> None, dark |-> None]
Patience(c) == c.minRuntime + c.stopDelay
For(holds, age, d) == IF ~holds THEN None ELSE IF age = None THEN 0 ELSE Lower(age + d, 2 * LongAgo)
EcoSeen(c, mode, strategy, volts, before, next, attempt, d) ==
  LET isEco == mode = "solar" /\ strategy = "eco"
      seen  == isEco /\ next.filtered # None
  IN  [sun  |-> For(IF isEco THEN seen /\ ~(next.filtered < Threshold(c, c.start, volts))
                    ELSE mode = "solar" /\ eco.sun # None, eco.sun, d),
       rest |-> IF isEco /\ before.active /\ ~next.active THEN 0
                ELSE For(isEco /\ eco.rest # None, eco.rest, d),
       dark |-> For(/\ seen /\ plugged /\ attempt = "ok"
                    /\ next.filtered < Threshold(c, c.stop, volts), eco.dark, d)]

(* What a poll has read, and the mode it works with: a vehicle that left   *)
(* ends the session and its mode, a new one starts with fresh write state. *)
(* (\E x \in {e} stands for LET x == e IN; TLC evaluates e once.)          *)
Seen(d, wallbox, house, sun) ==
  LET ends   == session.known /\ session.connected /\ ~plugged
      begins == session.known /\ ~session.connected /\ plugged
      ctl    == IF ends THEN Default(control, Config) ELSE control
      currents == HouseCurrents(Config, house)
  IN  [begins |-> begins, control |-> ctl, mode |-> Effective(ctl),
       strategy |-> SolarStrategy(Config, ctl.strategy, ctl.until = "solar"),
       phases   |-> Observed(IF begins \/ ends THEN NothingSeen ELSE session.seen, wallbox),
       guards   |-> Refreshed(GuardsLater(guards, d)),
       write    |-> IF begins THEN NoWrite ELSE WriteLater(write, d),
       solar    |-> IF ends THEN Inactive ELSE Later(solar, d),
       house    |-> currents,
       power    |-> SolarInput(Config, sun),
       valid    |-> DlbInputsValid(Config, currents, wallbox)]

(* _validate_solar_inputs: the solar_input_state is "ready".               *)
InputReady(c, in, wallbox) ==
  c.strategy # "disabled" /\ in.valid /\ Surplus(c, in.power, wallbox) # None

(* The end of a poll: its decision is written, and everything kept for the *)
(* next one.                                                               *)
Concluded(c, wallbox, in, result, guarded, ordered, attempt, d) ==
  /\ control' = in.control
  /\ session' = [known |-> TRUE, connected |-> plugged, seen |-> in.phases]
  /\ solar' = result.solar
  /\ guards' = guarded.guards
  /\ write' = IF ordered # None /\ attempt = "ok" THEN Written(result.write, ordered)
              ELSE result.write
  /\ register' = IF ordered # None /\ attempt # "lost" THEN ordered ELSE register
  /\ decision' = [reason |-> guarded.decision.reason, fallback |-> guarded.decision.fallback,
                  valid |-> in.valid]
  /\ late' = Overdue(result.decision, ordered, attempt, wallbox.charging /\ ~Ready(in.guards),
                     in.write.last = Ampere * register, d)
  /\ eco' = EcoSeen(c, in.mode, in.strategy,
                    VoltageSum(SolarPhases(c, in.mode, in.strategy, wallbox, in.phases.phases),
                               wallbox.volts),
                    in.solar, result.solar, attempt, d)
  /\ UNCHANGED <<site, plugged>>

(* _async_update_data; a poll whose reads fail changes nothing and makes   *)
(* the gap longer.                                                         *)
Poll(d, vehicle, limits, house, sun, attempt) ==
  \E c \in {Config}, wallbox \in {Wallbox(vehicle, limits)} :
  \E in \in {Seen(d, wallbox, house, sun)} :
  \E result \in {Evaluate(c, in.mode, in.strategy, wallbox, in.house, in.power, in.phases.phases,
                          in.solar, in.write, d)} :
  \E guarded \in {Guarded(c, in.guards, in.mode, wallbox, in.valid, InputReady(c, in, wallbox),
                          result.decision, attempt = "scheduled")} :
  \E ordered \in {Ordered(in.mode, wallbox, guarded.decision, attempt = "scheduled")} :
    Concluded(c, wallbox, in, result, guarded, ordered, attempt, d)

SomePoll ==
  \E d \in World.gaps, vehicle \in Vehicles, limits \in World.limits,
     house \in World.houses, sun \in World.suns, attempt \in World.attempts :
    Poll(d, vehicle, limits, house, sun, attempt)

-----------------------------------------------------------------------------
(* The user, the vehicle and the charger.                                  *)

(* A new intention of the user, a limit that the charger sets by itself.   *)
NewIntention == eco' = NoEco
OwnLimit == /\ late' = NotLate
            /\ eco' = [eco EXCEPT !.rest = None, !.dark = None]

(* set_mode keeps the Solar state when the new mode is Solar as well.      *)
SetMode(mode, strategy) ==
  /\ control' = [control EXCEPT !.mode = mode, !.until = "none",
                   !.strategy = IF mode # "solar" THEN @
                                ELSE IF strategy = None THEN Config.strategy ELSE strategy]
  /\ IF mode = "solar" THEN UNCHANGED <<solar, eco>> ELSE solar' = Inactive /\ NewIntention
  /\ UNCHANGED <<site, plugged, register, session, write, guards, decision, late>>

(* pause_charging resets the Solar state, resume_charging does not.        *)
PauseOrResume ==
  /\ control' = [control EXCEPT !.paused = ~@]
  /\ IF control.paused THEN UNCHANGED <<solar, eco>> ELSE solar' = Inactive /\ NewIntention
  /\ UNCHANGED <<site, plugged, register, session, write, guards, decision, late>>

(* set_solar_until_unplug, set_fixed_current_until_unplug; switching one   *)
(* off leaves the other on.                                                *)
SetUntilUnplug(until, enabled) ==
  /\ control' = [control EXCEPT !.until =
                   IF enabled THEN until ELSE IF @ = until THEN "none" ELSE @]
  /\ solar' = Inactive
  /\ NewIntention
  /\ UNCHANGED <<site, plugged, register, session, write, guards, decision, late>>

(* set_max_current, set_fixed_current with their validation.               *)
SetMaxCurrent(i) ==
  /\ i >= Config.min /\ i <= 32 * Ampere
  /\ control' = [control EXCEPT !.max = i]
  /\ UNCHANGED <<site, plugged, register, session, solar, write, guards, decision, late, eco>>
SetFixedCurrent(i) ==
  /\ i >= Config.min /\ i <= Config.max
  /\ control' = [control EXCEPT !.fixed = i]
  /\ UNCHANGED <<site, plugged, register, session, solar, write, guards, decision, late, eco>>

(* The charger brings its own limit to a new session, and falls back to it *)
(* when it misses keepalives.                                              *)
PlugOrUnplug ==
  /\ plugged' = ~plugged
  /\ register' \in IF plugged THEN {register} ELSE {register} \cup World.ownLimits
  /\ OwnLimit
  /\ UNCHANGED <<site, control, session, solar, write, guards, decision>>
ChargerFallsBack ==
  /\ register' \in World.ownLimits \ {register}
  /\ OwnLimit
  /\ UNCHANGED <<site, plugged, control, session, solar, write, guards, decision>>

-----------------------------------------------------------------------------

Init ==
  /\ site \in Sites
  /\ plugged \in BOOLEAN
  /\ register \in World.ownLimits
  /\ control = [mode |-> StartupMode(site.config), strategy |-> site.config.strategy,
                paused |-> FALSE, until |-> "none",
                max |-> site.config.max, fixed |-> site.config.fixed]
  /\ session = [known |-> FALSE, connected |-> FALSE, seen |-> NothingSeen]
  /\ solar = Inactive
  /\ write = NoWrite
  /\ guards = NoGuards
  /\ decision = [reason |-> "none", fallback |-> FALSE, valid |-> TRUE]
  /\ late = NotLate
  /\ eco = NoEco

UserActs ==
  \/ \E choice \in World.choices : SetMode(choice[1], choice[2])
  \/ World.pauses /\ PauseOrResume
  \/ \E until \in World.untils, enabled \in BOOLEAN : SetUntilUnplug(until, enabled)
  \/ \E i \in World.settings : SetMaxCurrent(i) \/ SetFixedCurrent(i)

Next == SomePoll \/ UserActs \/ PlugOrUnplug \/ ChargerFallsBack

Spec == Init /\ [][Next]_vars

-----------------------------------------------------------------------------
(* Properties.                                                             *)

(* The state of each part, as its class declares it; every age within its  *)
(* bound, every counter below the number of samples it is compared with.   *)
TypeOK ==
  /\ site \in Sites /\ plugged \in BOOLEAN /\ register \in Nat
  /\ control \in [mode : Modes, strategy : Strategies,
                  paused : BOOLEAN, until : {"none", "solar", "fixed"}, max : Nat, fixed : Nat]
  /\ session \in [known : BOOLEAN, connected : BOOLEAN, seen : Observations]
  /\ solar \in SolarStates /\ write \in WriteStates /\ guards \in GuardStates
  /\ decision \in [reason : Reasons, fallback : BOOLEAN, valid : BOOLEAN]
  /\ late \in [age : Maybe(Nat), urgent : 0..2]
  /\ eco \in [sun : Maybe(0..2 * LongAgo), rest : Maybe(0..2 * LongAgo),
              dark : Maybe(0..2 * LongAgo)]

(* A current the charger should have but has not is corrected by the first *)
(* poll after PendingMaxAge, even if the target changes with every poll:   *)
(* the decider's resets and throttle never add up to a longer wait.  Only  *)
(* the confirmation that the DLB guard wants makes it one poll more, and   *)
(* fallbacks that the start-up may hold are not counted.                   *)
MismatchIsBounded ==
  late.age # None => \E d \in World.gaps : late.age < PendingMaxAge + d

(* A reduction for the DLB, the cable, the vehicle or the fallback waits   *)
(* for at most one poll while the register holds what the integration      *)
(* wrote last in this session: for the confirmation of the DLB guard,      *)
(* never for the throttle or a stable target.  The exception is the        *)
(* fallback of a running charge before the start-up is over, which is held *)
(* until then whatever the integration itself has written; a reduction     *)
(* that is due afterwards, or by another limit, has its one poll from      *)
(* there.                                                                  *)
ReductionWaitsOnce == late.urgent <= 1

(* The DLB falls back to the safe current only in polls whose inputs were  *)
(* reported invalid: the phases validated by ControlInputReader always     *)
(* include those the DlbEngine then uses.                                  *)
FallbackOnlyWithoutSensors == decision.fallback => ~decision.valid

(* A write is 0 or a current the charger may charge with: limits, ramp,    *)
(* smoothing and rounding never leave a current between 0 and the lowest   *)
(* one that the integration may request.  That of the charger is kept too, *)
(* except in Solar modes, whose ramp may begin at the configured minimum.  *)
ChargeableOrZero ==
  [][register' \notin World.ownLimits \cup {0, register} =>
       /\ Ampere * register' >= site.config.min
       /\ solar'.lastTarget = None => Ampere * register' >= World.hardwareMin]_vars

(* A poll that raises or lowers the current exceeds no limit by more than  *)
(* two roundings, of 0.05 A and of half an ampere, although the Solar ramp *)
(* and both roundings come after the limits were combined: not the user's, *)
(* the cable's and the vehicle's; not, without valid sensors, the safe     *)
(* current; and with them house and charger together leave the fuse its    *)
(* margin on every phase in use.                                           *)
Rounding == 550
Elsewhere(c, currents, draw, p) == currents[p] - (IF c.scope = "including" THEN draw[p] ELSE 0)
Respects(c, limits, currents, draw, amps) ==
  /\ \A i \in {c.max, limits.cable, limits.ev} \ {None} : amps <= i + Rounding
  /\ decision'.fallback => amps <= c.safe + Rounding
  /\ c.dlb /\ decision'.valid =>
       \A p \in UsedPhases(c, draw) :
         /\ currents[p] # None
         /\ Elsewhere(c, currents, draw, p) + amps <= c.fuse - c.margin + Rounding
(* (The first conjunct follows from the second and is cheap to evaluate.)  *)
PollReading(vehicle, limits, house) ==
  /\ decision'.valid =
       DlbInputsValid(Config, HouseCurrents(Config, house), Wallbox(vehicle, limits))
  /\ \E d \in World.gaps, sun \in World.suns, attempt \in World.attempts \cap {"ok", "landed"} :
       Poll(d, vehicle, limits, house, sun, attempt)
LimitsAreKept ==
  [][register' \notin {0, register} =>
       \A vehicle \in Vehicles, limits \in World.limits, house \in World.houses :
         \/ Respects(Config, limits, HouseCurrents(Config, house), vehicle.draw,
                     Ampere * register')
         \/ ~PollReading(vehicle, limits, house)]_vars

(* Eco Solar starts only when none of its polls in the start delay saw the *)
(* (smoothed) surplus below the start threshold.  A change of strategy     *)
(* keeps the timer, so a delay that began before Smart Solar took over     *)
(* still counts when Eco Solar is selected again.                          *)
StartNeedsLastingSun ==
  [][~solar.active /\ solar'.active =>
       eco'.sun # None /\ eco'.sun >= site.config.startDelay]_vars

(* After Eco Solar has stopped, no poll turns the current on again before  *)
(* the minimum pause is over.  The pause binds Eco Solar only: a poll of   *)
(* another strategy or mode may charge within it, and ends the rest.       *)
PauseIsKept ==
  [][register = 0 /\ register' > 0 /\ eco'.rest # None =>
       eco'.rest >= site.config.minPause]_vars

(* With less surplus than charging needs, the current is off at the latest *)
(* when the minimum runtime and the stop delay are over.  The stop delay   *)
(* begins with the first poll after the minimum runtime, which a gap of d  *)
(* ticks between polls puts off by up to d - 1.                            *)
EcoStopsInTime ==
  eco.dark # None /\ register # 0 =>
    \E d \in World.gaps : eco.dark < Patience(site.config) + (d - 1)
=============================================================================
