----------------------------- MODULE SolarEngine -----------------------------
(***************************************************************************)
(* The Solar strategies: from the grid or surplus sensor and the charger's *)
(* own power to a charging current.  Pure operators on the engine's state; *)
(* CurrentControl holds that state.                                        *)
(*                                                                         *)
(* Points in time are ages in ticks: of a condition since it began (None   *)
(* when it does not hold), of the last start and the last stop.  They stop *)
(* growing at LongAgo, which exceeds every delay they are compared with.   *)
(* Surplus power is kept in steps of PowerGrain watts.                     *)
(***************************************************************************)
EXTENDS CurrentLimits, FiniteSets

CONSTANTS LongAgo, PowerGrain
ASSUME GrainAssumption == LongAgo \in Nat /\ PowerGrain \in Nat \ {0}

Strategies == {"disabled", "eco", "smart", "boost"}

SolarStates ==
  [active : BOOLEAN, startFor : Maybe(0..LongAgo), stopFor : Maybe(0..LongAgo),
   sinceStart : 0..LongAgo, sinceStop : 0..LongAgo,
   filtered : Maybe(Nat), lastTarget : Maybe(Nat)]
Inactive == [active |-> FALSE, startFor |-> None, stopFor |-> None, sinceStart |-> LongAgo,
             sinceStop |-> LongAgo, filtered |-> None, lastTarget |-> None]

Aged(age, d) == IF age = None THEN None ELSE Lower(age + d, LongAgo)
Later(solar, d) ==
  [solar EXCEPT !.startFor = Aged(@, d), !.stopFor = Aged(@, d),
                !.sinceStart = Aged(@, d), !.sinceStop = Aged(@, d)]

-----------------------------------------------------------------------------
(* Inputs.  ControlInputReader.read: one sensor of the surplus, one of the *)
(* grid, or import and export of a smart meter.  A surplus or meter sensor *)
(* that went quiet at 0 still counts as 0.                                 *)

SolarInput(c, sun) ==
  LET quiet(state) == TrustedOrQuiet(state, c.solarUnits)
  IN  CASE c.input = "surplus" -> [surplus |-> quiet(sun.first), grid |-> None]
        [] c.input = "dsmr" ->
             [surplus |-> None,
              grid |-> IF quiet(sun.first) = None \/ quiet(sun.second) = None THEN None
                       ELSE quiet(sun.first) - quiet(sun.second)]
        [] OTHER -> [surplus |-> None, grid |-> Trusted(sun.first, c.solarUnits)]

(* resolve_surplus_power with its deadbands (mutant: import is a negative   *)
(* surplus).                                                               *)
Deadband(c, w) == IF w \in (1 - c.deadband)..(c.deadband - 1) THEN 0 ELSE w
ExportOf(c, grid) == IF c.input = "grid" /\ c.positiveExport THEN grid ELSE 0 - grid
OwnPower(wallbox) == IF wallbox.charging THEN Higher(0, wallbox.power) ELSE 0
SurplusSigned(c, power, wallbox) ==
  IF power.surplus # None THEN Deadband(c, power.surplus)
  ELSE IF power.grid = None THEN None
  ELSE OwnPower(wallbox) + Deadband(c, ExportOf(c, power.grid))
Surplus(c, power, wallbox) ==
  IF power.surplus # None THEN Deadband(c, Higher(0, power.surplus))
  ELSE IF power.grid = None THEN None
  ELSE Higher(0, OwnPower(wallbox) + Deadband(c, ExportOf(c, power.grid)))

(* _filtered_surplus: towards the new value by d / (smoothing + d) of the  *)
(* way, in whole grains and at least one when time has passed.  The code's *)
(* filter approaches the value without reaching it; the model's reaches it.*)
Step(distance, c, d) ==
  LET share == (distance * d) \div ((c.smoothing + d) * PowerGrain)
  IN  IF d = 0 THEN 0 ELSE Lower(distance, PowerGrain * Higher(1, share))
Filtered(c, previous, w, d) ==
  IF previous = None \/ c.smoothing = 0 THEN w
  ELSE IF w >= previous THEN previous + Step(w - previous, c, d)
  ELSE previous - Step(previous - w, c, d)

(* resolve_solar_phase_context: how many phases a surplus is divided over. *)
SolarPhases(c, mode, strategy, wallbox, observed) ==
  LET used == Cardinality(Active(wallbox.draw))
  IN  IF wallbox.charging /\ used \in {1, 3} THEN used
      ELSE IF mode # "solar" \/ c.installed # 3 THEN c.installed
      ELSE IF wallbox.connected /\ observed \in {1, 3} THEN observed
      ELSE IF wallbox.charging \/ used \in {1, 3} THEN c.installed
      ELSE IF strategy = "eco" THEN IF wallbox.switch = 0 THEN 1 ELSE 3
      ELSE 1

(* resolve_effective_strategy, on top of resolve_active_solar_strategy.    *)
SolarStrategy(c, chosen, untilUnplug) ==
  IF untilUnplug /\ c.override # "inherit" THEN c.override
  ELSE IF chosen = "disabled" THEN c.strategy ELSE chosen

-----------------------------------------------------------------------------
(* Strategies.  A result is the new state, the target (None to pause) and  *)
(* the reason.                                                             *)

Share(watts, volts) == (watts * 1000) \div volts
Charge(solar, target) == [solar |-> solar, target |-> target, reason |-> "solar_mode"]
Pause(solar, why)     == [solar |-> solar, target |-> None, reason |-> why]

(* _evaluate_minimum_based_mode.                                           *)
MinimumBased(c, solar, strategy, surplus, volts, d) ==
  IF surplus = None
  THEN LET blind == [solar EXCEPT !.filtered = None]
       IN  IF c.failure = "continue_minimum" THEN Charge(blind, c.solarMin)
           ELSE Pause(blind, "sensor_unavailable")
  ELSE LET power == Filtered(c, solar.filtered, surplus, d)
           amps  == Share(power, volts)
       IN  Charge([solar EXCEPT !.filtered = power],
                  IF strategy = "smart" THEN Higher(c.solarMin, amps) ELSE c.solarMin + amps)

(* _evaluate_eco_solar_mode while it charges: a surplus below the stop     *)
(* threshold ends it after the minimum runtime and the stop delay.         *)
Threshold(c, watts, volts) == Higher(watts, (c.solarMin * volts) \div 1000)
EcoRunning(c, solar, power, volts) ==
  LET on     == [solar EXCEPT !.startFor = None]
      waited == IF solar.stopFor = None THEN 0 ELSE solar.stopFor
  IN  IF power >= Threshold(c, c.stop, volts)
      THEN Charge([on EXCEPT !.stopFor = None], Higher(Share(power, volts), c.solarMin))
      ELSE IF solar.sinceStart < c.minRuntime THEN Charge(on, c.solarMin)
      ELSE IF waited < c.stopDelay THEN Charge([on EXCEPT !.stopFor = waited], c.solarMin)
      ELSE Pause([on EXCEPT !.active = FALSE, !.stopFor = None,
                            !.sinceStart = 0, !.sinceStop = 0], "below_min_current")

(* ... and while it waits: a surplus above the start threshold starts it   *)
(* after the minimum pause and the start delay (mutants: without the       *)
(* pause; a cloud does not restart the delay).                             *)
EcoStart(c, solar, power, volts) ==
  Charge([solar EXCEPT !.active = TRUE, !.startFor = None, !.stopFor = None, !.sinceStart = 0],
         Higher(Share(power, volts), c.solarMin))
EcoWaitingNoPause(c, solar, power, volts) ==
  LET waited == IF solar.startFor = None THEN 0 ELSE solar.startFor
  IN  IF power < Threshold(c, c.start, volts)
      THEN Pause([solar EXCEPT !.startFor = None, !.stopFor = None], "below_min_current")
      ELSE IF waited < c.startDelay
      THEN Pause([solar EXCEPT !.startFor = waited, !.stopFor = None], "below_min_current")
      ELSE EcoStart(c, solar, power, volts)
EcoWaitingNoReset(c, solar, power, volts) ==
  LET waited == IF solar.startFor = None THEN 0 ELSE solar.startFor
  IN  IF power < Threshold(c, c.start, volts) \/ solar.sinceStop < c.minPause
      THEN Pause([solar EXCEPT !.stopFor = None], "below_min_current")
      ELSE IF waited < c.startDelay
      THEN Pause([solar EXCEPT !.startFor = waited, !.stopFor = None], "below_min_current")
      ELSE EcoStart(c, solar, power, volts)
EcoWaiting(c, solar, power, volts) ==
  LET off    == [solar EXCEPT !.stopFor = None]
      waited == IF solar.startFor = None THEN 0 ELSE solar.startFor
  IN  IF power < Threshold(c, c.start, volts)
      THEN Pause([off EXCEPT !.startFor = None], "below_min_current")
      ELSE IF solar.sinceStop < c.minPause THEN Pause(off, "below_min_current")
      ELSE IF waited < c.startDelay
      THEN Pause([off EXCEPT !.startFor = waited], "below_min_current")
      ELSE EcoStart(c, solar, power, volts)

Eco(c, solar, surplus, volts, d) ==
  IF surplus = None
  THEN Pause([solar EXCEPT !.filtered = None, !.startFor = None, !.stopFor = None],
             "sensor_unavailable")
  ELSE LET power == Filtered(c, solar.filtered, surplus, d)
           next  == [solar EXCEPT !.filtered = power]
       IN  IF solar.active THEN EcoRunning(c, next, power, volts)
           ELSE EcoWaiting(c, next, power, volts)

(* SolarEngine.evaluate.                                                   *)
Solar(c, solar, strategy, surplus, volts, d) ==
  CASE strategy = "eco"               -> Eco(c, solar, surplus, volts, d)
    [] strategy \in {"smart", "boost"} -> MinimumBased(c, solar, strategy, surplus, volts, d)
    [] OTHER                          -> Pause(solar, "below_min_current")

(* apply_ramp_limit: increases from the last target, the last write or the *)
(* charger's limit, in that order, in steps.                               *)
Baseline(solar, lastWritten, register) ==
  IF solar.lastTarget # None THEN solar.lastTarget
  ELSE IF lastWritten # None THEN lastWritten ELSE register
Ramped(c, target, baseline) ==
  IF target = None \/ c.ramp = 0 \/ target <= baseline THEN target
  ELSE Lower(target, Higher(c.min, baseline + c.ramp))
=============================================================================
