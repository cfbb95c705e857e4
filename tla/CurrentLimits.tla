---------------------------- MODULE CurrentLimits ----------------------------
(***************************************************************************)
(* What limits the charging current: the sensors a poll may trust, the     *)
(* dynamic load balancing (DLB), and the combination of all limits into    *)
(* one target.  Pure operators; CurrentControl has the state.              *)
(*                                                                         *)
(* Currents are integers in mA, powers in W, voltages in V.  A missing     *)
(* value (Python's None) is the constant None.  Phases are 1, 2, 3; a      *)
(* triple has one entry for each.                                          *)
(***************************************************************************)
EXTENDS Integers

CONSTANT None
ASSUME NoneIsNoNumber == None \notin Int

Phases == 1..3
Maybe(S) == S \cup {None}

Higher(a, b) == IF a >= b THEN a ELSE b
Lower(a, b)  == IF a <= b THEN a ELSE b

(* Python's round(x, 1) of a current, up to ties, which binary fractions   *)
(* hardly ever meet; int(round(x)) of the result, where ties are exact and *)
(* go to the even ampere.                                                  *)
Tenths(i) == 100 * ((i + 50) \div 100)
Amperes(i) ==
  LET whole == i \div 1000
      rest  == i % 1000
  IN  IF rest > 500 \/ (rest = 500 /\ whole % 2 = 1) THEN whole + 1 ELSE whole

(* normalized_phase_voltage, voltage_sum_for_phases.                       *)
PhaseVoltage(v) == IF v # None /\ v \in 180..260 THEN v ELSE 230
VoltageSum(count, volts) ==
  IF count = 1 THEN PhaseVoltage(volts[1])
  ELSE PhaseVoltage(volts[1]) + PhaseVoltage(volts[2]) + PhaseVoltage(volts[3])

-----------------------------------------------------------------------------
(* Sensors.  A Home Assistant state: its number (None when unknown,        *)
(* unavailable or not a number), whether its last update is older than     *)
(* control_sensor_timeout_s, and its unit: the base unit, a supported      *)
(* multiple of it, none at all, or another.                                *)

States == [value : Maybe(Int), stale : BOOLEAN, unit : {"base", "kilo", "missing", "other"}]

Factor(unit) == IF unit = "kilo" THEN 1000 ELSE 1

(* _normalize_sensor_value.                                                *)
Normalized(state, needsUnit) ==
  IF \/ state.value = None
     \/ state.unit = "other"
     \/ state.unit = "missing" /\ needsUnit
  THEN None ELSE state.value * Factor(state.unit)

(* state_as_current_a, state_as_power_w.                                   *)
Trusted(state, needsUnit) ==
  IF state.stale THEN None ELSE Normalized(state, needsUnit)

(* stale_zero_state_as_power_w: a surplus sensor that has gone quiet at 0. *)
TrustedOrQuiet(state, needsUnit) ==
  IF state.stale /\ Normalized(state, needsUnit) # 0 THEN None
  ELSE Normalized(state, needsUnit)

(* Phases the vehicle draws from: _active_phase_indices of the DLB and the *)
(* threshold of _required_dlb_sensor_indices.                              *)
Active(draw) == {p \in Phases : draw[p] >= 500}

(* _required_dlb_sensor_indices (mutant: whatever is wired suffices).      *)
RequiredFirst(c, wallbox) == {1}
Required(c, wallbox) ==
  IF c.installed = 1 THEN {1}
  ELSE IF wallbox.charging /\ Active(wallbox.draw) # {} THEN Active(wallbox.draw)
  ELSE Phases

(* ControlInputReader.read and _validate_dlb_inputs: the phase currents of *)
(* the house, and whether the DLB may use them.                            *)
HouseCurrents(c, house) ==
  [p \in Phases |-> IF c.dlb THEN Trusted(house[p], c.needsUnits) ELSE None]
DlbInputsValid(c, currents, wallbox) ==
  c.dlb => \A p \in Required(c, wallbox) : currents[p] # None

-----------------------------------------------------------------------------
(* Dynamic load balancing: the current that is left on the busiest phase,  *)
(* or the fallback current, which is not a valid result.                   *)

(* _charger_current: what the charger's own load adds to the sensors.      *)
ChargerShare(c, draw) == IF c.scope = "including" THEN Higher(0, draw) ELSE 0

Fallback(c)   == [limit |-> c.safe, valid |-> FALSE]
Unlimited     == [limit |-> None, valid |-> TRUE]

(* _from_phase_currents: the lowest over the phases in use (mutant: the    *)
(* highest).                                                               *)
LeftOn(c, currents, draw, p) == c.fuse - currents[p] + ChargerShare(c, draw[p]) - c.margin
UsedPhases(c, draw) ==
  IF c.installed = 1 THEN {1} ELSE IF Active(draw) = {} THEN Phases ELSE Active(draw)
AvailableOnFreest(c, currents, draw) ==
  CHOOSE i \in {LeftOn(c, currents, draw, p) : p \in UsedPhases(c, draw)} :
    \A p \in UsedPhases(c, draw) : i >= LeftOn(c, currents, draw, p)
Available(c, currents, draw) ==
  CHOOSE i \in {LeftOn(c, currents, draw, p) : p \in UsedPhases(c, draw)} :
    \A p \in UsedPhases(c, draw) : i <= LeftOn(c, currents, draw, p)

(* calculate_available_current.                                            *)
DlbResult(c, valid, currents, draw) ==
  IF ~c.dlb THEN Unlimited
  ELSE IF ~valid \/ \E p \in UsedPhases(c, draw) : currents[p] = None THEN Fallback(c)
  ELSE [limit |-> Higher(0, Available(c, currents, draw)), valid |-> TRUE]

-----------------------------------------------------------------------------
(* combine_current_limits: the lowest limit, the first of equals, names    *)
(* the dominant reason; below the minimum there is no target.              *)
Tighter(a, b) == IF b.amps = None \/ a.amps <= b.amps THEN a ELSE b
Tightest(c, wallbox, modeTarget, dlbLimit) ==
  LET wish  == Tighter([amps |-> modeTarget, by |-> "none"], [amps |-> c.max, by |-> "none"])
      dlb   == Tighter(wish, [amps |-> dlbLimit, by |-> "dlb"])
      cable == Tighter(dlb, [amps |-> wallbox.cableMax, by |-> "cable"])
  IN  Tighter(cable, [amps |-> wallbox.evMax, by |-> "ev"])

(* The least current worth a target, the charger's or the user's (mutant:  *)
(* any current is).                                                        *)
MinimumForgotten(c, wallbox) == 0
Minimum(c, wallbox) == Higher(c.min, wallbox.hardwareMin)

CombineLimits(c, wallbox, modeTarget, dlbLimit) ==
  IF modeTarget = None THEN [target |-> None, by |-> "none"]
  ELSE LET lowest == Tightest(c, wallbox, modeTarget, dlbLimit)
       IN  [target |-> IF lowest.amps < Minimum(c, wallbox) THEN None ELSE Tenths(lowest.amps),
            by     |-> lowest.by]
=============================================================================
