--------------------------- MODULE MCCurrentControl ---------------------------
(* Small instances of CurrentControl for TLC: five installations.  A tick  *)
(* is about 2.5 s for the writes and the guards; the minutes of Solar      *)
(* delays and the 30 s of a start-up or an old target become a few ticks.  *)
EXTENDS CurrentControl

A(i) == [value |-> i, stale |-> FALSE, unit |-> "kilo"]   \* a current in A
W(i) == [value |-> i, stale |-> FALSE, unit |-> "base"]   \* a power in W
Old(state) == [state EXCEPT !.stale = TRUE]
Gone == [value |-> None, stale |-> FALSE, unit |-> "base"]
Odd(i) == [value |-> i, stale |-> FALSE, unit |-> "other"]
Draws(i, j, k) == [draw |-> <<1000 * i, 1000 * j, 1000 * k>>, charging |-> FALSE]
Limits(cable, ev) == [switch |-> None, cable |-> cable, ev |-> ev]
Dark == [first |-> Gone, second |-> Gone]

Options == [
  min |-> 6000, max |-> 16000, safe |-> 6000, fixed |-> 10000,
  fuse |-> 25000, margin |-> 2000, dlb |-> FALSE, scope |-> "excluding", installed |-> 3,
  needsUnits |-> FALSE, solarUnits |-> FALSE, strategy |-> "disabled", override |-> "inherit",
  failure |-> "pause", input |-> "grid", positiveExport |-> FALSE, start |-> 1800, stop |-> 1200,
  startDelay |-> 0, stopDelay |-> 0, minRuntime |-> 0, minPause |-> 0, solarMin |-> 6000,
  smoothing |-> 5, deadband |-> 150, ramp |-> 2000, startup |-> "normal"]

Around == [
  gaps |-> {1}, vehicles |-> {}, limits |-> {Limits(32000, None)}, houses |-> {<<Gone, Gone, Gone>>},
  suns |-> {Dark}, attempts |-> {"ok"}, ownLimits |-> {16}, choices |-> {}, pauses |-> FALSE,
  untils |-> {}, settings |-> {}, volts |-> <<230, 230, 230>>, hardwareMin |-> 6000]

(* DLB on three phases, meter in front of the charger, safe current above  *)
(* the minimum: loads that leave 16, 14, 10 A or nothing, a lost sensor.   *)
DlbThreePhase == [
  config |-> [Options EXCEPT !.dlb = TRUE, !.scope = "including", !.safe = 8000],
  world  |-> [Around EXCEPT
    !.vehicles = {Draws(6, 0, 0), Draws(8, 8, 8)},
    !.houses = {<<A(9), A(9), A(9)>>, <<A(21), A(13), A(9)>>, <<A(17), Gone, Old(A(9))>>}]]

(* DLB on one phase, household meter, a charger with its own minimum; the  *)
(* limits of cable and vehicle change, the user changes the settings.      *)
DlbOnePhase == [
  config |-> [Options EXCEPT !.dlb = TRUE, !.installed = 1, !.needsUnits = TRUE,
                          !.startup = "fixed_current", !.fixed = 12000],
  world  |-> [Around EXCEPT
    !.vehicles = {Draws(10, 0, 0)}, !.ownLimits = {32},
    !.houses = {<<[A(11540) EXCEPT !.unit = "base"], Gone, Gone>>, <<Odd(9), A(9), A(9)>>},
    !.limits = {Limits(32000, None), Limits(9000, None), Limits(13000, 8000)}, !.hardwareMin = 8000,
    !.settings = {9000}]]

(* Eco Solar from a surplus sensor on one phase, with all its delays.      *)
EcoOnePhase == [
  config |-> [Options EXCEPT !.installed = 1, !.strategy = "eco", !.startup = "solar",
    !.input = "surplus", !.startDelay = 1, !.stopDelay = 1, !.minRuntime = 2, !.minPause = 3],
  world  |-> [Around EXCEPT
    !.vehicles = {Draws(6, 0, 0)},
    !.suns = {[first |-> Old(W(0)), second |-> Gone], [first |-> W(1840), second |-> Gone], Dark},
    !.attempts = {"ok", "lost"}, !.gaps = {1, 2}]]

(* The user changes between Eco and Smart Solar, pauses and resumes, for a *)
(* vehicle that does not draw; writes are lost on the way back, or blocked *)
(* by a phase task.                                                        *)
EcoAndSmart == [
  config |-> [Options EXCEPT !.installed = 1, !.strategy = "eco", !.startup = "solar",
    !.input = "surplus", !.startDelay = 1],
  world  |-> [Around EXCEPT
    !.choices = {<<"solar", "smart">>, <<"solar", "eco">>}, !.pauses = TRUE,
    !.attempts = {"ok", "landed", "scheduled"},
    !.suns = {[first |-> W(0), second |-> Gone], [first |-> W(1840), second |-> Gone]}]]

(* Smart Solar and Solar Boost from the grid meter, under DLB, with a      *)
(* charger that needs more than the configured minimum.                    *)
SolarWithDlb == [
  config |-> [Options EXCEPT !.dlb = TRUE, !.strategy = "smart", !.override = "boost",
    !.failure = "continue_minimum"],
  world  |-> [Around EXCEPT
    !.vehicles = {Draws(8, 0, 0)}, !.hardwareMin = 7000,
    !.limits = {[Limits(32000, None) EXCEPT !.switch = 0]},
    !.houses = {<<A(14), A(9), A(9)>>},
    !.suns = {[first |-> W(-1840), second |-> Gone], [first |-> W(920), second |-> Gone], Dark},
    !.untils = {"solar"}, !.choices = {<<"normal", None>>, <<"solar", None>>}]]

MCSites == {DlbThreePhase, DlbOnePhase, EcoOnePhase, EcoAndSmart, SolarWithDlb}
=============================================================================
