-------------------------- MODULE MCSensorRefresh --------------------------
(* The instance of SensorRefresh for TLC, in ticks of 0.2 s: the code's    *)
(* debounce of 0.4 s, and a poll that may last longer than the debounce    *)
(* but not as long as the interval between the coordinator's polls.  The   *)
(* interval can be configured; here it is longer than the cooldown, so     *)
(* that the end of either may come first.                                  *)
EXTENDS SensorRefresh

MCDebounceTime == 2
MCPollTime == 3
MCCooldown == 4
MCInterval == MCDebounceTime + MCPollTime
MCLongAgo == MCDebounceTime + MCPollTime + MCInterval + MCPollTime + 1
=============================================================================
