# Verification of the Webasto/Ampure Unite integration

TLA+ models of the Home Assistant integration in `custom_components/webasto_unite`,
model-checked with TLC and, where it matters most, proved with TLAPS. Paths below are
relative to that directory.

## The system

| Component | State it keeps | Operations | Meets |
|---|---|---|---|
| Write queue (`control/write_queue.py`) | one waiting write per register key | enqueue, dequeue_next, clear | written by the poll and the keepalive loop, cleared by direct writes |
| Write runtime (`control/write_runtime.py`) | flush lock, record of the last current write, keepalive times | enqueue_decision, flush_write_queue, write_current_now | poll, keepalive loop, external callers, phase task |
| Poll cycle (`features/control_cycle.py`, `coordinator.py`) | the published snapshot | read, session transition, decide, schedule phase actions, guard, enqueue, flush, publish | everything |
| Session and mode (`core/session.py`, `core/mode.py`) | last connection, charge mode, pause, until-unplug modes | observe, set, reset at unplug | poll, user |
| Phase task (`features/phase_actions.py`, `phase_engine.py`, `phase_switch.py`, `phase_runtime.py`, `phase_policy.py`) | running task, session override, policy candidate, cooldown, counters | schedule, validate, write register 405, deferred current, refresh | poll, user, external controller |
| External controller (`coordinator.py`, `ha/services.py`) | last and deferred external current | set current, charging enabled | phase task, write runtime |
| Modbus client (`modbus/client.py`) | TCP client, lock | read, write, retry, reconnect | all readers and writers |
| Controller (`controller.py`, `control/current.py`, `core/limits.py`, `electrical.py`) | phases observed in the session, the write decider's pending target and last write | evaluate, should_write_current | poll |
| Inputs and DLB (`control/inputs.py`, `sensor_adapter.py`, `features/dlb.py`) | none | read and validate sensors, limit on the busiest phase, fallback | poll |
| Solar (`features/solar.py`) | filtered surplus, start, stop, runtime and pause timers, ramp | Eco, Smart, Boost | poll, user (reset) |
| Runtime guards (`control/runtime_guards.py`) | start-up polls, DLB and Solar start windows and samples | defer, confirm | poll |
| Sensor refresh (`runtime/sensors.py`) | listeners, debounce task | schedule_refresh, shutdown | poll, which it cancels; shutdown |
| Entry, tasks, storage (`__init__.py`, `coordinator.py`, `runtime/tasks.py`, `runtime/storage.py`) | tasks, connection, stored flag | set up, unload, cancel, restore and save Charging Enabled | every task, user |
| REST diagnostics, entities, config flow | presentation | - | - |

Everything runs on one asyncio loop. The hard behaviours are what may happen at an
`await`: a poll, the keepalive loop, any number of service callers and a phase task are
suspended at the same time on the flush lock, on the Modbus client or on each other; a
write may fail before or after the charger has carried it out; the vehicle may leave
between a check and the write it allows; sensor events cancel a poll in the middle.
`PROJECT.json` lists these hazards at their lines.

What makes the components correct:

* writing: one request at a time, made by the configured owner; the record of the last
  current agrees with the charger unless a write failed; what a poll decides is what gets
  written; an Off sticks; keepalives keep flowing;
* phase task: no current of the previous phase is left over; no register-405 write without
  a vehicle, without need, or without limit;
* decision: never above a valid DLB, cable or vehicle limit, up to the rounding; never strands a changed target;
  a reduction does not wait, but for the start-up; Solar keeps its delays and its pause, and stops in time;
* sensors: a change is acted on, whatever it interrupts, and whatever else has just polled;
* sessions: nothing of one session acts in the next;
* life of the entry: an unload ends and leaves nothing behind; an Off survives a restart.

## Modules

| Module | Models |
|---|---|
| `WriteQueue` | the keyed queue as functions on queue values; every method of the code runs without suspending |
| `WritePath` | the coroutines that write: poll, keepalive loop, callers, phase task; the flush lock as a FIFO sequence; the charger's current register and cable; mode, pause, snapshot |
| `ChargerPort` | the abstract promise of the write path: a serial port that carries one permitted request at a time and whose record follows acknowledged current writes |
| `MCWritePath` | the instance TLC runs |
| `WritePathProofs` | theorems about `WritePath` |
| `ChargerPortProofs` | the refinement of `ChargerPort` by `WritePath` |
| `PhaseActions` | who changes the charger's phases and when: session, settle window, Solar policy with its counters, session override, restore, the phase task beside the polls |
| `MCPhaseActions` | the instance TLC runs |
| `PhaseActionsProofs` | theorems about `PhaseActions` |
| `ModbusClient` | the connection below the write path: requests with retries, connect, reconnect, close, and the client's own lock |
| `ModbusLink` | the abstract promise of the client: one connection with one request at a time, opened, closed or replaced only between two requests |
| `MCModbusClient` | the instance TLC runs |
| `ModbusClientProofs` | theorems about `ModbusClient`, with the refinement of `ModbusLink` |
| `CurrentLimits` | sensor states and their validation, the DLB limit, `combine_current_limits`, rounding: pure operators |
| `SolarEngine` | the Solar engine: input, filter, Eco, Smart and Boost, ramp, as operators on its state |
| `CurrentControl` | the poll from sensors and registers to a write, over both: mode, session, write decider, runtime guards, and what user, vehicle and charger do between polls |
| `MCCurrentControl` | the five installations TLC runs |
| `SolarEngineProofs`, `CurrentControlProofs` | theorems about the limits and lemmas about the engine; theorems about the controller |
| `SensorRefresh` | the debounced refresh, the polls it cancels and the coordinator's own polls, in time |
| `MCSensorRefresh` | the instance TLC runs |
| `SensorRefreshProofs` | theorems about `SensorRefresh` |
| `Lifecycle` | setup, shutdown and restart with the tasks, polls, connection and stored flag they meet |
| `MCLifecycle` | the instances TLC runs |
| `LifecycleProofs` | theorems about `Lifecycle` |

`CurrentControl` composes `CurrentLimits` and `SolarEngine` (EXTENDS); `WritePath` composes
`WriteQueue` and implements `ChargerPort`, `ModbusClient` implements `ModbusLink` (INSTANCE). `WritePath`, `PhaseActions`,
`CurrentControl`, `SensorRefresh` and `Lifecycle` are views of the same coordinator at
different resolutions: what one leaves as a choice (the decision, the cancelled poll, the
schedulable phase action, the request) is the subject of another.

### How WritePath corresponds to the code

`pc[a]` is the `await` a coroutine is suspended at: `read` (Modbus reads of a poll),
`flush` and `direct` (inside or waiting for `async with flush_lock`, in
`flush_write_queue` or in `write_current_now` / `_write_phase_register`), `writing` and
`landed` (inside `client.write`, before and after the charger acted), `publish` (REST
refresh after the flush), `saving_*` (storing the pause), `queued`, `fetch`, `pend`,
`refresh` (the phase task). `running` names the coroutine that has the event loop: an
action that leaves it at a coroutine stands for code that goes on without an `await`, and
nothing else runs before it. `lock` is `flush_lock` with its waiters; asyncio wakes them in
FIFO order, so only the head is served. A coroutine that is ready runs before any network
answer that is still to come (`SomeoneReady`), which excludes schedules asyncio cannot
produce. `hass.async_create_task` starts a task at once in newer Home Assistant releases and
on the next turn in older ones; both are modelled.

The control decision is a choice among what `evaluate` may return (`Decisions`): Off always
asks for 0 A with a vehicle; otherwise a target, with or without a write, or none because a
limit is below the minimum, or none for another reason. The phase policy is a choice of
`Schedulable` actions. A register read fails or not, a write fails before or after the
charger has acted; the retries of one write are one request, because a repeated write of the
same value is not visible. A request that was given up is not carried out after a later one:
both travel on one TCP stream and `reconnect` closes the old socket first.

`verdict`, `unconfirmed` and the split of `writing` from `landed` are bookkeeping of the
model, the first two for the properties only.

### How PhaseActions corresponds to the code

`PhaseActions` and `WritePath` are two views of the same coroutines. `WritePath` has the
lock, the queue and the wire and lets a poll schedule any of its `Schedulable` phase actions;
`PhaseActions` has the state that decides which, and of a write only that it is on its way,
carried out, acknowledged or given up.

A poll is four steps, the awaits at which phase tasks and users interleave: it reads the
cable state, several Modbus requests later register 405 (optional, so it may be missing),
several requests later it decides without a further `await` (`PollDecide`: session
transition, policy, at most one phase action), and after the flush it publishes its
snapshot. Polls do not overlap: the coordinator's debouncer serialises them. The phase task
is `queued`, `reading` (a restore reads the charger first), `writing`, `landed` (carried
out, the answer still under way) and in its closing `refresh`; that refresh runs a poll or,
while the debouncer is cooling down, returns at once, so a task may end with or without a
poll inside. The read of a restore is one step: only the task itself writes register 405.
The three kinds of actor are told apart by `task.kind`; a task keeps the wallbox state it was
scheduled with, as the code passes it on.

Times are ages counted in `Tick`s, `Never` or capped at the longest time the code compares
them with (`LongAgo`), beyond which it cannot tell them apart. Ticks come at any moment,
also between the reads of a poll. The Solar surplus, the phases the vehicle uses and the DLB
are a choice of the policy's target (`Wishes`); the policy's guards are kept. `asked`,
`lastAuto` and `autoWrites` are history for the properties.

The policy's `3p_not_yet_observed` has no part in the model: `evaluate_phase_policy` sets it
as `auto_block_reason`, and `_apply_phase_policy_runtime_state` computes that field anew, so
it never blocks a switch.

### How ModbusClient corresponds to the code

`ModbusClient` looks into what `WritePath` takes as one request. `client` is `_client`: absent,
connected, or an object whose peer is gone (`is_connected` is false for the last two).
`sockets` counts the TCP connections that are open, the model's own bookkeeping: `Dialled` adds
one, closing an object that is still connected and the loss of the connection remove one.
`lock` is `_lock` with its waiters; as in `WritePath`, `running` names the coroutine that goes
on without a suspension because it found the lock free. `pc[a]` is the `await` a coroutine is
at: the lock for `connect`, a `request`, the `drop` of `reconnect` or `close`; the network in
`dial`, `sent` and, once the charger has acted, `landed`; the delay of `reconnect` in `sleep`.
`retrying` tells a `connect` inside `reconnect`, whose exception a retry ignores, from that of
`ensure_connected`, whose exception is a failed attempt.

A request is read or write alike, its answer good or not: a timeout, an error response and a
lost connection are one `RequestFails`. `Users` are the poll, the keepalive loop and the
callers; `Reconnecters` the reconnect service and the task that reconnects after an unplug.
Any of them may be cancelled at any `await` (a sensor event cancels the poll, the shutdown the
background tasks) and leaves the lock or its queue. What the library does by itself with a
replaced client object (pymodbus can reconnect one) is not in the repository and not modelled,
nor is a socket that a cancelled TCP connect may leave behind.

### How CurrentControl corresponds to the code

A poll is one atomic step: reads, session transition, `evaluate`, phase action, guards and
write. What happens between its awaits is in `WritePath` and `PhaseActions`; here the queue is
empty between polls, and `Attempts` stand for what the write path makes of a write: it is
carried out and recorded (`ok`), carried out or not without being recorded (`landed`, `lost`;
`lost` is also a write that the write access blocks), or not tried because the poll has
scheduled a phase task (`scheduled`). A poll whose reads fail changes nothing and makes the gap
to the next one longer.

A *site* is a configuration with a *world*: what its sensors, vehicle, charger and user may
report or do. `Configurable` is what the config flow and its validation accept. A sensor state
is a value, whether it is stale, and its unit; vehicle and charger report draw and phases, and
every poll reads the limits of cable and vehicle and register 405 anew, any of which may change
or be missing (`limits`). The charger's own minimum and the voltages are constants of a site.
Currents are integers in mA and powers in W: where the code divides to a
float, the model rounds down to the mA, and `Tenths` and `Amperes` are the code's
`round(x, 1)` and `int(round(x))`. The filter moves in whole grains of
`PowerGrain` W, and by one at least, so that it reaches the value the code's filter only
approaches; without that its states would be without end. Time is counted in ticks, ages are capped (`LongAgo`) where
the code cannot tell them apart, and a timestamp that is not set is an age beyond every
delay: the host has been up for longer than the delays.

The definitions follow the call graph: `Seen` is what a poll has read and the session made of
it, `Evaluate` is `WallboxController.evaluate`, `Guarded` the runtime guards, `Ordered` what
`enqueue_decision` queues, `Concluded` the poll's end. `\E x \in {e}` stands for
`LET x == e IN`, which TLC would evaluate at every use. `late` and `eco` are history: how long
a write is overdue, how long Eco Solar has seen sun, darkness, or rested. `session_observed_3p`
and the fields of the decision that only sensors show are left out.

What came up in the code, with no run that claims otherwise:

* `apply_solar_start_transient_guard` looks for pauses that carry a target, and
  `enqueue_decision` pauses without looking at `should_write`: the Solar start guard delays
  nothing. The model has it as it is.
* A change Eco - Smart - Eco keeps Eco's start timer, so a delay that began before counts,
  although `docs/configuration.md:343` asks for the whole delay above the threshold;
  `StartNeedsLastingSun` counts polls of another strategy as not looking.
* Before the start-up is over (three polls and 30 s, `runtime_guards.py:59-76`) the fallback of a
  running charge to the safe current is held, also when the register holds a current that the
  integration wrote itself moments ago, although `docs/configuration.md:239` and
  `docs/solar_dlb.md:72` say immediately. `ReductionWaitsOnce` and `MismatchIsBounded` do not
  count polls with such a fallback; anything else that is held, or a fallback held once the
  start-up is over, counts.
* The first reduction after a plug-in (no last write known) waits for a stable target like an
  increase, although the same two lines say immediately;
  so does one below a limit that the charger has set by itself. `ReductionWaitsOnce` is about
  currents the integration wrote, `MismatchIsBounded` bounds the others.
* The rounding may exceed a limit by up to 0.55 A; `TargetWithinLimits` proves the bound.
* The Solar ramp begins at the configured minimum also when the charger's own is higher.
* A pause for missing sensors leaves the engine active, so no minimum pause follows it.
* The minimum pause binds Eco Solar only: a poll of another strategy may charge within it, and
  `PauseIsKept` counts no rest from before such a poll.
* In Normal and Fixed Current a target below the charger's minimum for which no limit is
  responsible is not written at all; the old current stays.

### How SensorRefresh corresponds to the code

A sensor event is one step: it puts off the coordinator's own poll and takes down its debouncer
(`async_set_updated_data`), cancels the refresh of the event before it, with the poll that may
run inside, and starts a new debounce. A poll reads the charger, then sensors and decision in one
turn, then it writes. `LeavePoll` ends it, and the coordinator's schedule sets the next one.

Services, entities and the phase task ask for polls too (`AskForPoll`), and like the refresh
itself they go through `async_request_refresh`. Its debouncer is outside the repository and
modelled as the integration meets it: a request polls at once (`CanPoll`), is dropped if a poll
is in progress (`Dropped`), or is put off to the end of the cooldown (`PutOff`, `CooldownEnds`)
that follows every poll that was asked for, until another poll begins or a sensor changes.
Whether the cancelled poll of a refresh leaves a cooldown depends on the release of Home
Assistant, so both are possible. Times are ages and delays in ticks of 0.2 s.

### How Lifecycle corresponds to the code

`entry` follows `async_setup_entry` (`restoring` the flag, `connecting`, `starting` with the
first refresh), `loaded`, and `async_shutdown` (`closing`, or `aborting` a failed setup), whose
position is `stage` in `ShutdownOrder`. At each position it cancels the task and awaits it
(`awaiting`); cancelling and the delivery of the cancellation are one step. The awaited object
is the task that was cancelled, so a refresh that a sensor starts in its place is not awaited
(`over`). A phase task is in its body, in its finally with the deferred write, about to request
its refresh, or in the poll that request has started; a cancelled body still runs the finally.
`raised` is a task that has ended with an exception, which the await of it re-raises.

A poll is known by the task it runs in, or as the entry's first or one of Home Assistant's own;
deciding may start the reconnect task or a phase task. A refresh that is requested polls in its
task, returns at once, or is put off by the debouncer (`again`), which then polls as Home
Assistant's own; how long the cooldown lasts is left open. The first refresh of an entry is
taken not to overlap with another poll, although the debouncer does not serialise that one.

A call of a user (`task["call"]`) is a service or an entity that asks the charger for something
(`set_current`, the reconnect, and Charging Enabled under an external controller once its flag is
saved) and requests a refresh, or only requests one. Its requests connect first, like
those of a poll, the keepalive loop or a phase task (`Reconnects`). The shutdown neither cancels nor awaits it. One call is under way
at a time, and of one that a reload has overtaken in its save only the save is followed, not
what it still does to the old coordinator's connection. A stop of Home Assistant, orderly or
not, is `Restart`. A save under way is then in the file or not; a save that a reload has
overtaken still ends, and promises nothing about the flag that the new load has read. One
coordinator exists at a time: a new load is modelled once nothing of the last one is left.
Forwarding the platforms and registering services change no state of the coordinator.

### What the runs show

| Run | Instance | Properties |
|---|---|---|
| `managed` | the integration owns the current, automatic phase switching, Normal and Solar, one target, user phase requests; polls cancelled anywhere by sensor events | types; `LockDiscipline`; `PhaseWriteLeavesNoTarget`; `DecisionLands`: a pause or target replaces what an earlier, failed or cancelled flush left in the queue |
| `external` | external controller, one caller that requests the minimum and switches Charging Enabled (0 A when off), manual phase switching; control sensors configured, so a poll may be cancelled anywhere | `RegisterMatchesRecord`, `OwnerOnly`, `LockDiscipline`; refinement `PortIsSerial` |
| `liveness` | pause and resume, vehicle coming and going, failing reads and writes | `OffHolds`, `KeepaliveFlows` |
| `unplug_target` | expected violation | `NoTargetWithoutVehicle` |
| `deferred` | expected violation | `DeferredOnlyDuringTask` |
| `phase_automatic` | automatic switching, Default Mode Solar, the user may leave Solar; stability 1 and 2 ticks, cooldown 2, two switches per session | types; `AutomaticSwitchesAreBounded`; `AutomaticSwitchesAreSpaced` |
| `phase_restore` | manual switching, 1P and restore requests, writes that do not fail for ever | liveness: `RestorePendingClears`, `NoSilentOnePhase` |
| `modbus` | two coroutines with requests of two attempts, one reconnect, the shutdown | types; `OneConnection`; `RequestUndisturbed`; refinement `LinkIsKept`; liveness: `CallsEnd` |
| `modbus_assert` | expected violation | `ClientPresent` |
| `control` | five sites: DLB on three phases with the charger behind the meter; DLB on one phase with cable and vehicle limits that change from poll to poll; Eco Solar with all delays; Eco and Smart in turn; Smart and Boost under DLB with a charger that needs 7 A | types; `MismatchIsBounded`; `ReductionWaitsOnce`; `FallbackOnlyWithoutSensors`; `ChargeableOrZero`; `LimitsAreKept`; `EcoStopsInTime`; `StartNeedsLastingSun`; `PauseIsKept` |
| `refresh` | sensor events and requests for polls at any moment, polls that fail; debounce 2 ticks, polls up to 3, cooldown 4, interval 5 | types; `ReadInTime`; liveness: `SettledIsRead` |
| `load` | both control modes, sensors, calls of users, refreshes put off, failing setups and deferred writes, reloads and restarts | types; `NothingOutlives`; `OffSurvives`; liveness: `UnloadEnds` |

Two violations disagree with `docs/behavior_contract.md`, the third with an assertion of the
code; the findings of `PROJECT.json` quote the lines. In `unplug_target` a
poll enqueues a keepalive and a target, the keepalive write fails and leaves the target in the
queue, the vehicle leaves, and the next poll's flush writes the old target. In `deferred` a
request arrives while the phase task awaits its last refresh; it stays pending.

In `modbus_assert` a request finds the client connected and waits for `_lock` behind a
`reconnect`, which drops the client and releases the lock for its delay: the request gets the
lock without a client. `reconnect` holds the lock for the drop and `connect` for the dial, but
not for the delay between, and `ensure_connected` runs before the wait.

### What the code does not promise

Five more configurations are kept beside the runs. Each asks for what the system seems to
promise at first sight, TLC refutes it, and the runs check what holds instead.

| Configuration | Asked | What holds |
|---|---|---|
| `PA_explicit.cfg` | `ExplicitRequestIsKept` | `NoSilentOnePhase` |
| `PA_loop.cfg` | `NoRestoreLoop` | `NoSilentOnePhase`, `RestorePendingClears` |
| `SR_changes.cfg` | `ChangesAreRead` | `ReadInTime`, `SettledIsRead` |
| `LC_unload_poll.cfg` | `TasksEndWithEntry` | `NothingOutlives` |
| `LC_unload_raises.cfg` | `TasksEndWithFailedUnload` | `UnloadEnds` |

In `PA_explicit.cfg` a poll reads register 405 at 3P, the user's switch to 1P is carried out and
acknowledged, and then the poll decides: the 3P it has read clears the session override
(`features/phase_switch.py:81`), and the next poll, seeing 1P without an override, restores 3P,
although `docs/behavior_contract.md:66,71` restores only without an explicit session override.

In `PA_loop.cfg` no poll runs inside the restore task while its writes fail, and every poll after
it schedules another one, without limit or cooldown; `docs/behavior_contract.md:139` says "No
automatic recovery loop that repeatedly writes register `405`". With a poll inside the opposite
happens: it records the 1P of the previous session as this session's override; if the restore's
write then fails, no later poll restores 3P, which `docs/behavior_contract.md:74` would have it
do. What holds: a vehicle is brought back to three phases or its 1P is on display as an override.

In `SR_changes.cfg` the sensors change every two ticks (0.4 s), each time just before the
debounce ends: every refresh is cancelled, and `async_set_updated_data` puts off the
coordinator's own poll each time, so no poll reads them, while `docs/solar_dlb.md:72` says "DLB
and safety reductions can still reduce current immediately". What holds: a change that is
followed by none for the length of the debounce and a poll is acted on in that time; if its
refresh falls into the cooldown of a poll that was asked for, by a poll at the end of the cooldown
or of the coordinator's interval, whichever is first; if it meets a poll in progress, by the
coordinator's own poll an interval after that one; and the last change always is.

In `LC_unload_poll.cfg` one of Home Assistant's own polls, still waiting for the charger when the
entry is unloaded, decides after `client.close()` and schedules the reconnect task for a vehicle
that has left: `async_shutdown` overrides the coordinator's own, which would stop the polls. A
call of a user, in external mode also one that is still saving Charging Enabled, reconnects after
the close in the same way (`ensure_connected`), and so does a poll that the debouncer has put off.
What holds: with no such poll, call or save under way and no refresh put off when the unload
begins, none put off while it lasts, and no sensor event between the cancellation of the refresh
task and the removal of the listeners, nothing is left. Each of these is needed: without any one
of them TLC refutes `NothingOutlives`. In
`LC_unload_raises.cfg` the deferred current of an external controller is written in the finally
of a phase task and fails; nobody awaits that task until the unload does
(`runtime/tasks.py:18`), which then ends with its exception before it has cancelled the restore
task that meanwhile runs, or closed the client. What holds: only an external controller's
deferred current can end an unload so.

### Limits of the properties, bounds and fairness

`AutomaticSwitchesAreBounded` allows one switch more than the configured limit, and the
instance reaches it: a switch whose answer is lost is carried out but not counted; its target
is then refused for the rest of the session, so this happens once for each target, and the
second time leaves no target to switch to. Across sessions the counters are forgotten, so the
spacing that remains between two switches is the time the second target had to be stable.

`DecisionLands` allows one exception where sensors may cancel polls (`Answers`): a poll
cancelled between enqueueing a pause and flushing it leaves a CONTROL item that the next poll's
CURRENT target may not replace. That poll then lands the pause in place of its target, and the
poll after it lands its own. No document promises otherwise; nothing but such a pause can take
the place of a decision.

`LimitsAreKept` allows 0.55 A above each limit: `round(x, 1)` gives up to 0.05 A and
`int(round(x))` another half ampere, and both come after the limits were combined. The
`control` instance reaches 0.54 A (11.46 A left become 11.5 A and then 12 A). The property
takes the load of the house from the sensors, less what the charger draws where the meter
includes it, so it does not depend on the model of the DLB itself.

The contract's second promise for an unplugged vehicle, no write of register 405, cannot hold
strictly: the vehicle may leave between any check and the write after it, and the code has a
long way from one to the other (the task waits for `flush_lock`). No run claims it.

Bounds of the write path: one target besides 0 A is enough to tell a stale write from the
decided one; one request besides the 0 A of Charging Enabled to see a deferred and a direct one
overtake each other; the number of coroutines is the program's own, with one external caller. Nothing is counted,
so there is no other bound: the state spaces are complete. Bounds of the phase actions: the
code's 45 s, 120 s and 600 s become one tick or two, keeping stability-to-1P shorter than
stability-to-3P and the cooldown; the limit of five switches becomes two, one of each
direction. What decides is which events fit between two polls, and `Tick` may fall between
any two steps. Switches and counters are limited by the code itself, so these state spaces
are complete as well.

Bounds of `control`: a tick is about 2.5 s for writes and guards, so `MinBetween` is 2 ticks
and `PendingMaxAge` 3, the guards 1; `StartupTime` is 5, longer than three polls, which leaves
room for a write of the integration, a sensor that is lost after it, and further polls that hold
the fallback; the Solar delays are 1 to 3 ticks,
`LongAgo` 3, a grain 920 W (4 A on one phase). Gaps between polls are 1 or 2 ticks, in the Eco
site as well: a longer gap puts the beginning of the stop delay off, which is why
`EcoStopsInTime` allows the delays and one gap less a tick. A site has
the two or three sensor states that tell its decisions apart: enough, not enough, missing or
stale. Five small sites instead of one with everything keep the product of timers and sensors
small enough to be complete; what a site leaves out is covered by the proofs, which have no
bound on sites, times or values. `refresh`: a debounce of two ticks has a moment inside, a poll
of three is longer than the debounce and shorter than the interval of five, so refreshes meet
polls and polls meet timers; a cooldown of four ends before or after the interval, depending on
the sensor changes that put the interval off. The bounds of `ReadInTime` are reached, also with a
cooldown longer than the interval, which the configuration allows and the proof covers. `Lifecycle` counts nothing: `load` has both control modes, and sensors
that need never change, and one call of a user at a time, so it is complete too. Monitoring Only has no phase tasks of its own and
nothing to defer; its behaviours are among those of the two modes.

Bounds of the Modbus client: two coroutines meet at the lock and a third drops the connection,
which makes a queue with a waiter behind the reconnect; two attempts are one that retries and
one that is the last. The proofs cover any number of either.

Fairness (`Fairness`): every coroutine that can go on eventually does (the loop serves ready
coroutines in turn, a request is answered or times out), polls do not fail for ever, and of
the writes of one register not all get lost. The user, the vehicle and the external
controller promise nothing. `PhaseActions` assumes the same of its actors in `FairSpec`
(time passes, polls and the task go on, a poll's reads do not fail for ever); `WritingSpec`
adds that register 405 is not refused for ever. `NoRestoreLoop` is refuted under the former,
where writes may go on failing. `ModbusClient` assumes that a coroutine that can go on
again and again does, and nothing of the network: every attempt may fail. Strong fairness is needed for it because another coroutine that goes on
without a suspension disables it for that moment. `SensorRefresh` assumes weak fairness of time and of
the loop, and strong fairness of a poll's reads and end: a poll that is repeated again and again
is answered at last, although sensors may cancel it. Nothing is assumed of the sensors, so
`ChangesAreRead` is not refuted by a loop that idles. `Lifecycle` assumes that the shutdown goes
on, polls return or raise, and phase tasks go through their steps; a save need never return.
`CurrentControl` has no liveness: its time bounds are safety properties over ticks.

## Proofs

`WritePathProofs` proves, for every control mode, phase setting, set of callers and set of
currents allowed by `ConstantsAssumption`:

* `TypeCorrect`: `Spec => []TypeOK`;
* `LockSafety`: `Spec => []LockDiscipline`;
* `OwnerSafety`: `Spec => []OwnerOnly`, which covers Monitoring Only, a mode no run has;
* `PhaseWriteSafety`: `Spec => []PhaseWriteLeavesNoTarget`;
* `RecordSafety`: `Spec => []RegisterMatchesRecord`;
* `DecisionSafety`: `Spec => []DecisionLands`.

The first two come from one inductive invariant `LockInv == TypeOK /\ LockOK(lock, pc)`: the
types alone are not inductive because leaving an empty lock would not be typed, and the lock
alone is not because its steps need the program counters to be known. `LockOK` is stated about
any lock and any program counters, so that the four ways a step can touch the lock (join,
leave, move inside, move outside) and the cancellation of a waiter are lemmas of their own,
and each action is one application of them.

The others add to `LockInv` what their steps need. `OwnerOK` also speaks of the writes still to
be made: a caller that is saving the flag and a deferred request exist only under an external
controller. `NoTargetInv` says that the phase task never flushes, so it comes to the wire only
by a write that has cleared the queue; polls that find it in progress enqueue no target.
`RecordOK` says that a current that has landed is in the register until its writer records it,
which is where the lock is needed: nobody else lands a write in between.

`DecisionSafety` needs most (`LandInv`). In the managed mode only polls enqueue currents and no
caller writes (`Roles`); what waits in the queue is a keepalive, a target or a pause
(`Waiting`), and the pause belongs to a poll that is still to flush it unless polls are
cancelled (`PauseIsFlushed`), so a target always replaces what an older poll left. From a
poll's decision to its publication (`Landing`) the decided current waits in the queue, or is on
the wire in the hands of the poll or of the keepalive loop, or is recorded (`UnderWay`); while
it waits an older one may still be on the wire. The phase task would empty the queue, but one
that runs already keeps the poll from deciding on a current, and one that starts later stands
behind the poll in the lock (`PollFirst`). That the record is also what the register holds is `RecordSafety`.

`ChargerPortProofs` proves `PortRefinement`: `Spec => PortIsSerial`. Its invariant adds to
`OwnerInv` that whoever is about to write has a write to make (`JobOK`). The lock makes the
set of coroutines on the wire empty or a singleton (`WireOf`), which turns the mapping's CHOOSE
into the job of a named coroutine; then taking a write from the queue or starting a direct one
is the port's `Send`, `Land` its `CarryOut`, an answer its `Acknowledge`, a failure or a
cancelled poll its `GiveUp`, and every other step leaves the port alone (`Quiet`).

`PhaseActionsProofs` proves, for all times, limits, modes and user requests allowed by
`PhaseConstants`:

* `PhaseTypes`: `Spec => []TypeOK`;
* `SwitchesBounded`: `Spec => []AutomaticSwitchesAreBounded`;
* `SwitchesSpaced`: `Spec => AutomaticSwitchesAreSpaced`.

All three follow from the inductive invariant `PhaseInv`, which TLC has checked first. To the
types it adds what the running task is at each step (`TaskOK`); that the code's clocks, the age of
the candidate and of the last recorded switch, are never older than the last switch the
charger carried out, unless that one is not recorded yet (`SpacingOK`: a record comes after
the write, and a session change forgets the candidate, which then has to be stable anew); and
that carried-out switches are at most the counted ones, the failed targets and the one not
recorded yet, while an automatic task only runs below the limit and for a target that has not
failed (`CountOK`). The bound alone is not inductive: without `CountOK` nothing relates the
history to the counter the code keeps, which it resets while a task may still be running.

`ModbusClientProofs` proves, for any coroutines and number of retries:

* `ClientTypes`: `Spec => []TypeOK`;
* `SingleConnection`: `Spec => []OneConnection`;
* `RequestsUndisturbed`: `Spec => []RequestUndisturbed`;
* `LinkRefinement`: `Spec => LinkIsKept`.

The first three follow from `ClientInv`. To the types and the count of the connections it adds that
whoever is at the network is at the head of the lock, dials only without a connection and sends
only with a client (`WireOK`), and that a coroutine inside a retry still has an attempt left
(`CountOK`), without which the attempts are not typed. A step of the holder may change the
client freely, because nobody else is at the network (`HolderIsAlone`), so the ways it goes on
(`FinishKeeps`, `RequeueKeeps`, `WireKeeps`, `LeaveKeeps`) are lemmas, each used by several
actions. The refinement maps the coroutine on the wire to the link's `busy`, and needs to know
besides what each kind of coroutine does (`KindOK`: only requests send, the shutdown only
closes, a reconnect is always a retry). A request sent is the link's `Begin`, its answer,
failure or cancellation the `End`, a dial or a drop by the holder of the lock `Open` or `Shut`,
the network's own loss `Lose`; everything else leaves the link alone.

`SolarEngineProofs` proves about the pure operators, for every configuration, wallbox and
meter:

* `TargetWithinLimits`: a target is at least the minimum, exceeds no limit by more than 50 mA
  and its write none by more than 550 mA;
* `FuseKeepsItsMargin`: with valid inputs the house and the written current leave the safety
  margin below the main fuse, up to 0.55 A, on every phase the charger uses.

They rest on what `Tenths` and `Amperes` do to an integer and on the DLB limit being the least
over the phases used. `CurrentControlProofs` proves, for every site that is `Configurable`
(`SiteAssumption`), all times (`TimeAssumption`, `GrainAssumption`) and a `None` that is no
number:

* `ControlTypes`: `Spec => []TypeOK`, inductive by itself; `SolarEngineProofs` has the lemmas
  about the engine, among them that every strategy keeps the types of the engine's state;
* `FallbackSafety`: `Spec => []FallbackOnlyWithoutSensors`: the phases the DLB uses are among
  those whose sensors were validated;
* `ReductionSafety`: `Spec => []ReductionWaitsOnce`, from `ReductionInv == TypeOK /\
  WaitingIsHeld`: whenever a reduction has waited for a poll, it is the DLB guard that holds it,
  with its first sample taken, so the next poll lets it go (the start-up holds nothing but
  fallbacks, which are excepted until it is over);
* `StartSafety`: `Spec => StartNeedsLastingSun`, from `StartInv == TypeOK /\ TimerInSun`: the
  start timer is never older than the sun that Eco's polls have seen;
* `PauseSafety`: `Spec => PauseIsKept`, from `PauseInv == TypeOK /\ RestedEnough`: the engine
  has rested at least as long as its timer says, and is active again only after the pause;
* `ChargeableSafety`: `Spec => ChargeableOrZero`, from the types and what `Evaluate`, the guards
  and the rounding return;
* `LimitSafety`: `Spec => LimitsAreKept`, from the two theorems above and the fact that the Solar
  ramp only lowers a target, which is in whole tenths, so that its rounding cannot raise it;
* `MismatchSafety`: `Spec => []MismatchIsBounded`, from `MismatchInv`: a target has been pending at
  least as long as the register has been wrong (`OldIsHeld`), the throttle has run at least as
  long as the target is pending (`Orderly`, a write resets both), so that an old target is
  written, and one that is held even then has the DLB guard's first sample and goes out with the
  next poll; a fallback that the start-up may hold is not counted. This takes `MinBetween <= PendingMaxAge` (5 s and 30 s in the code, not
  configurable): otherwise the throttle would set the bound;
* `StopSafety`: `Spec => []EcoStopsInTime`, from `DarkInv`: in lasting dark an active Eco Solar is
  within its minimum runtime, which began before the dark did, or its stop timer has run since
  the first poll after it (`Fading`), and an inactive one has the register at 0 A. It takes gaps
  between polls of at least a tick.

A poll is taken apart once (`PollOf`): each of its parts has a lemma that says what the
properties need of it, and the invariants are proved from these without expanding the poll.

`SensorRefreshProofs` proves, for every debounce, poll duration, interval and cooldown with
`LongAgo` beyond the longest bound of `ReadInTime` (`RefreshAssumption`; past `LongAgo` the model
no longer tells ages apart):

* `RefreshTypes`: `Spec => []TypeOK`;
* `RefreshSafety`: `Spec => []ReadInTime`, from `InTime == TypeOK /\ Timely /\ Followed`. `Timely`
  relates the timers to the time since the last change, which every change sets anew. `Followed`
  says for each thing the refresh may meet (`Kinds`) what makes sure of the change: it is on its
  way, asleep for as long as the change is old or in a poll since the debounce ended
  (`OnItsWay`); or it waits for the end of the cooldown or of the interval, or for the poll that
  one of them has started (`Awaited`); or for the end of the poll it met, for the coordinator's
  own after that one, or for the end of that (`MadeUpFor`).

`LifecycleProofs` proves, for any set of control modes, with or without sensors
(`LifecycleConstants`):

* `LifeTypes`: `Spec => []TypeOK`;
* `ShutdownSafety`: `Spec => []NothingOutlives`;
* `StorageSafety`: `Spec => []OffSurvives`.

All three follow from `LifeInv`, checked by TLC first. `NothingOutlives` speaks of the end of a
shutdown only; the invariant says for each position that what it has done with stays away
(`ClearedOK`), which holds because a poll that is left runs in a phase task, which keeps polls
from starting another, and the reconnect task that it may start comes later in the order. An
undisturbed shutdown never meets a poll of Home Assistant or a user's call, because nothing
that could start one is left when it begins.
`PollOK` says where a poll may run, `AwaitOK` that only a shutdown awaits, and `StorageOK` that
the file, the flag in memory and a save under way agree with what the user may expect.

Model-checked only: liveness, because the prover has neither fairness nor ENABLED: `OffHolds`,
`KeepaliveFlows`, `RestorePendingClears`, `NoSilentOnePhase`, `CallsEnd`, `SettledIsRead` and
`UnloadEnds`. Every other property of a passing run is a theorem. The expected violations need
no proof.

## Plan

All of the plan is done: the write path, the phase actions, the Modbus client, the controller
with limits, DLB, Solar and guards, the sensor refresh and the life of the entry, the two
refinements, and a proof of every safety property. What would come next:

1. The requests of `WritePath` composed with those of `ModbusClient`: `ChargerPort` takes a write
   with all its retries for one request, of which `ModbusLink` carries each attempt.
2. The safety half of the liveness properties, as bounds on the number of polls, to prove more
   of them without fairness.

## Not modelled

REST diagnostics, entities, config flow and diagnostics present state or call the operations
above. The parsing and migration of options and the decoding of registers are pure conversions
of text and words without a state of their own; the models take their results, restricted to
what they accept (`Configurable`, `Worlds`). EVCC helpers and conflict detection only read.
Home Assistant's coordinator and storage, pymodbus and the charger are outside the repository
and modelled as the code uses them, marked external in `PROJECT.json`.
