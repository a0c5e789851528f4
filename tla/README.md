# waterpump-backend: specifications, model checking and proofs

The backend (NestJS, one Node process) stands between the ESP32 controllers that
drive water pumps and the phones of their owners. This directory holds TLA+
models of the parts of it that decide when a pump runs, the TLC runs that check
them on small instances, and proofs, checked by TLAPS, of what holds for every
instance.

Paths below are relative to `src/src/` of the repository unless they say otherwise.

## 1. The system

One process serves HTTP requests, socket.io messages and timers. Handlers are
`async`: they give way to each other at every `await`, and only there. Nothing
locks. What they share is in Redis (the primary copy of everything live), in
Postgres (backup of motor states, event log, devices) and in DuckDB (history).

| Component | State | Operations | Interacts with |
|---|---|---|---|
| Motor service (`modules/motor/motor.service.ts`) | Redis `motor_state:{id}`, `motor_command:{id}`; table `motor_states`; backups under way | get and update the state, process a command, heartbeat, poll, acknowledge, mark offline | called by the motor API, the gateway, the sensor monitor, the tasks |
| Motor API (`motor.controller.ts`) | none | one endpoint per operation | calls the motor service, turns what it throws into a status |
| Motor tasks (`motor-tasks.service.ts`) | two timers | offline check each minute, status log | motor service |
| MCU firmware (not in the repository) | the motor, the command in hand | poll, execute, acknowledge, report | motor API over HTTP |
| Sensor monitor (`sensor-monitor.service.ts`) | Redis `sensor_pause:{id}`, `sensor_override:{id}`; cache of sensor hashes; a timer | check, pause, resume, override, forced check | reads the device status, calls the motor service, emits through the gateway, which makes a second monitor for each forced check |
| Device status (`modules/devices/`) | Redis `device:{id}:status`; DuckDB rows | status update, current status with fallback, conversions of old formats, pump events, device logs | gateway, alerts, DuckDB |
| Device registry (`postgres.service.ts`) | table `devices` | find or create on a status update | Postgres |
| Active alerts (`redis.service.ts`, `devices.service.ts`) | hash `alerts:active:{id}`, two expiry times | raise, list and clean up | status updates raise, broadcasts list |
| Legacy pump commands (`devices.service.ts`) | Redis `pump_command:{id}` | store, read-and-delete | old firmware |
| Water supply sessions (`duckdb.service.ts`) | none (a computation over rows) | sessions and statistics of a period | DuckDB |
| Device history (`devices.service.ts`, `duckdb.service.ts`) | none (a computation over rows) | a chart of a period: query, merge, sample | DuckDB |
| DuckDB service | database, query cache | insert, query, cache | devices |
| WebSocket gateway (`modules/websocket/`) | subscriptions, OTA sessions, last notified states | relay commands, OTA, broadcasts of system data, notifications of changes | everything |
| Push notifications (`onesignal.service.ts`) | enabled or not | send | gateway |
| Health, bootstrap, logging | none | report | read only |

What is hard here: the read-modify-write of the motor state across an `await`;
decisions taken on a state that was read before an `await`; a one-place slot that
is called a queue, with polls that write back what they read and acknowledgements
that delete what they find; backups that are not awaited, each a selection of the row and a
write of what differs from it; Redis keys that expire;
a monitor that keeps its memory in a text, a record and a cache; three writes of an
update that are started together, one of which may fail; a hash of alerts with two clocks,
one kept by its readers and one by Redis; broadcasts that overlap and are compared with
the one before; a cache that nobody cleans up; failures and restarts between any two of
these steps. `PROJECT.json` lists each hazard at its
line with the properties that watch it.

## 2. Modules

| Module | Models |
|---|---|
| `MotorCommands` | the motor state, commands and heartbeats, and the pure functions of the motor service (validation, pending and optimistic state, resolution, merge, save) |
| `MotorService` | the handlers of the motor service, their storage, backups, failures, restarts |
| `CommandMailbox` | what the slot promises the MCU, in three actions (abstract) |
| `PumpController` | `MotorService` with an MCU that polls, executes, acknowledges and reports; `Mailbox` maps it to `CommandMailbox` |
| `SensorMonitor` | `MotorService` with the checks of the sensor monitor, which call its handlers |
| `ActiveAlerts` | the hash of alerts: `setActiveAlert` and `getActiveAlerts` command by command, and time |
| `DeviceService` | `ActiveAlerts` with the status updates that raise alerts, the registry of devices, pump events, the old pump commands, device logs |
| `Gateway` | `DeviceService` with subscriptions, firmware updates, and the broadcasts and notifications that read its status and its alerts |
| `QueryCache` | the latest data of a device behind the cache of queries |
| `TimedRows`, `WaterSupply`, `TimeSeries` | the queries and computations over rows: sessions and statistics, charts |
| `History` | the tables, filled in every way, with what `WaterSupply` and `TimeSeries` make of them, and `QueryCache` |
| `MotorServiceProofs`, `PumpControllerProofs`, `SensorMonitorProofs`, `ActiveAlertsProofs`, `DeviceServiceProofs`, `GatewayProofs`, `WaterSupplyProofs`, `HistoryProofs` | lemmas and theorems |
| `MCMotorService`, `MCPumpController`, `MCSensorMonitor`, `MCGateway`, `MCHistory` | instances for TLC |

`Gateway` extends `DeviceService`, which extends `ActiveAlerts`: a handler of the gateway awaits
`getActiveAlerts` as one of the device service awaits `setActiveAlert`, and the step a call
stands at is `alertCall[p]`, beside the step of its caller, `pc[p]`.

**How code becomes actions.** A process of `Proc` is a request the server is working
on; `pc[p]` is the `await` it stands at, and the action is that operation with all
the code up to the next `await`. `getMotorState` is `GetState`, `GetRow`,
`GetDefault`, `Fill`; `updateMotorState` is `UpdateRead`, `UpdateReadRow`,
`UpdateDefault`, `UpdateWrite`, `Log`; `processMotorCommand` is a `getMotorState`, the
validation (`WithState`), `QueueCommand` and an `updateMotorState`; `handleHeartbeat` is
a `getMotorState`, the resolution (`HeartbeatUpdate`, in `WithState`) and an
`updateMotorState`; `getPendingCommand` is `PollRead`, `PollMark`;
`acknowledgeCommand` is `AckDelete`, `Log`. `Fail` is any awaited call that throws.
`motorState`, `motorCommand` and `motorRow` are the two Redis keys and the row,
`backups` the saves of `process.nextTick` that have not finished. `issued`, `delivered`, `torn`,
`tornRead` and a heartbeat's `current` state after its resolution are history. `UpdateDefault` is
never taken: `getMotorState` creates the row a device lacks before any update runs, so line 59
is dead code in the program as it is in the model.

**Saving a row.** `repository.save` selects the row by its key, and then updates the columns in
which the object differs from what it selected, or inserts the object if there was no row. Nothing keeps
another save from coming between the two steps, and a backup is awaited by nobody, so any number may
overlap. `BackupReads` and `BackupLands` are the two steps of a backup, `CreateDefault` and `InsertDefault`
those of `createDefaultMotorState`; `SaveRow(row, base, s)` is what a save of `s` that selected `base`
leaves of the `row` it meets, and `CanSave` what Postgres takes: no second row of the device, and no null
in `target_mode_active`. A refused backup is caught and logged, a refused insertion of the
default state is thrown at the caller. `torn` says that a save has brought some of what its state says of the
pending command into the row and left out some (`Mixes`), and that no later save has agreed with the row in
all of it; `tornRead` says that a handler has read such a row.

**Undefined and null.** `Undef` is JavaScript's undefined and `Null` its null. The two
differ where the code makes them differ: an update skips fields that are undefined
and writes those that are null, `save` skips undefined columns, resolution skips
undefined pending fields and compares null ones, and null is 0 in a subtraction. What is optional in
a request may be absent or null: a heartbeat's `target_mode_active` of null (`@IsOptional`,
`common/dto/motor-control.dto.ts:123`) is stored in Redis, but not by the row.

**Updates and broadcasts.** `updateDeviceStatus` is `BeginUpdate`, `GetDevice`, perhaps
`InsertDevice` and `LoadDevice` (`createDevice`), three writes that land (`WriteLands`) or
fail (`WriteFails`) in any order, `EmitUpdate` when all are in, then `CheckDevice`,
`ProcessDevice`, one `LogAlert` per alert, one call of `setActiveAlert` per alert (`RaiseNext`)
and `EmitAlerts`. A write whose update was rejected or whose request was cut off may still
land. What is caught in the code is a disjunct that goes on (`CreateFails`, `CheckFails`,
`RaiseFails`), what is not is `Fail` or `WriteFails`. `setActiveAlert` is `StoreAlert`,
`HashExists`, `HashLength`, `SetExpiry`; `getActiveAlerts` is `ReadAlerts`, `RemoveOutdated`,
`ReadAgain`. A broadcast is `FetchMotor`, `FetchStatus`, `FetchLatest` if Redis has no status,
`OverlayMotor`, the call of `getActiveAlerts`, and `Broadcast`, which compares and notifies in
the same turn. A request for firmware is `FetchRelease`, `Announce`. An update is known by its place in
`reports`; `emitted`, `announced`, `accepted`, `unchecked`, `handedOut`, `view`, the two `News` and
`told` are history.

**The sensor monitor.** `mon[m]` is where check `m` stands; at a calling step the
process `pc[m]` of `MotorService` runs the handler the check awaits. A hash of four
flags is `"working"` or one of `Bad`. Time is in timer intervals: `age` counts them
since the hash in the cache was stored; at two intervals the comparison with
`SENSOR_CHECK_INTERVAL * 2` may go either way, since the timestamps are taken after a
few awaits. A start that is rejected, and a default state that somebody else has inserted meanwhile, throw into
the check and end it.

**Abstractions.** One device, since nothing is shared between devices but the timer.
Display data is left out (currents, runtimes, buzzer, the target's description). Command ids differ: two
commands of one device in the same millisecond are not modelled (a hazard). The MCU
waits for the answer to one request before it sends the next and does not time out.
A key may vanish at any time, which covers its expiry; only the hash of alerts has a clock
(`clock`, in half hours), because two expiry times are compared there. A call of the alerts
takes less than a unit of it. `last_command_reason` is one of three classes, which is all the
monitor tells apart. A status is the set of alert conditions that hold in it and what it shows of
supplies and sensors. In `History` a row is a time and a flag; the values of charts, and the rows
of system events, which nothing reads, are left out. DuckDB answers a query as of one moment.
Times of rows are of the server's clock, which does not run backwards.

## 3. Runs

| Run | Instance | Question | Result |
|---|---|---|---|
| `motor_service` | 2 handlers at once, 3 requests (stop, target, two heartbeats, poll, ack, read), 1 fault, backups in two steps | can a whole copy of the state name a command it does not show, or a stop with a target; is a pending field cleared unconfirmed by a handler that nobody overtook? | no |
| `torn_backup` | the same without faults | does the row show the command it names? | violated |
| `start_race` | 2 handlers, 3 requests | is a start stored only while the state allows it? | violated |
| `pump_mailbox` | the MCU and a user, 3 commands, 1 heartbeat, 1 fault, any number of polls | does the slot implement `CommandMailbox`? | yes |
| `command_lost` | the MCU and a user, 2 commands, no fault, fair | does the latest command reach the MCU? | violated |
| `sensor_faults` | a timer check, a forced check, a client; 1 request, 3 events, 1 fault | is a pause recorded or resumed that was not carried out? | no |
| `sensor_live` | a timer check, a client; 2 requests, 3 events, no fault, fair | are pumps paused, resumed, and once per pause? | yes |
| `sensor_unsafe` | the same with 1 event and 1 fault, fair | is a pump that runs beside a dead sensor stopped? | violated |
| `sensor_user_stop` | the same with 2 events, no fault | is the state before the pause restored? | violated |
| `live_data` | 2 handlers, 3 requests, 2 clients, 2 devices to subscribe to, 1 fault; for the alerts 4 half hours | is what clients are told stored, complete, not outdated and consistent with what they were told before? | yes |
| `alerts_hour` | the same without faults, 5 half hours | is an alert listed until its own expiry? | violated |
| `history` | for the cache 2 requests at once of 3, 3 devices, 2 rows, a limit of 1 entry, 3 units of time; for sessions and charts every table of one device over 5 units of time | is the cache bounded and recent, are sessions, statistics and charts what the rows say? | yes |

**Bounds.** Each is a counter in the MC module. Two handlers are enough for every
race of the motor service that involves one shared key, since each handler reads
once and writes once; three requests let two race over a state the third one left.
One fault at any point covers every single crash, failure and expiry; the theorems
of section 4 cover any number of everything. A pause, a resume and a second pause
take three sensor events. In the composed runs a backup ends before the next step
(`BackupsFirst`): their properties do not read the row, whose races `motor_service`
checks. `CHECK_DEADLOCK` is off because the instances stop when their counters are
used up; no handler waits for another.

`live_data` and `history` each ask about two things that do not meet, so a behaviour is about one
of them (`timed`, `cached`, chosen in the initial state): only alerts depend on time, and
sessions and charts depend on the tables alone. With time, a handler gets to its alert call
before anything else happens, since what comes before does not read the clock; that it interleaves is the
business of the other half. An alert lives 2 and the hash 4 units, so an alert can outlive its hash's other
alerts, be raised in the last half of its life, and expire before a reader looks. Limits of
4 rows, 3 points and 1 entry stand for 500 or 1000, 100 and 100: each is exceeded by the instance (a
period may have 5 rows of a tank and 10 of levels, and three devices ask).
A chart window and a minute are 2 units, so that rounding loses something.

**What the properties of the motor service except.** A row that two saves have mixed shows what no
command asked for (`torn_backup`), and so does a state that is recovered from it: `PendingCommandIsShown` and
`NoTargetWhileStopping` are about the copies that no torn row has gone into (`Whole`), which are all copies
but the row until a handler reads a torn row. The instance has both, the row and its reader (one that had
missed Redis before the state was there); the theorems cover what more requests do. A heartbeat that
was resolved against an older state may clear what a newer command set
(`modules/motor/motor.service.ts:178`): `ClearedByConfirmation` allows it for the fields that have changed in
Redis since the handler read them (`Overtaken`), field by field, and forbids it for all others. The comments do not
claim more, so this is a hazard and not a finding.

**The instance of `motor_service`.** Stop and target disagree in every pending field that both set; one heartbeat
confirms the target, the other carries nulls. The log entry that ends a handler touches nothing shared, so
it is taken before anything else (`LogFirst`). Unset columns of a new entity are left undefined in this instance; the theorems
allow null as well (`FreshValues`).

**Fairness.** `sensor_live` and `sensor_unsafe`: `setInterval` fires for ever (weak
fairness of `Tick`), an awaited call returns or throws in the end (of `Check` and of
`ClientWork`). `command_lost`: the same for the handlers, and an MCU that keeps
polling. Nothing is assumed of users, sensors, faults or the order of handlers. The other runs check
safety only: a status update or a broadcast that is cut off is simply gone, and nobody waits for it.

## 4. Proofs

`MotorServiceProofs` proves, for any number of handlers, requests, faults and any set
of commands and heartbeats: `TypeOK`, `PendingCommandIsShown`, `NoTargetWhileStopping`.

- The assumptions are `LevelsAssumption`, `AbsentAssumption` and `RequestsAssumption`: levels
  are naturals, the two absent values are no ordinary value, and the requests are
  requests. The compositions add `McuAssumption` (the MCU is a client of its own) and
  `MonitorsAssumption` (checks run in processes of their own, and may send the monitor's two commands).
- None of the three is inductive. `Inv` strengthens them: every copy of the state, in
  Redis, in a backup or in a handler's hands, is `Good` (well typed, and, until a torn row is read,
  *coherent*: an id comes with all its command asks for, and a pending stop with no
  pending target), and so is the row unless it is torn (`RowOK`); every update that a handler carries is either the whole of a
  stored command or a heartbeat's, which sets no pending field and takes the id along with
  the first field it clears. Merging such an update into *any* good state gives a
  good state, which is why the races of the handlers do no harm; a heartbeat resolved against one state may be
  applied to another, so coherence has to be a matter of the update alone.
- Saves are different: what a save writes depends on the row it selected, and the row it meets may be another. A save that
  leaves what its state says of the pending command, or leaves these columns alone, keeps the row coherent
  (`SaveRowCoherent`); one that does a part of it makes the row torn, until a save agrees with the row in all of it. What a save has
  selected must itself be a row (`BaseOK`), which is why `Inv` speaks of the selections under way.
- The lemmas about the data (merging, both kinds of update, the default state, saving over
  any row; the first part of the module) carry the argument; the proof about the steps has one
  lemma per action.

`ClearedWhenConfirmed` proves the fourth property, `Spec => ClearedByConfirmation`, for any handlers that overlap and
any requests, failures, restarts and lost keys. `Decided` is what it adds to `Inv`: the update
of a heartbeat is what the resolution makes of the state in `current`, and an update of a command clears
nothing, since a target without a level is rejected before. A field that is cleared and was not confirmed by
the state in Redis then differs from `current` or from what the update read.

`PumpControllerProofs` and `SensorMonitorProofs` prove that a step of `PumpController` or of
`SensorMonitor` is a step of `MotorService` or leaves its variables alone
(`ControllerImplementsService`, `MonitorImplementsService`), so that the three invariants hold of
both compositions too.

`SensorMonitorProofs` proves `MonitorTypeOK` and `ResumeFollowsPause` for any number of checks,
forced checks and clients, any hashes, and any failures, restarts and lost keys. Its
invariant `MonInv` adds to `Inv` what a check relies on while it awaits a handler: the
handler of a stop is past the queue only if the stop is stored, and it can return to the check only from
the end of the update (`Moves`: a stop is never rejected, and a refused insertion ends the check), so a check that records a pause,
or sees a record and starts the pump, has a stored stop behind it; a resume command gets an id
above all the stored ones. Requests of clients never carry the monitor's reasons
(`ClientRequests`).

`OneResumePerPause` proves `ResumeOncePerPause` under two conditions, for any clients, events and
hashes: `OneCheckAtATime` (a forced check has a monitor of its own, so two can overlap, and both may
then resume on one record), and `ResumesComplete` (a check that has started the pump ends by dropping
the record that allowed it, else the record is used again). Failures and restarts
at every other point are allowed; `sensor_live` has neither. The
invariant `ResumeInv` says that while a record can still be resumed, in Redis or in the hands of a check,
the monitor's last command is a stop (`StopIsLast`).

`PumpControllerProofs` also proves, for any number of users, commands, polls and faults, that
the slot implements `CommandMailbox` (`SlotIsMailbox`). The invariant is `SlotInv`: the command in
the slot, and the one a poll is about to write back, is no older than what was handed out last
and younger than what was confirmed; only the MCU polls and acknowledges; and the command it
executes and acknowledges is the one it was handed last. That a poll writes back what it read would break
this if a second poll or an acknowledgement could run beside it: `McuSpec` is where the
client's habit of one request at a time enters.
An acknowledgement resets `handed`, so that handing out an acknowledged command again is a step of
the mailbox, and a forbidden one, and not a stutter.

`ActiveAlertsProofs` proves `NoExpiredAlertReported`, `FreshAlertListed` and `HashHasExpiry` for any
number of callers, any kinds of alerts and any two lifetimes (`TTLAssumption`). `AlertsInv` adds
what a call knows between its commands: its alert is of the time it began at and that is less
than a unit ago (`CallTiming`), what a reader removes had expired and after that nothing expired is left
(`Cleaning`), a hash lives for its full time from its birth (`HashLife`), an alert that fits into
that time is in the hash it was born in (`FreshIsInHash`), and a hash without expiry has a setter on its way to set
one, alone with its alert (`ExpiryToCome`).

`DeviceServiceProofs` proves `EmittedIsStored`, `AcceptedAlarmsAnnounced` and `PumpCommandsInOrder`. Its
invariant says that an update has one handler (`OneHandler`: else a failed write could end
another's wait), that a waiting handler's rows are stored or under way (`RowsAwaited`), and that the
command in the slot and the one in a poll's hands are newer than all that was handed out, with one
poll at a time (`CommandsNewer`). `GatewayProofs` shows that every step of the gateway is a step
of both modules below it or leaves them alone (`PromisesOfTheParts`), so that both implement
`ActiveAlerts` (`DevicesImplementAlerts`, `GatewayImplementsAlerts`), and proves
`GwTypeOK` (with the types of the stores, calls and firmware beside, `GwTypesInv`),
`NotificationsMatchBroadcasts` (the news add up to the states the gateway keeps, `NewsIsKnown`, and
these to what was shown last), `TrackedClientsAreJoined` and `SessionIsLastAnnounced`, under
`ViewsAssumption` and `StatusesAssumption`: a status shows something of each supply and sensor.

`HistoryProofs` proves `CacheTypeOK`, `CacheIsBounded` and `LatestIsRecent` for any number of
requests, devices, rows and any limits: no key is twice in the map, so that each insertion
above the limit removes one; and an entry or a result on its way misses no row that had landed
when its query ran, which is at most one lifetime of an entry and the duration of a query ago.

`WaterSupplyProofs` and `HistoryProofs` prove what is computed from the tables, for any rows, tanks,
periods and limits: `SessionsReal` (if the query returns all rows of the period, the sessions are the
longest stretches in which the rows say the supply was on), `StatsFitAlways` and
`ChartsFit`. `TablesInv` (the tables are finite, and a device has one row at a time) is all they
need of `HistorySpec`; the rest is about operators.

- The assumptions are `SupplyAssumption` and `SeriesAssumption` (limits, the minute and the
  chart window are naturals, and positive where the code divides by them), `FlagsAssumption` (finitely many tanks) and
  `CacheAssumption`.
- The loop of `getWaterSupplyDuration` is a recursive function, and a statement about each of
  its rounds is proved without an induction theorem: the set of rounds at which it fails has a least
  member (`HasLeast`, from the well-founded order of the naturals), which is not the first and whose
  predecessor does not fail (`InductionTo`). `Recursion` obtains the equation of a function
  defined by recursion in the same way.
- The loop's invariants are that the sessions so far are stretches of the rows so far, in order
  (`InOrder`) and apart from one another (`LoopApart`), and that each row so far with the supply on lies in
  one of them or in the open one (`Covered`). They follow from each other only together with
  the order of the rows, which is that of `SortSeq` (`OldestFirstSorts`).
- The statistics add up durations that are each rounded to a minute: the sum differs from the rounded sum by at
  most a minute per session (`SumRounded`). Charts are a matter of the sampling step, the
  quotient rounded up (`SamplingFits`). `SeriesFits` speaks of times and not of rows: it holds whether rows
  of one time make one point, as the comments at `devices.service.ts:593` and 598 mean, or several, as in the code.

The run `history` checks the same of `MCSpec`; `CheckedSessionsReal`, `CheckedStatsFit` and `CheckedChartsFit`
say it of `MCSpec` with any bounds, from `MCSpec => HistorySpec` and `CheckAssumption`.

What stays with TLC: the liveness properties `RunningPumpIsPaused` and `PausedPumpIsResumed`
(temporal reasoning under fairness is out of the prover's reach), and the six
violations, which are behaviours and nothing to prove. Every invariant and action property that a passing run
checks is proved, `ResumeOncePerPause` under the conditions named above.

## 5. Findings

1. **A start after protection** (`start_race`): validated at line 132 of
   `motor.service.ts`, stored at 145, with an `await` between them.
2. **A command lost without a failure** (`command_lost`): `getPendingCommand` writes the command
   it has read back (line 207 of `motor.service.ts`), over one stored meanwhile; line 221 deletes
   the slot, not the command that is acknowledged. The user sees the lost command as pending
   until another command or a heartbeat clears it.
3. **A pump that runs beside a dead sensor** (`sensor_unsafe`): after a stop that did not
   reach the MCU, the text in `lastCommandReason` makes line 132 of
   `sensor-monitor.service.ts` take the pump for paused.
4. **A pump started against its user** (`sensor_user_stop`): the record always says
   `running` (line 245 of `sensor-monitor.service.ts`).
5. **A row that two backups have mixed** (`torn_backup`): a stop, a target and a stop in a row, say; the backups of the later
   two both select the row of the first, so the last one leaves out the fields in which it agrees with that row and keeps
   the target's. The row, from which the state is recovered when Redis has lost it (line 28 of `motor.service.ts`), names
   one command and shows another (line 105).
6. **An alert that is not listed for its hour** (`alerts_hour`): the expiry of the hash is set
   once, for its first alert (`redis.service.ts:104`), so an alert of the second hour goes with the hash.

Seen while modelling, without a run: the statistics of water supply over 30 days
(`devices.service.ts:665`) see the oldest 1000 rows only, and a session open in the last of these
counts up to the present; `getCurrentWaterSupplyStatus` always says off, since the query of
the latest data does not select `water_supply_on` (`duckdb.service.ts:361`); for the same reason
a status that falls back to DuckDB shows all sensors disconnected, and clients are
notified so; `processTimeSeriesData` merges by `record.time`, which is a `Date`, so no
two rows ever share a point (`devices.service.ts:598`), and with more than 100 points the newest may
be left out; the cache holds 101 entries (`duckdb.service.ts:524`); a pump command for a device without a
row is stored and then answered with an error (`devices.service.ts:128`); a pending level of null counts as 0
(`motor.service.ts:434`); every update marks the MCU online (`:93`), which the offline
check cannot undo in Redis (`:240`); a heartbeat with a null `target_mode_active` is stored in Redis (`:68`), and from then until the next boolean every backup is refused by
the column, which is only logged, so that the row stays behind; `SENSOR_MONITORING.md:152` says a check every 10
seconds where the code has 30.

## 6. Plan and what is not modelled

1. `PumpSystem`: `SensorMonitor` and `PumpController` as one closed system, with the
   physical pump beside the state that is shown of it; the runs would replace `sensor_live` and
   `command_lost`, whose properties it contains.
2. Several gateways behind one Redis, if the program ever runs as more than one process: the maps of
   `Gateway` are per process, and `NotificationsMatchBroadcasts` would be about each.
3. `HandleOTAComplete` and `HandleOTAProgress` with the version they are about, once the messages carry one.

Not modelled, and why: SQL texts, the conversions of readings and the texts of messages (data that no
decision depends on); push notifications (calls nobody waits for, their only state is whether
they were switched off); health reports, logging and wiring (they read and report);
`clearAlert`, `cleanupCache`, the alert rules, cached queries and pump runtime of Redis and the clean-up of old
events (no caller in the program). `motor_control` and `reset_protection` of the gateway are
requests to the motor service and covered there.
