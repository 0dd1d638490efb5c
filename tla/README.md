# Verification of the XY-table welding station

TLA+ models of the software that builds and tests battery packs (`src/`, the Python package
"rrc" and its station programs), the TLC runs that check them on small instances, and TLAPS proofs
about them. The models are translated from the code. Abbreviations of files in this document:

- NC: `src/xytable_automation_with_LOG_grind_after_each_side_new_concept.py`, the current program of
  the automated welding table
- MT: `src/xytable_manual_with_LOG_grind_anywhere.py`, the program of the manual table
- SPS: `src/aws3_pm_sps_xy.py`, the control of the welding station

1. [Inventory](#1-inventory) - the parts of the system
2. [Modules](#2-modules) - which module models what, and how
3. [Runs](#3-runs) - what is model-checked, bounds, fairness
4. [Proofs](#4-proofs) - what is proved and how
5. [Findings](#5-findings) - where code and comments disagree
6. [Limits](#6-limits) - what is only model-checked, what is simplified, what is not modelled
7. [Plan](#7-plan)

## 1. Inventory

### The table program and what it runs on

| Part (source) | State it keeps | Operations | Hard behaviour | What makes it correct |
|---|---|---|---|---|
| Welding program: `table_state_machine`, `test_combined_controllers` (NC 1577-2831) | machine state, `table_index`, `welding_position`, recovery context, `waiting_for_result` | one call per turn of the main loop: HOMING, INIT, START, MOVE_NEXT_COMMAND, PROCESS_COMMAND, FULL_AUTOMATION, ERROR_WELD, EMERGENCY_HANDLING, GRINDING | contexts set in five states and consumed in two; flag tested and reset in seven places; results of moves dropped in four | the head is fired only at the table's position; no point is skipped or repeated; recovery ends; the number the supervisor confirms is the point welded next |
| Safety monitors, grind watchdog (NC 45-110) | last level of each input; `grind_request_event` | poll, raise `emergency_event_triggered` or the event | run in threads of their own, between any two statements of the program | a trip is seen before the table moves or the head is fired |
| Stage driver `XYLinearStage` (NC 970-1260) | cached position of each axis, `emergency_event_triggered`, recovery context, downtime flag | `home`, `goto_position`, `positions_in_mm`, `is_connected`, `command` | the controller counts steps only while it has power; relative moves from a cache; lost or garbled answers; one axis of two fails; `command` calls itself through `stop` | the counter tells where the table stands, or the caller is told that it does not; a command returns when the power is back |
| Weld handshake (NC 2009-2140, `modbus/aws3.py`) | phase, last toggle bits, START output | fire, wait for the contact, poll ready, toggle and level bits | nothing in an answer names its weld; bits flip one by one; an output write fails unseen | the verdict acted on is that of the weld fired last, and one that is shown is taken |
| Stage arithmetic `LinearStage` (NC 720-965) | steps per mm, limits | target -> command, clamping | rounding, the end of travel, sign lost in the reply | every target of the table is reached within 1 % |
| Event log `EventLogger` (NC 420-579) | the open downtime session | start, end, log | nested failures of `command` open and close sessions | no session is left open |
| Manual table program (MT) | as the welding program, with the pedal output and `program` | as above with WAIT_WELDING_DONE and CHECK_WELD_RESULT for FULL_AUTOMATION | the operator's foot on the pedal; welds known by toggle bits only; grinding at any position | the pedal is enabled only at the point, with its program; a verdict is taken for the point welded |
| ADAM-6052 I/O (`adam6xxx`) | - | read input, write and verify output | write failures swallowed by the caller (NC 1418) | outputs are off when the table moves |
| Motion controller, light curtain, buttons, welding head | external | | power failure, trips, missing contact | modelled from their use |

The program calls the driver and the I/O; the monitors share `emergency_event_triggered` and
`grind_request_event` with it and nothing else. The welding machine is triggered over DO6/DO7 and
answers over Modbus (toggle bits, then ok/reject).

### The other parts

| Part | State | Hard behaviour | What makes it correct |
|---|---|---|---|
| Welding station control (SPS; `aws3_pm_sps.py` and `_IPQC` are variants): `SPSStateMachine`, `ProcessSPS`, `ProcessScanner`, `WindowUI` | state, `sequence_pos`, believed lock, last toggle bits, `_udi`, command and response queue | a weld is known only by a flip of two bits; scans, skips and shutdown fall between any two steps; `continue` without `task_done`; three tries of the database write; the lock is opened and closed at different levels | every weld is recorded once under its battery and position; a battery reported as passed was welded completely; a locked machine is opened only with the program of the position; shutdown ends |
| I2C gateway, muxes (`eth2i2c`, `i2cbus`) | selected channel, shadowed per mux | exchanges that were executed and not confirmed; other users; an adapter is exchanged | a transfer reaches the selected device |
| Calibration storage (`calibration_storage.py`, `eeprom_at24hc02c.py`) | three equal pages per value | torn, missing and misdirected page writes | what a store confirms is stored, what a load returns was stored |
| DSP interface (`dsp/interface.py`) | results the MES has not taken, in a file | refused and unanswered posts, the end of the program in between, old results in the file | none is dropped, none taken again but after a failure |
| PCBA programmer (`pcba_programmer.py`, `chipsets/bq_flex_flasher.py`, `chipsets/bq.py`) | command queue, a worker process per socket; the seal state of the chip | clicks queued behind clicks; late results; writes without effect; a board that loses contact; exceptions of five kinds | a board shown as passed is programmed; one writer per board; the socket becomes available again |
| AWS3 driver (`modbus/aws3.py`) | last toggle bits, program | new bits stored before the result is read; result bits of the last weld still set | a weld is reported once, with its own result |
| Modbus client (`modbus/base.py`) | connection, reference count | open/close pairs by several users, retries without limit | the connection is open while somebody uses it |
| Transports (`serialport`, `eth2serial`, `eth2can`, `eth2gpio`) | socket or port | a timed-out request returns an empty string | an answer belongs to its request |
| SMBus master, batteries (`smbus*.py`, `smartbattery.py`) | PEC flag, retries | repeated writes, checksum errors | a verified write is what the device holds |
| Chipsets (`chipsets/`) | seal state of the gauge | order of unseal and seal | full access when it is needed |
| Five other XY-table programs (`xytable_*.py`) | as above | older or in-process-control variants of the same walk | as above |
| Instruments, relays, DACs, sensors, UUT adapters | none of their own | - | - |
| Scanners, printers, dialogs, `ui/` | GUI | - | - |
| `gcode/` | vendored interpreter, not used by the table | - | - |
| Configuration, exports, database (`station_config_loader.py`, `manufacturing/`, `dbcon/`) | - | - | - |

`_obsolete/`, `ui/theme`, `modbus/_examples`, sample data, sounds and documents hold no logic of the
station.

## 2. Modules

| Module | What it is |
|---|---|
| `WeldingCycle` | abstract specification: what one battery is promised; implemented by both table programs |
| `StageDriver` | the stage driver on a controller that loses its count with its power |
| `TableMachine` | the welding program, the monitors and the watchdog, on `StageDriver` |
| `TableInvariants`, `TableProofs`, `MCTableMachine` | its inductive invariants, its proofs, its small instances |
| `ManualTable`, `ManualProofs`, `MCManual` | the manual program on `StageDriver`, its proofs and its instance |
| `WeldHandshake`, `HandshakeProofs` | how the program comes by the verdict of a weld |
| `CommandCall` | abstract specification: what `command()` is to its callers |
| `CommandRecovery`, `RecoveryProofs` | the recursion of `command()` through `stop()`, which implements `CommandCall` |
| `StationSPS`, `StationProofs`, `MCStationSPS` | the welding station's control in production mode, with scanner, window, operator and machine |
| `MuxedBus` | an I2C bus behind a multiplexer |
| `CalibrationStore`, `CalibrationProofs` | the calibration values in the adapters' EEPROMs, on `MuxedBus` |
| `ResultReport`, `ResultProofs` | test results on their way to the MES |
| `BoardFlasher` | a worker that unseals and programs a board |
| `PcbaProgrammer`, `ProgrammerProofs`, `MCProgrammer` | the window, its queue and its workers, on `BoardFlasher` |

`TableMachine` and `ManualTable` use the driver as `StageDriver` has it, where a lost call is one
waiting state; `CommandRecovery` shows that the code's recursion is such a call. `TableMachine` has
one verdict per weld; `WeldHandshake` shows how far the bits of the machine give that.

An operator named `...Blind`, `...Keeps`, `...Late` and so on, commented "mutant", is a plausible bug in
the definition that follows it; the properties are tested against these.

### StageDriver

A driver method is a *call*; a step is one command to one axis together with its answer, so that
power failures and monitor threads fall between the axes of one `goto_position`. `phys` is where the
table stands, `counter` what the controller believes, `cached` what the driver believes
(`stage.position`; `Unknown` is `None`). A move is relative: it ends at
`phys + (target - cached)`, which is the target only while cache, counter and table agree.

| Model | Code |
|---|---|
| `StartHome`, `StartGoto`, `StartRead`, `StartPing` | `home`, `goto_position`, `positions_in_mm`, `is_connected` |
| `CommandKind`, `Limited`, `Aim` | `absolute_position_to_motion_command`: `None` and "already there" send nothing, targets at or below 0 home, targets beyond `max_position` are clamped |
| `HomeAxis`, `MoveAxis`, `QueryAxis`, `Ping`, `SkipAxis` | one command, answered as asked |
| `LimitSwitch`, `ErrorReply` | `ERRn` answers: `home`, `goto_position` return False at once, `position` keeps the old cache, `positions_in_mm` leaves the axis out (`seen[a] = Unknown`) |
| `GarbledReply`, `PowerCut`/`NoAnswer` then `Reconnect` | an empty or garbled answer: `command` waits until the controller answers `?R`, forgets all cached positions, raises the flag and fails; the command is not repeated |
| `Digits` | the reply is parsed by its digits, so the sign is lost |
| `PowerOn` | the controller counts from 0 again |

Positions are integers and "within 1 %" is equality: the instances' targets are further apart than
the tolerance, and nothing in the model lies between.

### TableMachine

`state` is the value passed from one call of `table_state_machine` to the next. Inside a call the
program waits - for the driver, for a button, for the stepping contact - and `at` names the place;
statements between two waits are one step, except where a test and a reset of the shared flag are
separate statements: `MoveCheck` (test at NC 1881, DI4 read) and `MoveClear` (reset at NC 1907) are
two steps, so the monitors can act between them.

Each action carries the code's name of what happens: `MoveNext`, `MoveNextPrinted`, `MoveNextPinged`
are the three segments of MOVE_NEXT_COMMAND, separated by its two `is_connected()` calls; and so on.
`Called(s)` includes the main loop's own wait: no call is made while an input is active.
`context` is `xy_table._recovery_context` with fields `target`, `ret` (`return_state`), `phase`
(`grind_phase`), `advance` (`advance_table`). `welded` and `struck` are history variables: the
entries with an OK result, and the entries whose weld was made, for the battery at hand.

An operator who declines the restart (`Denied`), a weld the machine rejects or gives no verdict of
(`WeldResult`), a contact that is never reported (`ContactTimeout`), a sticky electrode (in
`MoveCheck`) and a tripped input (`Trip`) are choices of the environment, counted in `faults`.
`Exposed` says in which machine states the stage itself may fail.

`pedal` is DO7 and `trigger` DO6; the welding machine's pedal is down (`Pressed`) while both are on. A
write that fails (`WritePedal`, `WriteTrigger`) leaves the output as it is, and the program goes on as after a
success, since `toggle_welding_mode` and `trigger_welding_start` swallow the exception and no caller looks at
their answer. A lost START ends as a contact that does not come; a lost release keeps the pedal down.

`ASSUME TableAssumption` states what the code's table has: it starts and ends with a position and a
command stands between two positions. (`POSITIONS_OF_PART`, NC 1379 on; the WELD entry takes its
target from the entry before it.)

### WeldingCycle

The promise, without the machine: welding points are fired in table order, each after an OK result
of all before it, and none after its own. A battery may be given up between two points, an attempt
may be discarded. `TableMachine!CycleSpec` instantiates it with the WELD entries of the table and
`firing` = the entry at `table_index` while the stepping contact or a result is awaited;
`ManualTable!CycleSpec` with `firing` = the entry the pedal was pressed for, from the press until its
verdict is taken. So the second one also says that a verdict is taken for the point that was welded.

### ManualTable

The same reading of the code as `TableMachine`: `state`, `at`, `context`, one action per segment between
two waits. Differences that shape it:

| Model | Code |
|---|---|
| `StartPinged`, `StartRead_`, `StartMove`, `StartGrind` | START is a place a recovery returns to, and the operator chooses MOVE or GRIND there; `StandsAt` is the position `table_index` stands for |
| `WeldPinged`, `ProgramSet` | PROCESS_COMMAND at a WELD: DO7 on, then the program number is written and read back; two steps, since the operator may press in between |
| `MovePinged` | PROCESS_COMMAND at a MOVE: grind request, `_power_was_cut`, electrode contact, in this order |
| `WaitPinged` | WAIT_WELDING_DONE: every way out but the verdict takes the point back that `WeldPinged` has counted |
| `CheckResult` | CHECK_WELD_RESULT: by the level bits; neither of them means back to waiting |
| `PressPedal`, `WeldEnds` | the operator and the machine; `news` is "the toggle bits differ from those kept", so a second weld before the first is taken puts it back to FALSE |
| `AskSupervisor`, `Denied`, `Unloading`, `Granted` | the password dialogs of ERROR_WELD and EMERGENCY_HANDLING |
| `EmptyAnswer` | `int('')` raises ValueError, which `command()` does not catch: the program ends |

No thread raises `_power_was_cut` here (it is `emergency` of `StageDriver`): only a lost command does.
`shift`, chosen once, is the set of troubles that come together in a behaviour; `Habits` is what the
operator does with the pedal: `early` presses before the program number is confirmed, `twice` welds
again before the verdict is taken.

### WeldHandshake

FULL_AUTOMATION of NC and the machine behind it, with every output and every bit a step of its own:
`Check` and `Fire` are phase 1 (ready asked, DO6 on), `Contact` one of 50 looks at DI7, `ReleaseStart` and
`GiveUp` the two ends of that wait, `Poll` and `Toggle` the two Modbus reads of phase 2
(`is_machine_ready`, then `is_toggle_bit_changed`, which keeps new bits only when both have flipped).
`own`, `outcome` and `lost` are history: what became of the weld the program fired last.

The machine is external. Assumed of it: a weld starts with the rising edge of START while the
machine is ready, and takes back the level bits of the last one; START taken back before the contact
calls the weld off; ready does not come before the verdict; the toggle bits flip in any order at any time between the
end of a weld and the end of the next. `trigger_welding_start` swallows a failed write (NC 1418), so
`WriteStart` may leave the output as it was.

### CommandRecovery and CommandCall

A request that fails calls `stop()`, which is a command: `depth` counts the calls one inside the
other, `at` is the place of the innermost. `StartDowntime` and `Restored` are the rest of the handler,
which every call but the innermost goes through on the way back. `MaxDepth` is Python's
recursion limit in calls of `command()`. `CommandCall` is what the callers see: asked, answered, or
lost; and a lost call ends with positions forgotten and the flag raised.

### StationSPS

One turn of `ProcessSPS.run` is: make the state machine if there
is none (`Create`), one `do_one_loop` (an action per state), what the loop does in the state reached
(`ActFailed`, `ActPositionPassed`, `ActPassed`, `ActOther`; each first locks the machine if there is no
battery), one command from the queue (`NoCommand`, `DropCommand`, `UdiScanned`, `MoveCounter`,
`ValidationWelding`, `Poison`). `at` is the place in the turn. SYNC_ON_TOGGLE_BIT talks to the machine
four times, and the machine goes on in between, so it has four steps: `SyncUnlock`, `SyncPoll`
(`is_toggle_bit_changed` stores the bits it sees), `SyncResult` (result bits read), `SyncLock` (machine locked).

| Model | Code |
|---|---|
| `coil`, `machine_locked` | the step lock of the machine (coil 45), and `_machine_locked`, what the station believes of it; `LockMachine` writes only if it believes it must |
| `toggle`, `toggle_bits` | both toggle bits flip together, so one Boolean stands for them; `dev._toggle_bits`, taken anew with every device |
| `result`, `welding_status` | the result bits as ok, reject or none; what the station read |
| `weld`, `made` | the weld in progress with the battery, position and program the station had when the pedal was pressed; history of the finished ones |
| `stored`, `sent` | history: rows committed by `store_db` (a failed third try commits nothing), results sent to the MES |
| `unfinished` | the count behind `JoinableQueue.join`: put adds one, `task_done` takes one |
| `q_res`, `skip_button` | only the responses that change what the window lets the operator press |

`Habits` says what the operator may do: `early` presses the pedal whenever it is free, `overlap` scans
while a weld is made or unread, `skip` uses the validation-welding buttons, `close` shuts the window.
Without `early` the operator waits for a battery and for the last result. `Faults`: a reject, no
verdict, the MES refusing a battery, an error of the DSP interface (which ends the process), the
database refusing all three tries. Modbus reads repeat until the machine answers
(`modbus/base.py`), so no action of the machine fails. `--block_scan_udi` is at its default, scans do
not force a restart.

### MuxedBus and CalibrationStore

`current_mask` is the shadow `BusMux` keeps, `chip` what the multiplexer connects. A mask that the
shadow shows is not written again. The gateway tries an exchange up to three times
over a new connection each time; writing a mask or a page twice is the same as once, so the tries show
only in how the exchange ends: done, odd (a return value of 0 that nobody looks at) or with an
exception - executed or not in the last two cases.

`CalibrationStore` adds one EEPROM per adapter. One step is one exchange: `Select` (`I2CMuxedBus` selects
its channel before each transfer), then a transfer (`WritePage`, `ReadBack` of `write_page`, `VerifyPage` of
`__read_value`), to *whatever the chip connects*, perhaps two EEPROMs or none. `Agree` and `Verified` are
the comparisons of the pages. Between two calls other users move the multiplexer (`Others`) and
adapters are exchanged (`Unplugged`). `asked` is history: what a load may return.

### ResultReport

`Load`, `Post` (one result), `Save` are the loop of `ts_send_result_for_testrun`. The MES refuses a result, or does not
answer and has taken it or not, or the program ends at any place, also while it writes the file.
`Refused` ends the call, since the warning raises before the result is kept (section 5). So no call of this program
ever saves a list that is not empty. The file may hold one all the same (`OldLists`, outcome `kept`): one an
older version left, or `interface.py` 374, which saves before it posts. Every call posts it before its own
result, and only a call that gets everything posted empties the file.

### BoardFlasher and PcbaProgrammer

The chip is its security mode and the set of lines of the file that took effect; the file is a
sequence of kinds of lines. `SwitchOn`, `Ask` ... `NoAccess` (unseal with both keys, and the
shadow of the operation status), one action per kind of line, `SwitchOff`. `Finish` is a result of
`process_file`, `Raise` an exception that only the worker catches: then the board stays switched on.
`PcbaProgrammer` has the window: `Press`, `process_command_queue` (`TakeStart`, `TakeResult`), `PutResult`.
`Swap` is the operator putting in the next board while the socket shows START.

Assumed: a block that is compared covers the writes before it; a chip that loses its power is sealed
afterwards, or as one that was never sealed; the queue is FIFO.

## 3. Runs

Eleven runs pass; the twelfth is the finding of section 5. `CHECK_DEADLOCK FALSE` is set everywhere,
because every one of these programs really stops: after an uncaught exception (`at = "crashed"`), when
nobody scans, presses, clicks or calls any more, and, without fairness, anywhere.

| Run | Checks | Shows | States |
|---|---|---|---|
| `MCCycle` | `WeldAtTarget`, `AdvanceAtTarget`, `RecoveryEnds`, `CycleEnds` | in the environment the recovery is made for, the pedal goes down, and the index leaves a position, only where the table *really* stands; under fairness every recovery and every started cycle ends | 473,728 |
| `MCAnyFault` | `TypeOK`, `NoPointSkipped`, `RestartNumber`, `CycleSpec` | the bookkeeping holds whatever stage fault or lost output strikes in whatever state, and the program implements `WeldingCycle` | 203,824 |
| `MCGrinding` | `GroundAtGrind`, `FiresOnce` | with sticky electrodes: the operator grinds at the grind position, and a weld that was made is not repeated | 1,670,406 |
| `MCManual` | `TypeOK`, `PedalAtTarget`, `RestartNumber`, `CycleSpec` | the manual program: the pedal is enabled at its point, with its program; the number the supervisor confirms is right; it implements `WeldingCycle` | 197,740 |
| `MCHandshake` | `TypeOK`, `OwnVerdict`, `RepeatsUndecided`, `VerdictTaken` | the verdict acted on is that of the weld fired last, only an undecided weld is repeated at once, and a verdict shown is taken | 116,587 |
| `MCRecovery` | `TypeOK`, `NoSessionLeft`, `CallSpec`, `CommandReturns` | the recursion of `command()` is the one lost call `StageDriver` takes it for; no downtime session stays open; it returns | 1,211 |
| `MCStation` | `RecordsInOrder`, `WeldWithProgram`, `PassedIsWelded`, `WeldStored` | with an operator who waits, faults of machine, MES and DSP, and a shutdown at any moment: records, programs and results agree with the welds made, and every weld made is stored | 140,312 |
| `MCStationHabits` | `TypeOK`, `ReleasedForProgram`, `LockedWithoutUdi` | with an operator who does not wait, scans over a weld and skips, and a failing database: a locked machine is opened only with the program of the position, and stays locked while there is no battery | 1,222,344 |
| `MCCalibration` | `TypeOK`, `OwnChannel`, `TrueIsStored`, `LoadedWasAsked` | what a store confirms is stored in its own EEPROM, what a load returns was stored | 1,638,904 |
| `MCResults` | `TypeOK`, `NothingDropped`, `TakenOnce` | no result of a call that returned, and none of the file, is dropped; one is taken again only after a failed call | 5,598 |
| `MCProgrammer` | `TypeOK`, `PassIsProgrammed`, `OneWriter`, `ButtonBack` | a board shown as passed holds what the file compares, one worker writes to a board, a socket becomes available again | 225,306 |
| `MCShutdown` | `ShutdownEnds`, violated | the finding | |

**Bounds of the tables.** Two axes and two points. `MCTable` of `MCTableMachine` is MOVE WELD MOVE WELD
MOVE USER MOVE, the shape of every face of the code's table; `PausedTable` has one point, a PAUSE and a USER entry;
`MCTable` of `MCManual` has a point on each side of the part. The points of a column differ in one
axis, so that a `goto_position` moves one axis and skips the other. `MaxTravel` bounds positions (4 in
`MCCycle` and `MCAnyFault`, else 6; the positions of the table end at 3),
`MaxFaults` bounds the sum of everything that goes wrong. Two faults are needed for a fault during a
recovery, three for a fault in the recovery of a recovery, or for an outage after a trip after a
retry. There is one cycle after another; nothing depends on how many.

**The environment of MCCycle.** `MCExposed` is the largest set of stage faults with the property
`Tolerated` (`TableInvariants`) when electrodes do not stick: power may fail under a command in
MOVE_NEXT_COMMAND, PROCESS_COMMAND, ERROR_WELD and EMERGENCY_HANDLING, and while the program waits in
EMERGENCY_HANDLING; refused and garbled answers may come anywhere but in the first homing. What lies
outside is not harmless: section 5 shows what it does. `ReferenceInv`, the invariant that explains
why `WeldAtTarget` holds, says at which places the reference is relied upon, where a lost reference is
flagged, and where it makes a call fail.

**The environment of MCGrinding** is the largest with `Tolerated` and `GrindTolerated` when electrodes stick: as above, but
in PROCESS_COMMAND the power holds and no reply is garbled, in START none either, and the commands of ERROR_WELD and GRINDING,
whose motions are not looked at, are not refused. Six faults, because a refused unloading needs five more faults before it
leads the table astray (section 5).

**The environment of MCManual.** In one behaviour the power fails *or* the operator grinds
(`MCShifts`), because with both `PedalAtTarget` fails (section 5); this is `Tolerated` of `ManualProofs`. Cut and garbled answers come in any state, refused
commands anywhere but in the first homing, idle power cycles in EMERGENCY_HANDLING. The operator presses early, not twice.

**Bounds of the station.** Positions with different programs (so that a wrong program shows), in `MCStation` also two
in a row with the same one (so that one is kept). Two batteries, four welds and two scans in
`MCStation`, with two faults. `MCStationHabits` has two welds, one battery and one fault, since the habits
multiply the interleavings; a window button is pressed only when both queues are empty, which keeps
the queues finite.

**Bounds of the other runs.** `MCHandshake`: two faults, since one lost output or outage can be hidden by
the retry and the second meets the retry; any number of welds. `MCRecovery`: three outages and two odd
answers up to a recursion limit of six calls; an outage while the nested calls return is in it. `MCCalibration`: two
adapters and an empty channel, a value with three pages and one with a single page, two values of which
one is too short, three calls (store, change, load) and two faults. `MCResults`: three results and a
file with up to `MaxKept` = 2 old ones in any order, so that an old one waits behind another and a new one behind both, and
three faults, so that the same old result meets a refusal, a lost answer and a crash. `MCProgrammer`: two sockets and two runs (two clicks on one
socket, or one on each), files with a line of every kind, `KeyTries` two of the code's eight tries of the full access key, and one fault, of
any kind and at any step.

**Fairness.** All of it is weak, and no fault is fair.

| Run | Fair | Because |
|---|---|---|
| `MCCycle` | program, watchdog, monitors | a loop with polls; daemon threads with a sleep |
| | the driver's answer, the return of power, the release of a tripped input | a command ends by an answer or a timeout; people put these right. A button press is part of the program's step: the operator presses in the end |
| `MCStation` | process, window | `ProcessSPS.run` polls its queue with a timeout; `WindowUI` by `after` |
| | the end of a weld that was started | the machine; nobody need scan or press |
| `MCHandshake` | program; end of a weld, ready, each toggle bit, return of power, the machine's calling off of a weld | polls of phase 1 and 2; the machine answers as its interface promises |
| `MCRecovery` | driver, return of power | timeouts end every request |
| `MCProgrammer` | `process_command_queue`, each worker | `after(50, ...)`; every exchange of a worker ends by its timeout |

`MCAnyFault`, `MCGrinding`, `MCManual`, `MCStationHabits`, `MCCalibration` and `MCResults` check safety and
state no fairness.

## 4. Proofs

36 theorems in eight modules, each for every value of the constants that the named assumptions admit
(every table, number of axes, travel, set of inputs, sequence of positions, number of batteries,
sockets, clicks, channels, results, every set and number of faults). The assumptions are
`DriverAssumption`, `TableAssumption`, `ManualAssumption`, `StationAssumption`, `HandshakeAssumption`,
`RecoveryAssumption`, `BusAssumption`, `StoreAssumption`, `ReportAssumption` and `FlasherAssumption`, and TLC
evaluates them on the runs. Every safety property the runs check, invariant or action property, is stated by a
theorem; the liveness properties are not.

Some theorems hold in an environment only, which their hypothesis names: `Tolerated`, `GrindTolerated`, `Careful`,
`Waits`, or one fault or habit that is absent. These are conditions on the constants `Exposed`, `Faults`, `Shifts` and
`Habits`, and each run that checks the property satisfies them. None is idle: with
one conjunct of `Tolerated` given up TLC finds `AdvanceAtTarget` (in the manual program `PedalAtTarget`)
violated, with one of `GrindTolerated` `GroundAtGrind`, with one of `Careful` `RecordsInOrder`; section 5
says what happens in the program then.

### TableProofs

| Theorem | States |
|---|---|
| `ControlCorrect` | `Spec => []ControlInv` |
| `TypeCorrect` | `Spec => []TypeOK` |
| `PointsNotSkipped` | `Spec => []NoPointSkipped` |
| `RestartNumberRight` | `Spec => []RestartNumber` |
| `CycleImplemented` | `Spec => CycleSpec`: the program implements `WeldingCycle` |
| `WeldsAtTarget` | `Tolerated => (Spec => WeldAtTarget)` |
| `AdvancesAtTarget` | `Tolerated => (Spec => AdvanceAtTarget)` |
| `StrikesOnce` | `"no_verdict" \notin Faults => (Spec => FiresOnce)` |
| `GrindsAtGrind` | `Tolerated /\ GrindTolerated => (Spec => []GroundAtGrind)` |

`TypeOK` is not inductive: `table_index` is incremented in three places, and that it
stays within the table depends on which state the program is in; the target of a recovery is a
position only because the entry it was taken from is a MOVE entry or stands before a WELD entry. So
types and control are proved together: `TypeOK /\ ControlInv` is inductive, where `ControlInv` says
which machine state every place belongs to (`PlaceOf`), on what kind of entry the index stands in
each state (`IndexOf`), that the recovery context names the entry the recovery resumes at
(`ContextOf`), and when a result is awaited (`WeldOf`). The step is split into the
driver's part (`DriverStep`, which knows nothing of the program), the program's control
(`ProgramStep`), the calls it makes (`ProgramCalls`, `ProgramDriverStep`), the threads and the world.

`NoPointSkipped` follows from `WeldedOf`, which is an equivalence: the OK results are *exactly* those
of the WELD entries passed. Only so is it inductive, since a recovery may leave the index where
it was, and only so does it give the refinement, where a point is fired that is *not* in `welded`.
`WeldedOf` needs `IndexOf` (INIT resets the index and the results together; the index stands on a
WELD entry in FULL_AUTOMATION) and `ContextOf` (a recovery with `advance` stands on a MOVE entry, so
it passes no point).

`RestartNumber` speaks of one place only. `Counted` says what `welding_position` is everywhere: the number of
WELD entries before the index, and one more while the entry itself is welded (`Counting`). The counting itself
is `BeforeFacts`: passing an entry adds one to the cardinality exactly if it is a WELD (`FS_AddElement`).

`CycleImplemented` maps the initial state (`InitTyped`) and, by `CycleStep`, every step: `Fire` to the
abstract `Fire`, an OK result to `Accept`, a contact timeout, a reject or a missing verdict to
`Discard`, the scan of a battery to `NextBattery`, all else to stuttering.

`WeldAtTarget` relates two outputs to the place where the table *really* stands, which no part of the program knows. The pedal
goes down in two steps only (`PressStep`): `Fire`, or `WeldPinged` when a lost release still holds DO6.
What carries it from place to place is `ReferenceInv`: the program's places are of three kinds, those that
trust the controller's counter without looking at anything (`Strict`: power is on and the counter is right), those
where a lost reference is flagged (`Warned`: right, or `emergency` or `lost`), and those where it makes
the call fail (`Answered`). Between them stand the calls: `home` has put the axes it has passed to 0 (`AtHome(Homed)`),
`positions_in_mm` has read the passed ones where they stand (`SeenOf`); so a verified position is the real one, and the
WELD entry after it is processed there (`Arrived`). The stage's part (`RepliedReference`, `PowerReference`) rests on lemmas
about one command: a motion is counted however it ends (`RestReferenced`, `StoppedReferenced`), and a command
that is lost leaves the flag (`RepliedKeeps`). `Tolerated` is where it is used: a power cut leaves no `Strict` place with a
call in progress, and none between two calls but in the recovery, which homes first. `AdvanceAtTarget` is an action property from
the same invariant.

`FiresOnce` needs no reference: `StruckOf` says which entry a weld not yet decided belongs to, and where the index may be
then. `GroundAtGrind` needs a second inductive invariant, since nobody looks at the result of the move to the grind
position: `CacheInv` says where the driver's cache agrees with the counter (`Steady`, but for the places of `Warned` while the
flag is up), and how far a `goto_position` that starts from such a cache has come (`Travels`). When sticky electrodes are not among the faults
the theorem is vacuous for another reason, which the proof takes first: GRINDING is never entered.

### ManualProofs

| Theorem | States |
|---|---|
| `ControlHolds` | `Spec => []ControlInv` |
| `RestartNumberHolds` | `Spec => []RestartNumber` |
| `ManualCycleImplemented` | `"twice" \notin Habits => (Spec => CycleSpec)` |
| `ManualTyped` | `Spec => []TypeOK` |
| `PedalsAtTarget` | `Tolerated => (Spec => []PedalAtTarget)` |

Here `ControlInv` is inductive with nothing known of the driver (`ProgramTyped` in it speaks of the
program's variables only), so the theorems hold for every answer the stage may give, and for all
troubles together, which the run does not have. `WeldOf` ties a weld under way and a verdict not taken
yet to the entry at `table_index`; it does not need the operator's patience. `CycleStep` does: a second weld before
the verdict of the first is no step of `WeldingCycle`. `Counted` is as above, but a point counts from
the moment the pedal is enabled, and each of the ways out of WAIT_WELDING_DONE takes it back.

`TypeOK` needs `Counted`: that `welding_position` stays within the table is not seen from the assignments, which only
add and subtract one; it is because it equals a number of WELD entries before the index (`BeforeBound`).

`PedalsAtTarget` is the counterpart of `WeldsAtTarget`, with a `ReferenceInv` of its own. The manual program has no
monitor that raises the flag and looks at it less often, so more places are excused (`Warned` includes HOMING, INIT and
START); the position of a recovery is kept in the context over several states (`TargetOf`); and `goto_position` may report success
although the power failed while it read the positions back: then the counter is 0, which no position of the table
is (`Zeroed`, `AwayFromHome`), so the verification that follows fails. GRINDING clears the flag, hence the first conjunct of
`Tolerated`: a behaviour with grinding has no outage and no garbled answer (`GrindOf`). The lemmas about one command of the
driver are those of `TableProofs`, stated again over this module's variables.

### HandshakeProofs and RecoveryProofs

| Theorem | States |
|---|---|
| `HandshakeTyped`, `VerdictIsOwn`, `RepeatsOnlyUndecided` | `TypeOK`, `OwnVerdict`, `RepeatsUndecided` |
| `RecoveryTyped`, `SessionsEnd`, `CallImplemented` | `TypeOK`, `NoSessionLeft`, `CallSpec` |

`OwnVerdict` follows from what the machine shows (`LevelInv`: after the firing its level bits are nothing, or the
outcome of this very weld), what of it the program has read (`SeenInv`: it may be older
than the bits now, and is still right when acted upon), and where the head may be (`HeadInv`).
`NoSessionLeft` follows from `SessionInv`: a session is open only between `start_downtime` and the end
of the same call. `CallImplemented` maps the innermost call to the one call; nesting and
returning stutter.

### CalibrationProofs

`MeetsOwnChannel`, `StorageTyped`, `TrueMeansStored`, `LoadedWasStored` state `OwnChannel`, `TypeOK`,
`TrueIsStored` and `LoadedWasAsked`. `MaskInv` is the bus's: the shadow is right, or the multiplexer lost its
channels, or the last write of a mask is in doubt. `HeldInv` is the storage's: as long as no transfer strayed, a page
holds what a store was asked to put there or was torn, and the pages a call has read so far still hold what
it read - without the second half the comparison of the pages would prove nothing about the pages.

### ResultProofs

`ReportTyped`, `ReturnedIsTaken`, `ResultTakenOnce` state `TypeOK`, `NothingDropped`, `TakenOnce`. `ListInv` says what a call has
left to post: the rest of the file, then its own result (`Posted` counts what it has posted). `OldInv` counts how often an old
result was taken: at most once per fault, and once more if it is among the posted ones, or has left the file. It is inductive
because a call that fails adds a fault (`FailStep`) and the file is emptied only when everything is posted (`EmptiedStep`).

### ProgrammerProofs

`ProgrammerTyped`, `PassMeansProgrammed`, `OneWriterPerSocket` state `TypeOK`, `PassIsProgrammed`, `OneWriter`. A working worker is
the future of its socket (`FutureInv`), a result in the queue is the only one of a socket whose worker
has ended (`ResultInv`), a start in the queue is of a worker not begun (`StartInv`); so no second
worker begins beside the first. What a worker has compared stays in the flash (`FlashInv`) because
only a new board takes it away, and there is no new board while the button is disabled (`ButtonInv`).

### StationProofs

| Theorem | States |
|---|---|
| `StationTyped` | `Spec => []TypeOK` |
| `ReleasesForProgram` | `Spec => ReleasedForProgram` |
| `LocksWithoutUdi` | `Spec => []LockedWithoutUdi` |
| `WeldsWithProgram` | `Waits => (Spec => []WeldWithProgram)`, where `Waits` excludes the habits `early` and `skip` |
| `RecordsKept` | `Careful => (Spec => []RecordsInOrder)`, where `Careful` also excludes `overlap` and a failing database |
| `PassesWelded` | `Careful => (Spec => PassedIsWelded)` |

`TypeOK` needs `QueueInv` (no more commands in the queue than unfinished) for the count to stay a
number. `LockedWithoutUdi` is not inductive because the station writes the lock only when it
believes the machine unlocked: `LockInv` adds that it never believes a lock that is not there, that the machine is
locked from `SyncLock` until the weld is stored, and what the end of a sequence leaves; `PlaceInv` adds where there is no
state machine. `ReleasedForProgram` needs `ProgramSet`: where the lock is taken off the program is that of the position, skips
included (`ReleaseStep`, one case for each step that writes the coil). `WeldWithProgram` needs `ProgramInv`: the pedal is free
only in the two states after the program was set, or before the first loop while there is no battery.
The habit `skip` really breaks it: a skip changes the position while the pedal is free and the old
program is set.

`RecordsInOrder` says that what is stored is a prefix of what was made. `RecordInv` says what the rest is: nothing, or the
one weld the station is busy with (`PendingInv`: seen or not, read or not, its battery and position
are still the station's), and while a weld is being made there is none (`WeldInv`). That no scan is in the queue meanwhile
(`NoScan`) is where the operator's patience comes in. `PassedIsWelded` follows from `SequenceInv`: before position `n` is
welded the last `n` rows stored are OK welds of positions `0 .. n-1` of this battery.

## 5. Findings

`MCShutdown`: a scan taken while the state machine is in INIT is dropped without `task_done`
(SPS 1512-1513), so the join at shutdown (SPS 1718) never returns, although SPS 1717 says that it
waits for the process "to finish smoothly". The counterexample is a run of the code.

What follows is in the models, and outside the environment of the passing runs; no run is spent on
it. Where a configuration is named, widening its constant shows it.

*Automated table*
- NC 1741, 975: while the program waits for START it sends no command. A power cycle of the controller
  is not noticed (and START resets the flag): the counter restarts at 0 with the table elsewhere, the
  next move is relative to a stale cache, and the verification compares against the wrong counter
  (`Exposed` of `MCCycle` with `<<"idle_cut", "START">>`: `AdvanceAtTarget`).
- NC 2410: a recovery of the move to the last entry resumes past the table: IndexError.
- NC 2092-2097: a weld with neither ok nor reject is fired again on the same point.
- NC 2792: the first `home()` is not checked; a power cycle under it zeroes the counter and HOMING
  takes that for home (`Exposed` of `MCCycle` with `<<"cut", "HOMING">>`).
- NC 2566: after the return from the grind position the flag is not tested (the test is commented
  out), the retry clears it (`Exposed` of `MCGrinding` with `<<"cut", "GRINDING">>`).
- NC 2504: the result of the move to the grind position is dropped (`<<"error", "GRINDING">>`).
- NC 2185: ERROR_WELD drops the result of the unloading move as well. If it is refused the cache is not read back, and the
  stale cache survives to a later move to the grind position, which then goes elsewhere unseen (six faults in one
  behaviour: `<<"error", "ERROR_WELD">>` in `MCGrinding`, found by the proof).
- NC 1183: with unknown positions `goto_position` sends nothing and returns True
  (`<<"garbled", "PROCESS_COMMAND">>`, or `<<"garbled", "START">>`, whose button resets the flag).
- NC 2047, 1416-1425: a failed write of DO6 or DO7 is printed, and "Weld START disabled ... Safe to move" (2050-2051) is printed after
  it. The pedal then stays down while the table goes on to the next point, and if DO7 was off meanwhile it comes
  down when DO7 is switched on, before ready is asked; EMERGENCY_HANDLING may home with DO7 still on (fault `output`).
- NC 2015, 1907: FULL_AUTOMATION does not look at `emergency_event_triggered`; a trip released before
  the call leaves only that flag, and one that falls between its test and its reset leaves nothing.

*`command()`*
- It opens the downtime session only after its `stop()` has returned, so nested failures give one session after
  the other, and the first moments of an outage belong to none.
- An outage of about 40 minutes nests it to Python's recursion limit; RecursionError ends the program.
- NC 486-488: `new_cycle` sets `cycle_id` and `udi` outside the lock; `logger.close()` is never called.

*Manual table*
- MT 2202: a grind request is looked at before `_power_was_cut`, and GRINDING clears that flag: an outage and a
  grind request together enable the pedal at the wrong place, contrary to MT 943-946 (`Shifts` of
  `MCManual` with all troubles in one set: `PedalAtTarget`).
- MT 2374: a weld is known by a flip of the toggle bits alone; two welds between two looks are none,
  and the verdict read later is the second's (habit `twice`: `CycleSpec`).
- MT 2141: the pedal is enabled before the program number is written and read back (habit `early`).
- MT 3105: the first `home()` is unchecked; if it is refused, HOMING takes the table's place for home
  (`Exposed` of `MCManual` with `<<"error", "HOMING">>`: `PedalAtTarget`). Power cycles while the
  program waits at START or INIT are not noticed; a recovery of the last move ends in IndexError.
- MT 1011, 1023: an empty answer raises ValueError in `int('')`, which nobody catches: the program ends and leaves the
  pedal output as it was.

*Station*
- SPS 1553: skipping the last position sets PASSED from the command handler; the next loop makes STOP
  of it before the result is handled. The battery is never let go of, and every later scan is refused
  as "in the middle of a sequence".
- SPS 1517: "not in the middle of a sequence" is `sequence_pos == 0`, which also holds while the first
  position is being welded (`Habits` of `MCStation` with `"overlap"`: `RecordsInOrder` fails).
- SPS 1309: when all three tries fail `store_db` returns as after a success, and the battery is
  reported as passed with a row missing (`Faults` of `MCStation` with `"db"`).
- SPS 951-954: between the toggle bits, the result bits and the lock the pedal is free; a weld begun there is made under a machine
  that then looks locked (habit `early`: `RecordsInOrder` fails).
- SPS 1040: the lock at the start of SET_PROGRAM_ON_MACHINE is commented out, although SPS 1062-1063 says that it reads
  "while machine is locked". After a skip on an unlocked machine it changes the program with the pedal free.
- SPS 949: with no battery scanned, every SYNC_ON_TOGGLE_BIT opens the step lock until the end of the
  loop (habit `early`).

*Calibration storage and its bus*
- `I2CMuxedBus` ignores a False of `setChannel` and transfers on; an adapter that was exchanged leaves a
  shadow that is no longer true. `OwnChannel` and the storage's properties therefore except a mask in
  doubt and a transfer that strayed.
- The result of `write_page` is looked at by nobody (`calibration_storage.py:71`); the read-back decides.
- `store_inventory_number` of a number shorter than a page returns False although it was stored (the set `Short`); a
  blank leak value loads as NaN.

*Results*
- `dsp/interface.py:181`: `ast.literal_eval(response.content)` is given bytes, for which it raises, so a
  refused result is not appended to the list, contrary to line 183, and is dropped. The caller sees an exception;
  `NothingDropped` says nothing of a call that raised.
- Results that are in the file are posted by every call before its own. One of them that the MES never takes
  makes every later call raise, and those before it are taken again each time.
- A program that ends while it writes leaves no file, or one that cannot be read; and an MES that took a
  result and did not answer has a result whose call raised.

*Programmer*
- `bq_flex_flasher.py:341`: a word compare that differs, and a line that cannot be parsed, end the file with
  "pass" (`Plain` excepts such files; without it `PassIsProgrammed` fails).
- `pcba_programmer.py:248`: "always power off the PCBA" is skipped by an exception that is not an OSError.
- `pcba_programmer.py:27` imports `BQStudioFileFlexFlasher` from `rrc.chipsets.bq_flasher`, where it is not
  defined; the models take the class of `bq_flex_flasher.py`. "Count" is incremented twice (496, 500).
- The tries of `unseal` test a shadow of the operation status that may be stale; a False of
  `switch_pcba_power` is ignored; a worker that is killed leaves its socket disabled.

## 6. Limits

*Only model-checked.* `RecoveryEnds`, `CycleEnds`, `WeldStored`, `VerdictTaken`, `CommandReturns` and `ButtonBack`,
because liveness under fairness is beyond the prover. Everything else the runs check is proved too; the
inductive invariants were checked by TLC, each as an invariant of its run's instance, before they were proved.

*Simplified.*
- Inputs are read without error. `TableMachine` and `WeldHandshake` have the failed writes of DO6 and DO7, except the two before the
  main loop (NC 2770-2771), which are taken to succeed; in `ManualTable` the pedal output is written without failure.
- A garbled answer is one without a number (`GarbledReply`). An answer with a digit and neither OK nor ERR passes for a
  success (NC 1008-1009): a garbled acknowledgement then does no harm, a garbled position or error is taken at its word, which is
  not in the model.
- The level bits of the welding machine are taken to be cleared when a weld begins.
- Waiting for the program selection of the welding machine (NC 1800-1850) is part of `WeldPinged`; it
  touches no state of the model.
- `TableMachine` has one verdict per weld; a stepping contact that times out is taken for a weld that
  was not made. `WeldHandshake` has the late weld.
- The branch of GRINDING for a missing context is left out: `ControlInv` (`ContextOf`) shows that
  GRINDING always has one.
- Everything a human does is a button at a place; the scanner always delivers a battery.
- The station: `Create` (configuration, MES parameters, new device) is one step, as is setting a
  program together with the unlock that follows; the retry of a program the machine did not take is
  left out, and so is the dummy machine that replaces one that cannot be reached.
- In `StationSPS` both toggle bits flip together. A bit that flips alone is not seen by the code either
  (`WeldHandshake`).
- A page of an EEPROM is one content, a line of a flash file is its kind; checksums and byte orders are left out.
- Log entries are left out, except where building one can raise (`StickyLogged`).

*Not modelled.* The parts marked so in `PROJECT.json`, with the reason: the Modbus client, transports,
CAN and GPIO gateways, instruments, relays and sensors, scanners, printers and dialogs, the G-code
interpreter, configuration and manufacturing data; of the partly modelled parts the other five table
programs, the variants of the station control, `petalite_programmer.py` and `bq_flasher.py`, the stage
arithmetic on floats. The rest is for the greatest part
near-duplicates of the programs modelled here (seven table programs, three station controls), tables
of registers and commands, vendored code, windows and database queries; a second model of a
near-duplicate would say nothing that the first does not.

## 7. Plan

1. An abstract specification of the station (one record per weld, one result per battery) that
   `StationSPS` implements; the proof would map the steps by `RecordInv` and `SequenceInv`.
2. The driver alone, for any caller: what a `goto_position` that reports success says of the table.
3. `ModbusConnection`: reference count and retries with several users.
4. The other table programs where their walk and grinding differ, and `aws3_pm_sps_IPQC.py`.
5. `StageArithmetic`: rounding, clamping, distinctness of the table's positions at the tolerance,
   against a reference definition.
