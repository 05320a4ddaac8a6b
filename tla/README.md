# Verification of smart-grind-by-weight

TLA+ models, TLC runs and TLAPS proofs for the firmware of the grind-by-weight
scale: an ESP32-S3 that weighs ground coffee and switches the motor of a grinder.
Paths below are relative to the repository.

## 1. The system

| Part | State it keeps | Operations | Talks to |
|---|---|---|---|
| Grind controller, `src/controllers/grind_controller.cpp` | `phase`, mode and purge mode of the session, `pulse_attempts`, `last_session_result_`, handshake and flush flags, timeout clock | `start_grind`, `stop_grind`, `return_to_idle`, `continue_from_purge`, `start_additional_pulse` (core 1); `update()` every 20 ms (core 0) | motor, load cell, logger, two queues to core 1 |
| Weight and time strategies, `weight_grind_strategy.cpp`, `time_grind_strategy.cpp` | none of their own | one handler per phase of a grind | controller, motor, scale |
| Motor, `src/hardware/grinder.cpp` | `grinding`, `pulse_active`, `pulse_done` | `start`, `stop`, `start_pulse_rmt`, `is_pulse_complete`, transmit-done interrupt | RMT peripheral |
| Load cell, `src/hardware/WeightSensor.cpp`, `weight_sampling_task.cpp` | filter, `doTare`, `tareTimes`, `tareStatus`, offset, calibration | sampling (core 0), blocking tare (core 1), non-blocking tare (grind, auto-tune), settling queries | controller, auto-tune, UI |
| Session logger, `src/logging/grind_logging.cpp` | `logging_active`, current session, PSRAM buffers, files | start, end, discard a session; export | controller (core 0), UI and file I/O task (core 1) |
| File I/O task, `src/tasks/file_io_task.cpp` | its queue | drains `flash_op_queue` | logger |
| UI task, `src/ui/ui_manager.cpp`, `src/ui/controllers/grinding_controller.cpp` | screen, two one-shot 60 s timers, auto-action state | queued events, buttons, timers, auto-start and auto-return | controller |
| Auto-tune, `src/controllers/autotune_controller.cpp` | phase of the search, bounds, counters | start, cancel, update | motor, scale |
| RMT pulse timing, `src/hardware/rmt_pulse_timing.h` | none (pure) | split of a pulse into symbols | motor |
| Boot guard and history, `src/system/boot_*` | NVS counters | check on boot, mark healthy, roll back | OTA |
| OTA and delta update, `src/bluetooth/ota_handler.cpp`, `components/delta` | progress and apply flags, sizes, staged patch, other slot | start, chunk, end, abort, stall check, apply; suspends the hardware tasks | BLE manager, tasks, `loop()`, UI, boot guard |
| Wi-Fi and clock, `src/system/wifi_service.cpp`, `sync_schedule_logic.h` | state of the window, scheduled attempt, backoff, purpose | one pass per `loop()`: open, connect, set the clock, upload, close | grind controller and BLE (may a window be open), cloud sync |
| Cloud sync, `src/system/cloud_sync.cpp` | versions seen and synced, time of the last activity, phase of a run | `wants_window`, `step`, `abort_run` | session files, brew queue, server |
| Brew entry, `src/ui/controllers/brew_entry_controller.cpp`, `brew_prompt.cpp` | prompt in RAM and its copy in NVS | arm, show, advance, finish, leave, restore at boot | UI, logger, brew log |
| Brew log, `src/system/brew_log.cpp` | one file per answered shot, their count | queue, prune, read next, remove | brew entry, cloud sync |
| BLE manager and data export, menu, calibration, profiles, statistics, screens | settings | commands and forms | all |

What is hard here. Two cores run the controller with no lock: `update()` on
core 0, every button, timer and event handler on core 1. They meet in `phase`, in
the motor and in the logger, and in two queues that drop what does not fit. A
grind passes through a dozen phases, each of which can be left by its own
condition, by three failsafes at the end of the pass, and by the user. Motor
commands may be refused by the driver. Finished sessions are written by a third
task. An update over BLE involves five tasks without a lock, two of which suspend
and resume the control task, each with a flag of its own; a crash can come between
any two writes of the boot guard, and between any two of a shot log. A tare request is
three unlocked stores read by a task on the other core, made by three callers of
which two can walk away from it. The radio may be on only when nothing else draws
current, while the work for it arrives at any time. `PROJECT.json` lists each hazard with its line and the properties aimed at it.

What makes the parts correct: the motor runs only in a phase that runs it and
never after a grind is over; STOP is on the screen whenever it runs; a grind
always ends; results, files and the way a session ended agree; every finished
session is saved and no cancelled one. A tuning run ends and saves only what it has
proven; a pulse lasts exactly as long as asked; a crash loop ends in the other
image, and nothing else does; an update either switches the boot image or leaves the
device as it was, and never frozen. The zero of the scale is moved for the one who
asked, from fresh conversions, and not after he gave up. What the device believes
to be uploaded is on the server or was refused by it, and a grind never waits for the
radio. An answered shot is not lost between the prompt, the flash and the server, but
in the cases listed in section 3.

## 2. Modules

| Module | Models | Composed with |
|---|---|---|
| `GrindController` | the controller, both strategies, the motor, the UI task on the screens of a grind, both queues, the logger and the file I/O task | implements `GrindSession` |
| `GrindSession` | what a grind session promises: abstract specification | |
| `GrindControllerProofs` | proofs, the refinement among them | |
| `RmtPulse`, `RmtPulseProofs` | the split of a pulse into RMT symbols, and a transmitter that plays them | |
| `BootGuard`, `BootGuardProofs` | crash counter, rollback, healthy mark, two slots | |
| `AutoTune`, `AutoTuneProofs` | the tuning run with its grinder, driver, scale and screen | |
| `OtaUpdate`, `OtaUpdateProofs` | an update over BLE, its apply, the suspension of the hardware tasks, its screens | |
| `Tare`, `TareProofs` | the tare handshake, its sampling task and three callers | |
| `CloudSync`, `CloudSyncProofs` | Wi-Fi windows, sync runs, the files and records they send, the server | |
| `BrewEntry`, `BrewEntryProofs` | the shot log, its stored copy, the queue of answers, the uploader, resets | |

Actions keep the names of the code where it has one. Operators marked *Faulty
variant* or *A plausible bug* are no part of a specification: each stands beside a
definition it could replace, and `mutants` in `PROJECT.json` names the property
that fails when it does.

### GrindController

A pass of `update()` on core 0 is up to four steps, because other tasks can run
between them: the handler of the phase (`Run...`), the `switch_phase()` it asks
for (`TickSwitch`), the failsafes and the time limit (`TickCheck`), and the abort
they ask for (`TickAbort`); `pc0` says where the pass is. Core 1 is one UI task:
it drains `ui_event_queue` (`UiEvent`, `UiDrained`), then does at most one thing
(a button, a timer, an auto-action, or nothing) and starts over. `stop_grind()` is
two steps, `StopBegin` and `StopFinish`, the only core 1 handler whose middle
matters.

Two parameters say how much the tasks may get in each other's way.

- `Preemptive`: may a pass of core 0 fall into the middle of a core 1 handler and
  the other way round? Real on this hardware, but a matter of microseconds.
- `Prompt`: who is assumed to keep up. `"ui"`: the queue is drained between two
  passes; `"control"` and `"auto"`: a press or timer, or an auto-action, meets a
  controller that has queued the end of its session; `"fileio"`: a session starts
  after the last one is flushed. `{}` assumes nothing.

Abstracted: weights, flow and settling are choices of every pass, so each
threshold may fall either way; time is `age`, in units of which `TimeoutUnits`
make the 60 s limit; session logging is on; `BREW_ENTRY` counts as `READY`. Not
modelled: the log queue, the mechanical monitor, the numbers of the predictive
stop.

### GrindSession

A session is prepared, ground, perhaps asked about, finished or failed, topped up;
the motor turns only while it is ground or topped up. `ImplementsSession`
maps the phase that has been *decided* (the target of a pending `switch_phase()`)
to the stage. The refinement is checked by TLC in `grind_lossy`.

### RmtPulse

`required_symbol_count` and `symbol_durations` are translated from
`rmt_pulse_timing.h`. The transmitter's duration field wraps at its width and a
zero duration ends the transmission, so a wrong split would show as a wrong time.

### BootGuard

One boot is `CheckCounts`, and after a loop `RollbackClears`, `RollbackRecords`,
`RollbackSwitches` or `RollbackFails`, then the device runs until a reset,
`MarkHealthy` on the way. Between any two steps there may be a reset. An update erases
the other slot, fills it, completes it (`ImageCompletes`, `delta.c:493`) and only then
selects it (`UpdateSwitches`, `delta.c:191`), which may fail (`UpdateSwitchFails`) and
leaves a complete image that is not selected. The ghosts `streak`, `loop`, `reverted`
and `faulted` remember the crash resets in a row, those of this image since the other
slot holds a complete one, the images gone back to, and whether the guard's own
storage has failed or the guard itself has crashed. `CrashLoopEscapes` counts `loop`,
not `streak`: while there is no image to go back to, the guard gives up and starts
counting again, so an image that becomes complete later starts with no count.

### AutoTune

One action per sub-phase of priming, search and verification. Times are in 1/32 ms
so that every halving of the step is exact. A grinder has a response time (`lag`)
and grinds when the pulse is longer; `MaxNoise` answers of a run may be wrong. The
driver may refuse, the scale may not settle, a tare may not be served, an export may
take the screen in the middle of a run, the user may cancel anywhere.
Two assumptions state what the constants of `grind_control.h` have in common and
the search relies on: `LengthAssumption` (the longest pulse is a multiple of 10 ms,
so rounding stays within the bounds; a round has pulses) and `IterationAssumption`
(six halvings bring the range below the accuracy, and 20 iterations are allowed; the
code has 270 ms, 5 ms and 50). TLC evaluates both in `autotune`.

### OtaUpdate

Five tasks: the BLE host (`Connect`, `Disconnect`, `Start`, `Chunk`, `End`,
`Abort`), the bluetooth task inside `handle()` (`bt`: claim, flush, apply,
restart), `loop()`, the UI task, and the control task, of which only the motor and
its last event are kept. After a failed apply the status and the resumed tasks, the
update flag and the apply flag are stored one after the other (`CompleteFailed`,
`CloseUpdate`, `Unclaim`). `unchecked` is a history variable. The client sends no
chunk after END. `Preemptive = FALSE` says three things: no callback cuts
`complete_ota()` between its check (153) and its claim (165); an apply begins
later than one round of `loop()` (10 ms) after START; and a client does not abort
and start anew within the 20 ms before `handle()` has dropped a stale END.

### Tare

Every load and store of the handshake is a step: the three stores of
`tareNoDelay()` (`ArmStore`), the conversion that is added to the filter (`Sample`) and
the load of `doTare` after it (`LoadRequest`), the test, the read and the write of
`tareTimes++` (`CheckTimes`, `CountSample`), the compare-exchange (`Claim`), the offset
and the status. A conversion just before the request may therefore be counted for it. The grind control task runs on core 0 below the sampling task
(`config/system.h:46-51`), hence only between two passes of it; core 1 may
run at any point. Waiting may time out whenever the code allows it, which includes
every real timing of 20 ms rounds; a wait outlasts a pass that is under way.
Conversions may stop and return (`ScaleStalls`), the load may change (`PanChanges`).

The history variables say what a caller may rely on: `fresh` counts conversions
since the UI's request, `uiZeroed` and `grindZeroed` whether the zero has moved
since a request, `gaveUp` the zero when a blocking tare gave up. `clean` marks a UI
request made with none outstanding. It is needed: `stop_grind()` leaves `doTare` armed,
and a UI tare in the next 100 ms or so is then served by the older request, which may also swallow
its reset of `tareTimes` between the load and the store of `tareTimes++`;
`FreshZero` and `TuneOnItsOwnZero` are claimed for the other requests.

### CloudSync

An action is one branch of `WifiService::handle()`; a blocking HTTP request is two
steps, so that a grind may begin, or a file give way, meanwhile: the manifest is built
from the flash at `ManifestBegins` and answered later. Time is in units of the quiet
delay, and a version counter is kept as what the code compares: is it still the one
seen, synced, or snapshotted by the run. `Init` is any boot: with a session file
the server has or lacks and its brew record (`backlog`), which the manifest of the
next run offers. The server and the router may fail at any request, before or after
the server has acted on it. A file may be gone or unreadable when its turn comes.

Two answers are taken by the code for success although the server lacks a file, and
the history variable `waived` names the sessions concerned: a 422
(`SessionRefused`, `cloud_sync.cpp:393-399`), and a manifest answered 200 whose list
is cut short, missing or not parsed (`ManifestCut`, 335-347). `SyncedMeansStored` says that
nothing else is missing. A refused file stays on flash and is wanted again by every
manifest; `Clogged` says that such files take every upload of a run.

Left out: the free-space reserve of `cleanup_old_session_files()`, configuration
changes and the ageing of the clock. Allocation of a buffer that fails is a request
that fails at once.

### BrewEntry

Two tasks of core 1 work on the same files and the same count. The UI (priority 2) is
cut by the uploader in `loop()` (priority 1) only where it waits for a flash or NVS
operation; the uploader is cut by the UI between any load and store. So
`finish()` is `Finish`, then `queue_record()` one operation at a time: the eviction
(`PruneLists`, `PruneEvicts`, `PruneFails`), `Exists`, `Opens`, `WriteCloses`, or
`WriteFails` and `Discard`, and last `Clear`. The uploader is `UploadReads`,
`UploadAnswered`, `UploadRemoves`, and the decrement of the volatile count as
`UploadLoads` and `UploadStores`. An upload may run at any time after the boot, also under a
restored prompt: provisioning over BLE asks for a window at once. Of LittleFS the model takes
that a file being overwritten keeps its old contents until it is closed, that a new one
is there without its record meanwhile (`short`), and that an open file is not removed.

`begin_entry()` is `Stopped` and `Present`. A boot is `Boot` and `Restore`,
`NotRestored`, or `RestoreSkipped`: after a failed update or without a calibration
`main.cpp:137` neither restores nor clears the stored prompt, and a record that does
not load is not cleared either. A reset may fall between any two steps. A yield and a
time are the number of the answer that gave them.

The history variables say what a property is claimed for: the last answer for each
session (`given`); the answers that were evicted, not written, or written over a
file that the uploader had read and was going to remove (`lost`, set at the cause);
the prompt that a reset took down (`owed`); whether a boot has passed over the stored prompt
since (`put_off`); and whether the two tasks have collided on the count or on a file,
in this boot or an earlier one (`drift`). The `pending_` branch of a starting grind is
defensive in the code and dead in the model. NVS is taken to work, and so is the
directory listing.

## 3. Runs

| Run | Bounds | Distinct states | Question |
|---|---|---|---|
| `grind_lossy` | Prompt {}, 2 pulses, 1 session, UI queue 4, flash queue 1 | 331,376 | motor, STOP button, inductive invariant and refinement when nobody keeps up and events are dropped |
| `grind_timely` | all Prompt, 1 pulse, 2 sessions | 88,704 | files and endings agree; grinds end, screens are left, sessions are saved |
| `rmt_pulse` | 2-bit phases, pulses of 0 to 45 | 420 | exact length, no early end |
| `boot_guard` | Threshold 3 (the code's), streaks to 5 | 10,990 | only loops roll back, every loop with an image to go back to does, the device always has an image |
| `autotune` | the firmware's constants, 12 lags, 1 wrong answer | 350,869 | the search ends at the lag, saves what it has proven, leaves no pulse |
| `ota` | 2 chunks, 2 attempts per boot | 123,088 | an apply is not disturbed, the fallback image is not wasted, nothing stays frozen |
| `tare` | 2 conversions, 2 loads | 174,744 | nobody measures with a zero that was not moved for him |
| `cloud_sync` | quiet delay 1, backoff to 2, 2 files, 1 upload a run, 3 sessions, 2 queued records | 237,069 | synced means stored or refused, a grind is yielded to, in the end all is sent |
| `brew_entry` | 2 files, 3 grinds, 4 answers, 2 resets | 2,109,912 | no answer and no prompt is lost or comes back late, and the count is exact, but where the two tasks collide or a boot shows another screen |

Why the bounds are enough. Queues of 4 and 1 overflow in a few passes, as the
code's (10 and 5) do when a task is slow; every queue property is about what is dropped, not how
much. The second pulse is the first that repeats the decision loop and the last
that the limit allows; the second session is the first that meets leftovers of
another. A phase of 3 gives the split a remainder, an even and an odd number of
halves, a single half and the capacity. `autotune` needs no smaller constants than
the code's: its lags are the bounds, their neighbours and points between the grid.
Two chunks tell a partial transfer from a complete one; two attempts let what one
leaves behind meet the next. Two conversions tell a request that is counted from one that is ready to be claimed, and two
loads a zero that was moved from one that was not; callers may follow each other
without a bound. Three sessions over two files make the oldest give way, and one
upload a run makes every backlog need a second run, and one refused file a cap full of
them. Two brew files are the smallest queue the proof allows (the code's is 50), three
grinds fill it and evict, a fourth answer re-answers a restored prompt, and two resets
hit an answer and the boot after it. Four answers and three resets (5,523,702 states,
4 minutes) showed nothing new.

Fairness. FreeRTOS runs each task on its period, so a pass of core 0, the file I/O
task and the clock get weak fairness, and so do the tasks of an update. Core 1
steps of the grind get strong fairness: only a pass of core 0 disables them, for
microseconds of every 20 ms, and the UI task empties its queue faster than events
arrive. Nothing is assumed of the user, the load cell, the transmit-done interrupt,
the BLE client or the grind during an update; the failsafes and the stall check
are what the liveness properties rest on. `autotune` assumes that `update()` is
called, that the interrupt of a running pulse comes and that an export ends. It assumes
nothing of the tare, for which `update_tare()` has no timeout, and `TuneEnds` names the two
ways to hang that the code leaves open: a run that stays in `TARING`, and a run whose
screen was taken. `ota` assumes that a
link drops once its radio was switched off, as `disable()` asks for. `tare` gives the
tasks fairness and asks for conversions only as the premise of `TuneTareServed`.
`cloud_sync` assumes that `loop()` runs, time passes and a grind ends, and that a
router, time server and store that are asked again and again answer at last (strong
fairness of `OpenWindow`, `Connected`, `ClockSynced`, `ManifestAnswered`,
`SessionUploaded` or `SessionRefused`, and `BrewAnswered`): without that nothing could be sent. `brew_entry` claims safety only.

### Disagreements the runs show

| Run | What happens |
|---|---|
| `stop_race` | STOP, and before `stop_grind()` has left the phase a pass of core 0 starts the motor again: IDLE with the motor on |
| `early_return` | auto-return in the UI iteration of the completion event, before the pass that queues the end of the session: a completed timed grind is never saved |
| `ota_motor` | an update during a grind suspends the control task and covers STOP while the motor runs |

### Noted without a run

- `boot_guard.cpp:83`: the record of a rollback is stored before a switch that may
  fail (the other slot holds an interrupted update, whose header reads as an image). The device
  goes on with the same image and reports at every later boot a rollback that did
  not happen; `boot_guard.h:16` calls it "the last crash rollback". What holds, and
  is proved, is the other direction, `RollbackReported`.
- `ota_data_export_controller.cpp:151`: an export takes the screen from a tuning run
  without `cancel()`; `update()` is reached only from AUTOTUNING, so the run never
  ends and every later `start()` is refused until a reboot (`TuneEnds` leaves out a
  screen that does not come back). The comment at `autotune_controller.cpp:112-113` names that very state.
- `delta.c:484`: a damaged patch without a checksum that decodes to an empty image
  returns 0, which `ota_handler.cpp:352` takes for success: the client is told so, and the
  old image boots. `ota_handler.h:110` says "true if the patch applied and the boot
  partition was switched".
- A session that is not written (logging off) still gets an id and a prompt
  (`grind_logging.cpp:84-99`, against the comment at `brew_entry_controller.cpp:82-83`); its
  brew record stays unknown to the server, and a window opens every 30 minutes for
  good, where `sync_schedule_logic.h:12-13` says "Nothing is on a periodic timer." The same
  holds for a session lost from flash before it was sent. `Settles` leaves
  out exactly this (`Orphaned`).
- `finish()` calls `request_sync_now()` (`brew_entry_controller.cpp:265`), which jumps
  both the quiet delay and the backoff; `CLOUD_SYNC.md:69` and `98-99`, and the comment at
  `cloud_sync.cpp:186-188`, say a record waits. `QuietBeforeCloud` speaks of the other windows.
- A window that falls due during a grind which is then cancelled opens at once, against the
  reasoning of `sync_schedule_logic.h:93-96`; so may one during auto-tune's pulses, which
  `window_allowed()` does not ask about.
- One request of up to 20 s overlaps a grind that starts within it; `CLOUD_SYNC.md:105`
  says requests "never overlap grinds".
- Disabling or forgetting the store while a window connects still uploads.
  `reload_config()` clears `config_dirty` last (`wifi_service.cpp:69`, `cloud_sync.cpp:111`),
  so a BLE write in the middle of it takes effect only after the next.
- A session that the server refuses (422) counts as uploaded, so the run succeeds and the
  version counts as synced (`cloud_sync.cpp:393-399`). The file stays on flash and every later
  manifest asks for it again, inside the cap of a run: as many refused files
  as the cap starve every newer session, where the comment (394-395) says "Skip it rather
  than wedging the whole store". `Settles` leaves this out as `Clogged`.
- A manifest answered 200 whose `want` is missing, cut or not parsed counts for the
  sessions it names; the run succeeds (`cloud_sync.cpp:335-347`) and nobody asks again until
  the next grind or record.
- An update that completes its image and then fails to select it (`delta.c:191-197`) leaves
  a fallback that the guard's count knows nothing of: after a give-up the count starts from
  nothing, so up to two more crash resets than the threshold can pass.
- A failed overwrite of a brew file removes it without counting it
  (`brew_log.cpp:80-83`), and `finish()` ignores that `queue_record()` failed.
- Other ways for `pending_count()` to be wrong until the next boot: the uploader's
  decrement (`brew_log.cpp:126`) cut by a decrement or increment of the UI; a file removed
  between `exists()` and `open()` (72-73), whose successor is not counted; a short file
  removed by `read_next()` (113-116) before it was counted; an eviction whose removal
  fails, after which the queue is one over its limit. `CountsFiles` is claimed until then.
- An answer is lost when a restored prompt is answered again while the uploader waits for
  the answer to the older one (`brew_log.cpp:72` says "Re-entering the same shot overwrites"):
  `cloud_sync.cpp:499` then removes the newer. The same happens to a record completed after
  `read_next()` has read its file short.
- A boot into another screen (`main.cpp:137`) leaves the stored prompt in NVS. It survives
  later grinds that end without a prompt, and a later crash brings back the prompt of an
  older grind, against `brew_prompt.h:45` ("never resurrecting a stale prompt").
  The stale expected version noted below makes such a boot reachable.
- `WeightSensor.cpp:258-259` says that a caller who loses the exchange finds the tare
  "already applied"; it is claimed, and the offset may follow a moment later.
- The error screen of a timeout leaves by itself after 60 s
  (`grinding_controller.cpp:721`); `DOC.md:627` speaks of an acknowledgment
  requirement, and `DOC.md:574` and `627` of 30 seconds where `GRIND_TIMEOUT_SEC` is 60.
- With `Preemptive = TRUE` a disconnect between the check and the claim of
  `complete_ota()` zeroes both sizes and resumes the tasks: the apply runs with the
  tasks awake (`FrozenDuringApply` fails), and if no checksum was sent it finds
  0 of 0 bytes, applies nothing and reports success (`WholePatchSwitches` fails).
- `ota_handler.cpp:193` says that the tasks stay suspended until the restart;
  `loop()` resumes them in the 300 ms before it (`main.cpp:220`).
- `complete_ota()` disables the touch driver, and nothing enables it again: after a
  failed apply the OK of the failure screen cannot be pressed.
- The task watchdog stays at 1800 s after an aborted update.
- The expected version of an aborted web update stays in NVS and is what a later
  update by the Python tool, which sends a build number only, is checked against.
- `TROUBLESHOOTING.md:232`: a failed auto-tune "reverts to safe 50ms default"; the
  code keeps the previous latency. The same page speaks of a priming pulse of 500 ms,
  the code uses 1000 ms.
- `autotune_controller.cpp:396` says "increase by 10ms"; the step is 5 ms (407).
- A grinder that answers only above 300 ms repeats the longest pulse 50 times and
  fails with "Max iterations reached"; "No successful pulse found" is unreachable.

## 4. Proofs

All proofs hold for every value of the constants that the modules' assumptions allow.
The column *Assumes* has what a theorem asks beyond them. Every invariant that is
proved inductive was first checked by TLC as an invariant of an instance.

| Theorem | States | Assumes | Argument |
|---|---|---|---|
| `TypeCorrect` | type correctness of the grind | | inductive as it stands |
| `Invariance`, `MotorIsSafe`, `IdleMotorIsOff`, `StopIsAvailable` (grind) | `Inv`, `MotorSafe`, `IdleMotorOff`, `StopAvailable` | `~Preemptive` | `MotorSafe` is not inductive: between a handler and its switch the motor already fits the next phase. `Inv` speaks of the decided phase (`MotorFits`), and follows the INITIALIZING handshake from the queued event to the shown screen and the ready flag (`ReadyInv`, `InitEventInv`, `LiveInv`), whatever the queue drops |
| `Refinement` | `ImplementsSession` | `~Preemptive` | step by step: an action of the controller moves the pair of decided stage and drive as one action of `GrindSession` does, or not at all (`SessionMove`). Seen by phase alone the motor changes before the stage; the decided phase (`DecidedPhase`) makes them change together, and `Inv` rules out the rest |
| `RecordInvariance`, `FilesAreTrue` | `RecordInv`, `SavedOnlyWhenFinished` | `~Preemptive`; the control task, the auto-actions and the file I/O task in `Prompt` | the result is fixed once an end is decided (`PendInv`), the logger has a session open exactly while the phase has one (`LogInv`), and a flush request names a session that ended (`FlushInv`). Nothing is assumed of the UI task or the queue sizes |
| `NoGrindIsLost` | `CompletedGrindRecorded` | the same, the UI task in `Prompt`, `UiQueueSize >= 3` | STOP discards the open session, so a finished grind must not meet a STOP button: the queue has room for what the pass may still send (`RoomInv`), once the queue is drained no STOP is left on the screen (`ScreenInv`), and what was left had asked for its flush (`WrittenInv`) |
| `PulseInvariance`, `PulseIsExact`, `PulseEndsAtMarker` | `PulseInv`, `ExactPulse`, `EndsAtMarker` | | the time on so far equals what the halves played add up to, for any width of the field |
| `Invariance`, `RunTakesItsPulse`, `SearchIsAccurate`, `SteadyGrinderSucceeds`, `SavedLatencyIsProven` (tuning) | `NoStrayPulse`, `SearchFindsLag`, `SteadyGrinderIsTuned`, `SavedIsProven` | | `IInv`: the motor turns only in the sub-phase that waits for it (`FlowInv`); the next pulse is at most a step away from the shortest that works and from the response time (`SearchInv`, `LagInv`), and a step halves; a step takes at most three iterations before the search turns round (`SteadyInv`), so 20 are enough; the evidence of a round is what was counted for its candidate (`VerifyInv`) |
| `GuardInvariance`, `RollbackNeedsLoop`, `LoopEscapes`, `RollbackIsReported` | `GuardInv`, `ThreeInARow`, `CrashLoopEscapes`, `RollbackReported` | | the stored count is covered by real crash resets (`CountBacked`) and misses none of the image's since it has a fallback (`CountComplete`), the boot slot always holds an image (`BootsImage`), and a switch follows its record (`ReportInv`) |
| `OtaInvariance`, `ApplyIsFrozen`, `FallbackIsKept`, `WholePatchIsSwitched` | `OtaInv` and the three properties | `~Preemptive` | an apply implies an update in progress that `loop()` has seen, closed by END: so no handler may end it, extend it, or wake the tasks |
| `TareInvariance`, `TareTypes`, `TimeoutMovesNothing`, `ZeroIsFresh`, `TuneHasItsZero`, `GrindHasItsZero` | `TareInv`, `TypeOK` and the four properties | | `FreshZero` needs the count to lag behind the conversions at every step of the sampling pass (`CleanInv`); the others need a claim to be visible to whoever exchanges (`ClaimInv`), and one caller at a time (`CallersInv`) |
| `SyncInvariance`, `SyncedIsStored`, `RunYields`, `QuietIsKept` | `SyncInv`, `SyncedMeansStored`, `YieldsToGrind`, `QuietBeforeCloud` | | while the manifest is out, it lists every file of a snapshot that is current; afterwards what the server lacks and has not refused is in `want`, and sent plus wanted do not exceed the count (`RunInv`, with the oldest wanted file picked by well-founded minimum); the delay never runs ahead of the last activity, or that activity is still to be seen (`DelayInv`) |
| `BrewInvariance`, `BrewTypes`, `AnswerIsKept`, `PromptIsRescued`, `PromptIsOfLastGrind`, `CountIsExact` | `BrewInv`, `TypeOK` and the four properties | queue of 2 or more | the prompt has one home, or boots have passed over it (`PromptInv`, `OwedInv`); what the uploader has read is still in the file, or the answer is marked lost, and a queued answer is no older than a sent one (`AnswerInv`); a removal and a new file that are not counted yet explain the only difference of the count until it drifts (`CountInv`) |

Why the hypotheses of the grind are there. Without `~Preemptive` the run
`stop_race` shows the motor left on by STOP. STOP is not the only handler to blame:
with a CONTINUE between the motor stop of a tripped failsafe (`TickCheck`) and the
change to TIMEOUT that follows it (`TickAbort`), the motor runs in TIMEOUT. Without the
auto-actions in `Prompt` the run `early_return` shows a session that is never saved. With a UI
queue of 2, `CompletedGrindRecorded` fails even with every task prompt: a pass can send three
events, and the one that is dropped is the one that closes the grind. The code's
`UI_EVENT_QUEUE_SIZE` is 10 (`grind_controller.cpp:15`).

`SearchIsAccurate` and `SteadyGrinderSucceeds` speak, as their properties do, of runs without a
wrong answer (`noise = 0`); the other three hold for any number of them.

Every safety property of a passing run is a theorem. Model-checked only: the
liveness properties `GrindTerminates`, `UiReturns`, `EventuallySaved`, `TuneEnds`,
`TasksComeBack`, `ProgressScreenLeft`, `TuneTareServed` and `Settles` (fairness and
ENABLED are beyond the prover).

## 5. Not modelled, and the plan

Not modelled: layout, fonts and display drivers; the vendored patch decoder; the
tools on the host and the web server; the settings screens; counters and statistics; the
filter of the load cell; BLE framing and the data stream; file contents.
`components` in `PROJECT.json` gives each with its reason. Of the repository's
134,000 lines of implementation some 98,000 are generated font tables in
`src/font/`, and 2,600 the vendored decoder; the models stand for the control of the
rest, not for its drawing and formatting.

Next, in this order:

1. `GrindTimeout`: `check_timeout()` with its pause offset on a clock that wraps, and
   `start_additional_pulse()` resetting the clock from the other core.
2. The rest of an update: the expected version across restarts, the staging buffer;
   boot history.
3. Data export over BLE, and with it the file rotation and its free-space reserve.
4. Proofs: those of the modules above, as they are written. What has no theorem today is liveness.
