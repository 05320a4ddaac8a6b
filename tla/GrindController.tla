--------------------------- MODULE GrindController ---------------------------
(***************************************************************************)
(* The grind controller of the firmware (controllers/grind_controller.cpp), *)
(* with its weight and time strategies, the motor it drives, the session   *)
(* logger it opens and closes, the two queues that carry its events and    *)
(* flash requests from core 0 to core 1, and the part of the UI that calls *)
(* back into it.                                                           *)
(*                                                                         *)
(* Core 0 runs update() every 20 ms.  One pass of it is several steps      *)
(* here: the handler of the current phase (with its motor command), the    *)
(* switch_phase() it ends in, and the failsafes that close the pass.       *)
(* Core 1 runs the UI task (queued events, buttons, LVGL timers) and the   *)
(* file I/O task.  No lock orders the two cores.                           *)
(*                                                                         *)
(* Weights, flow rates and durations are data the properties do not tell   *)
(* apart: every comparison with them is a nondeterministic choice.  Only   *)
(* the 60 s limit of a grind is counted, in coarse units of time.          *)
(***************************************************************************)
EXTENDS Naturals, Sequences, FiniteSets

CONSTANTS
    MaxPulses,       \* GRIND_MAX_PULSE_ATTEMPTS
    TimeoutUnits,    \* GRIND_TIMEOUT_SEC in coarse units of time
    UiQueueSize,     \* UI_EVENT_QUEUE_SIZE
    FlashQueueSize,  \* FLASH_OP_QUEUE_SIZE
    MaxSessions,     \* bound: sessions the model lets the user start
    Preemptive,      \* may a core act while the other is inside a handler?
    Prompt           \* who is assumed to keep up: see UiActs, EndAsked, StartGrind

ASSUME ConstantsAssumption ==
    /\ MaxPulses \in Nat \ {0}
    /\ TimeoutUnits \in Nat \ {0}
    /\ UiQueueSize \in Nat \ {0}
    /\ FlashQueueSize \in Nat \ {0}
    /\ MaxSessions \in Nat \ {0}
    /\ Preemptive \in BOOLEAN
    /\ Prompt \subseteq {"ui", "control", "auto", "fileio"}

VARIABLES
    phase,       \* GrindController::phase
    mode,        \* mode of the session
    purge_mode,  \* grinder_purge_mode_for_session
    active_strategy,           \* active_strategy != nullptr
    pulse_attempts,
    last_session_result,
    ui_ready_for_setup,
    session_end_flash_queued,
    grinder_purged_since_boot,
    age,         \* units of active time since start_time (check_timeout)
    motor,       \* "off", "run" (continuous), "pulse", "spent" (pulse over, not polled)
    tare,        \* doTare: a tare is armed and not yet applied
    pc0,         \* where core 0 is inside update()
    pend,        \* the phase a pending switch_phase() call goes to
    pc1,         \* where the UI task is: "drain", "act", or "stopping" in stop_grind()
    logging_active,
    session_id,  \* current_session->session_id, 0 before the first
    flash_op_queue,
    io,          \* what the file I/O task is flushing: <<>> or <<request>>
    saved,       \* session files on flash, with what is known of each
    ui,          \* UIState, the states a grind goes through
    ui_event_queue,
    grind_complete_timer,
    grind_timeout_timer,
    fate         \* history: how each session ended, for the properties

ctlVars  == <<mode, purge_mode, active_strategy, pulse_attempts,
              ui_ready_for_setup, session_end_flash_queued, age>>
swVars   == <<phase, last_session_result, grinder_purged_since_boot,
              ui_event_queue>>
logVars  == <<logging_active, session_id>>
ioVars   == <<flash_op_queue, io, saved>>
uiVars   == <<ui, grind_complete_timer, grind_timeout_timer>>
pcVars   == <<pc0, pend, pc1>>
vars     == <<ctlVars, swVars, logVars, ioVars, uiVars, pcVars, motor, tare, fate>>

-----------------------------------------------------------------------------
(* Types *)

Setup      == {"INITIALIZING", "SETUP", "TARING", "TARE_CONFIRM"}
Grinding   == {"PRIME", "PRIME_SETTLING", "PREDICTIVE", "PULSE_DECISION",
               "PULSE_EXECUTE", "PULSE_SETTLING", "FINAL_SETTLING", "TIME_GRINDING"}
Phases     == Setup \cup Grinding \cup
              {"IDLE", "PURGE_CONFIRM", "TIME_ADDITIONAL_PULSE", "COMPLETED", "TIMEOUT"}

Results    == {"UNKNOWN", "SUCCESS", "OVERSHOOT", "MAX_PULSES", "TIMEOUT", "ERROR"}
UiStates   == {"READY", "GRINDING", "PURGE_CONFIRM", "GRIND_COMPLETE", "GRIND_TIMEOUT"}
Events     == {"INITIALIZING", "PHASE_CHANGED", "PURGE_CONFIRM", "PULSE",
               "COMPLETED", "TIMEOUT", "STOPPED", "PROGRESS_UPDATED"}
Fates      == {"none", "running", "completed", "timedout", "cancelled"}
SessionIds == 0 .. MaxSessions
ResultStrings == {"COMPLETE", "OVERSHOOT", "MAX PULSES", "TIMEOUT"}
\* A request carries no session in the code; here it remembers whose it is.
Requests   == [session : SessionIds, result : ResultStrings]
\* A file: the id it was written under, the session the request was for, and
\* how the session written had ended by then.
Files      == [id : SessionIds, session : SessionIds, result : ResultStrings, fate : Fates]

CtlTypes ==
    /\ mode \in {"WEIGHT", "TIME"}
    /\ purge_mode \in {"PRIME", "PURGE"}
    /\ active_strategy \in BOOLEAN
    /\ pulse_attempts \in 0 .. MaxPulses
    /\ ui_ready_for_setup \in BOOLEAN
    /\ session_end_flash_queued \in BOOLEAN
    /\ age \in 0 .. TimeoutUnits

SwTypes ==
    /\ phase \in Phases
    /\ last_session_result \in Results
    /\ grinder_purged_since_boot \in BOOLEAN
    /\ ui_event_queue \in Seq(Events)

LogTypes == logging_active \in BOOLEAN /\ session_id \in SessionIds

IoTypes == /\ flash_op_queue \in Seq(Requests)
           /\ io \in Seq(Requests)
           /\ saved \in SUBSET Files

UiTypes == /\ ui \in UiStates
           /\ grind_complete_timer \in BOOLEAN
           /\ grind_timeout_timer \in BOOLEAN

PcTypes == /\ pc0 \in {"wait", "switch", "check", "abort"}
           /\ pend \in Phases
           /\ pc1 \in {"drain", "act", "stopping"}

MotorTypes == motor \in {"off", "run", "pulse", "spent"} /\ tare \in BOOLEAN

TypeOK == /\ CtlTypes /\ SwTypes /\ LogTypes /\ IoTypes /\ UiTypes /\ PcTypes
          /\ MotorTypes
          /\ fate \in [SessionIds -> Fates]

-----------------------------------------------------------------------------
(* Queues: a send with a zero wait is dropped when the queue is full. *)

EmitUiEvent(e) == IF Len(ui_event_queue) < UiQueueSize
                  THEN Append(ui_event_queue, e)
                  ELSE ui_event_queue

\* Faulty variant: the last slot of the queue is never used.
QueueFlashOffByOne(r) == IF Len(flash_op_queue) + 1 < FlashQueueSize
                         THEN Append(flash_op_queue, r)
                         ELSE flash_op_queue

QueueFlashOperation(r) == IF Len(flash_op_queue) < FlashQueueSize
                          THEN Append(flash_op_queue, r)
                          ELSE flash_op_queue

(* switch_phase: the event announces the new phase, and entering COMPLETED  *)
(* or TIMEOUT settles the result of the session.                           *)

EventOf(p) ==
    IF p \in {"INITIALIZING", "PURGE_CONFIRM", "COMPLETED", "TIMEOUT"} THEN p
    ELSE IF p = "IDLE" THEN "STOPPED"
    ELSE IF p = "TIME_ADDITIONAL_PULSE" THEN "PULSE" ELSE "PHASE_CHANGED"

CompletionResults ==
    IF mode = "TIME" THEN {"SUCCESS"}
    ELSE {"OVERSHOOT", "SUCCESS"} \cup
         (IF pulse_attempts >= MaxPulses THEN {"MAX_PULSES"} ELSE {})

ResultsOn(new, result) ==
    IF new = "COMPLETED" THEN CompletionResults
    ELSE IF new = "TIMEOUT" /\ result = "UNKNOWN" THEN {"TIMEOUT"} ELSE {result}

\* History only: the session that runs ends when its phase does.
FateAfter(new) ==
    IF fate[session_id] = "running" /\ new \in {"COMPLETED", "TIMEOUT"}
    THEN [fate EXCEPT ![session_id] = IF new = "COMPLETED" THEN "completed" ELSE "timedout"]
    ELSE fate

SwitchPhase(new, result) ==
    IF new = phase
    THEN /\ last_session_result' = result
         /\ UNCHANGED <<phase, grinder_purged_since_boot, ui_event_queue, fate>>
    ELSE /\ phase' = new
         /\ last_session_result' \in ResultsOn(new, result)
         /\ grinder_purged_since_boot' = (grinder_purged_since_boot \/ new = "COMPLETED")
         /\ ui_event_queue' = EmitUiEvent(EventOf(new))
         /\ fate' = FateAfter(new)

-----------------------------------------------------------------------------
(* The motor (hardware/grinder.cpp).  start() gives no verdict: when the    *)
(* RMT driver refuses the transmission the motor silently stays as it was. *)

MotorOn      == motor # "off"       \* is_grinding()
AfterStart   == {motor, "run"}

\* is_pulse_complete(): true with no pulse in flight; a finished one is retired.
PulseComplete   == motor \in {"off", "run", "spent"}
AfterPulsePoll  == IF motor = "spent" THEN "off" ELSE motor

\* The RMT transmit-done interrupt.
PulseDoneIsr ==
    /\ motor = "pulse"
    /\ motor' = "spent"
    /\ UNCHANGED <<ctlVars, swVars, logVars, ioVars, uiVars, pcVars, tare, fate>>

\* The sampling task applies an armed tare.
ApplyTare ==
    /\ tare
    /\ tare' = FALSE
    /\ UNCHANGED <<ctlVars, swVars, logVars, ioVars, uiVars, pcVars, motor, fate>>

\* A unit of time passes; time spent in PURGE_CONFIRM is taken off again.
Elapse ==
    /\ phase \notin {"IDLE", "PURGE_CONFIRM", "COMPLETED", "TIMEOUT"}
    /\ age < TimeoutUnits
    /\ age' = age + 1
    /\ UNCHANGED <<mode, purge_mode, active_strategy, pulse_attempts,
                   ui_ready_for_setup, session_end_flash_queued>>
    /\ UNCHANGED <<swVars, logVars, ioVars, uiVars, pcVars, motor, tare, fate>>

-----------------------------------------------------------------------------
(* Core 0: one pass of update().                                           *)
(* With Preemptive FALSE a handler of one core is never cut by the other;  *)
(* with "ui" in Prompt the UI task has drained its queue before a pass.    *)

Core0Free == Preemptive \/ pc1 # "stopping"
Core1Free == Preemptive \/ pc0 = "wait"

Tick(p) ==
    /\ pc0 = "wait"
    /\ Core0Free
    /\ "ui" \in Prompt => ui_event_queue = <<>>
    /\ phase = p

Proceed(new) == pc0' = "switch" /\ pend' = new /\ UNCHANGED pc1
Hold         == pc0' = "check" /\ UNCHANGED <<pend, pc1>>

\* What no handler touches before its switch_phase().
HandlerFrame == UNCHANGED <<ctlVars, phase, grinder_purged_since_boot, ui_event_queue,
                            ioVars, uiVars>>
MotorHandler == HandlerFrame /\ UNCHANGED <<last_session_result, logVars, tare, fate>>

\* update() returns at once when no grind is active.
RunIdle ==
    /\ Tick("IDLE")
    /\ UNCHANGED vars

\* control_loop_paused_: the pass only reports progress, no failsafe runs.
RunPaused ==
    /\ Tick("PURGE_CONFIRM")
    /\ ui_event_queue' = EmitUiEvent("PROGRESS_UPDATED")
    /\ UNCHANGED <<phase, last_session_result, grinder_purged_since_boot>>
    /\ UNCHANGED <<ctlVars, logVars, ioVars, uiVars, pcVars, motor, tare, fate>>

\* Faulty variant: setup does not wait for the screen.
RunInitializingEager ==
    /\ Tick("INITIALIZING")
    /\ Proceed("SETUP")
    /\ motor' = motor
    /\ MotorHandler

RunInitializing ==
    /\ Tick("INITIALIZING")
    /\ IF ui_ready_for_setup THEN Proceed("SETUP") ELSE Hold
    /\ motor' = motor
    /\ MotorHandler

\* start_grind_session(): a new id, and the previous session's buffers are gone.
RunSetup ==
    /\ Tick("SETUP")
    /\ session_id < MaxSessions
    /\ session_id' = session_id + 1
    /\ logging_active' = TRUE
    /\ fate' = [fate EXCEPT ![session_id + 1] = "running"]
    /\ Proceed("TARING")
    /\ UNCHANGED <<motor, tare, last_session_result>>
    /\ HandlerFrame

RunTaring ==
    /\ Tick("TARING")
    /\ tare' = TRUE
    /\ Proceed("TARE_CONFIRM")
    /\ UNCHANGED <<motor, last_session_result, logVars, fate>>
    /\ HandlerFrame

\* A tare in progress or an unsettled scale holds the phase.
RunTareConfirm ==
    /\ Tick("TARE_CONFIRM")
    /\ \/ motor' = motor /\ Hold
       \/ /\ ~tare
          /\ motor' \in (IF MotorOn THEN {motor} ELSE AfterStart)
          /\ Proceed(IF mode = "TIME" THEN "TIME_GRINDING" ELSE "PRIME")
    /\ MotorHandler

\* Enough grounds, or 5 s: the motor, started here if it is off, stops again.
RunPrime ==
    /\ Tick("PRIME")
    /\ \/ /\ motor' \in (IF MotorOn THEN {motor} ELSE AfterStart)
          /\ Hold
       \/ motor' = "off" /\ Proceed("PRIME_SETTLING")
    /\ MotorHandler

\* Settled, or 10 s: stale grounds in purge mode wait for the user.
RunPrimeSettling ==
    /\ Tick("PRIME_SETTLING")
    /\ \/ motor' = motor /\ Hold
       \/ /\ purge_mode = "PURGE"
          /\ motor' = motor
          /\ Proceed("PURGE_CONFIRM")
       \/ /\ purge_mode = "PRIME" \/ grinder_purged_since_boot
          /\ motor' \in AfterStart
          /\ Proceed("PREDICTIVE")
    /\ MotorHandler

\* The strategies act only for their own mode and while one is installed.
Weighing == mode = "WEIGHT" /\ active_strategy
Timing   == mode = "TIME" /\ active_strategy

\* The projected weight reaches the target.
RunPredictive ==
    /\ Tick("PREDICTIVE")
    /\ \/ motor' = motor /\ Hold
       \/ Weighing /\ motor' = "off" /\ Proceed("PULSE_SETTLING")
    /\ MotorHandler

RunPulseSettling ==
    /\ Tick("PULSE_SETTLING")
    /\ motor' = motor
    /\ Hold \/ (Weighing /\ Proceed("PULSE_DECISION"))
    /\ MotorHandler

\* Faulty variant: the attempts are not limited.
RunPulseDecisionUnlimited ==
    /\ Tick("PULSE_DECISION")
    /\ \/ motor' = motor /\ Hold
       \/ Weighing /\ motor' = "pulse" /\ Proceed("PULSE_EXECUTE")
    /\ MotorHandler

\* Close enough or out of attempts: settle.  Else pulse, unless it is refused.
RunPulseDecision ==
    /\ Tick("PULSE_DECISION")
    /\ \/ motor' = motor /\ Hold
       \/ Weighing /\ motor' = motor /\ Proceed("FINAL_SETTLING")
       \/ /\ Weighing
          /\ pulse_attempts < MaxPulses
          /\ \/ motor' = "pulse" /\ Proceed("PULSE_EXECUTE")
             \/ motor' = motor /\ Proceed("TIMEOUT")
    /\ MotorHandler

RunPulseExecute ==
    /\ Tick("PULSE_EXECUTE")
    /\ IF Weighing /\ PulseComplete
       THEN motor' = AfterPulsePoll /\ Proceed("PULSE_SETTLING")
       ELSE motor' = motor /\ Hold
    /\ MotorHandler

RunTimeGrinding ==
    /\ Tick("TIME_GRINDING")
    /\ \/ motor' = motor /\ Hold
       \/ Timing /\ motor' = "off" /\ Proceed("FINAL_SETTLING")
    /\ MotorHandler

\* final_measurement(): next to nothing on the scale is an error.
RunFinalSettling ==
    /\ Tick("FINAL_SETTLING")
    /\ \/ Hold /\ UNCHANGED last_session_result
       \/ Proceed("COMPLETED") /\ UNCHANGED last_session_result
       \/ /\ mode = "WEIGHT"
          /\ last_session_result' = "ERROR"
          /\ Proceed("TIMEOUT")
    /\ UNCHANGED <<motor, tare, logVars, fate>>
    /\ HandlerFrame

RunAdditionalPulse ==
    /\ Tick("TIME_ADDITIONAL_PULSE")
    /\ motor' = AfterPulsePoll
    /\ Hold \/ (PulseComplete /\ Proceed("COMPLETED"))
    /\ MotorHandler

\* Faulty variant: an aborted grind is not told apart.
ResultStringOfResult ==
    CASE last_session_result = "OVERSHOOT" -> "OVERSHOOT"
      [] last_session_result = "MAX_PULSES" -> "MAX PULSES"
      [] OTHER -> "COMPLETE"

ResultString ==
    IF phase = "TIMEOUT" THEN "TIMEOUT"
    ELSE CASE last_session_result = "OVERSHOOT" -> "OVERSHOOT"
           [] last_session_result = "MAX_PULSES" -> "MAX PULSES"
           [] OTHER -> "COMPLETE"

\* COMPLETED and TIMEOUT: the end of the session is queued for the file I/O
\* task once; a full queue drops it all the same.
RunEnded ==
    /\ Tick("COMPLETED") \/ Tick("TIMEOUT")
    /\ IF logging_active /\ ~session_end_flash_queued
       THEN /\ flash_op_queue' = QueueFlashOperation([session |-> session_id,
                                                      result  |-> ResultString])
            /\ session_end_flash_queued' = TRUE
       ELSE UNCHANGED <<flash_op_queue, session_end_flash_queued>>
    /\ Hold
    /\ UNCHANGED <<mode, purge_mode, active_strategy, pulse_attempts,
                   ui_ready_for_setup, age>>
    /\ UNCHANGED <<swVars, logVars, io, saved, uiVars, motor, tare, fate>>

\* The switch_phase() a handler ends in; a pulse counts once it is announced.
TickSwitch ==
    /\ pc0 = "switch"
    /\ Core0Free
    /\ SwitchPhase(pend, last_session_result)
    /\ pulse_attempts' = IF pend = "PULSE_EXECUTE" THEN pulse_attempts + 1
                         ELSE pulse_attempts
    /\ pc0' = "check"
    /\ pend' = "IDLE"
    /\ UNCHANGED <<mode, purge_mode, active_strategy, ui_ready_for_setup,
                   session_end_flash_queued, age, pc1>>
    /\ UNCHANGED <<logVars, ioVars, uiVars, motor, tare>>

\* The failsafes read the phase again.  The first that trips stops the motor.
MayReadNegative == phase \in (Grinding \cup {"PURGE_CONFIRM"})
MayReadStale    == phase \notin {"COMPLETED", "TIMEOUT", "IDLE", "INITIALIZING",
                                 "SETUP", "PURGE_CONFIRM"}
\* Faulty variant: a phase without a time limit.
TimedOutButSettling == /\ phase \notin {"COMPLETED", "TIMEOUT", "PURGE_CONFIRM", "FINAL_SETTLING"}
                       /\ age = TimeoutUnits

TimedOut        == /\ phase \notin {"COMPLETED", "TIMEOUT", "PURGE_CONFIRM"}
                   /\ age = TimeoutUnits

\* Faulty variant: a failsafe forgets the motor.
TickCheckMotorLeft ==
    /\ pc0 = "check"
    /\ Core0Free
    /\ ui_event_queue' = EmitUiEvent("PROGRESS_UPDATED")
    /\ IF TimedOut
       THEN last_session_result' = "TIMEOUT" /\ pc0' = "abort"
       ELSE last_session_result' = last_session_result /\ pc0' = "wait"
    /\ UNCHANGED <<phase, grinder_purged_since_boot, pend, pc1, motor>>
    /\ UNCHANGED <<ctlVars, logVars, ioVars, uiVars, tare, fate>>

\* The end of the pass: progress is reported, then the failsafes decide.
TickCheck ==
    /\ pc0 = "check"
    /\ Core0Free
    /\ ui_event_queue' = EmitUiEvent("PROGRESS_UPDATED")
    /\ \/ /\ MayReadNegative \/ MayReadStale
          /\ motor' = "off" /\ last_session_result' = "ERROR" /\ pc0' = "abort"
       \/ /\ TimedOut
          /\ motor' = "off" /\ last_session_result' = "TIMEOUT" /\ pc0' = "abort"
       \/ /\ ~TimedOut
          /\ pc0' = "wait" /\ UNCHANGED <<motor, last_session_result>>
    /\ UNCHANGED <<phase, grinder_purged_since_boot, pend, pc1>>
    /\ UNCHANGED <<ctlVars, logVars, ioVars, uiVars, tare, fate>>

TickAbort ==
    /\ pc0 = "abort"
    /\ Core0Free
    /\ SwitchPhase("TIMEOUT", last_session_result)
    /\ pc0' = "wait"
    /\ UNCHANGED <<ctlVars, logVars, ioVars, uiVars, pend, pc1, motor, tare>>

Core0 ==
    \/ RunPaused \/ RunInitializing \/ RunSetup \/ RunTaring \/ RunTareConfirm
    \/ RunPrime \/ RunPrimeSettling \/ RunPredictive \/ RunPulseSettling
    \/ RunPulseDecision \/ RunPulseExecute \/ RunTimeGrinding \/ RunFinalSettling
    \/ RunAdditionalPulse \/ RunEnded \/ TickSwitch \/ TickCheck \/ TickAbort

-----------------------------------------------------------------------------
(* Core 1, the UI task: each iteration drains the event queue and then      *)
(* looks at auto-actions, timers and touches, at most one of which acts.   *)
(* "ui" in Prompt: no event arrives between the two.                       *)

UiActs == /\ Core1Free
          /\ pc1 = "act"
          /\ "ui" \in Prompt => ui_event_queue = <<>>

NextRound == pc1' = "drain" /\ UNCHANGED <<pc0, pend>>

\* process_queued_ui_events() has emptied the queue.
UiDrained ==
    /\ Core1Free
    /\ pc1 = "drain"
    /\ ui_event_queue = <<>>
    /\ pc1' = "act"
    /\ UNCHANGED <<ctlVars, swVars, logVars, ioVars, uiVars, pc0, pend, motor, tare, fate>>

\* Nothing was pressed and nothing was due.
UiRound ==
    /\ Core1Free
    /\ pc1 = "act"
    /\ NextRound
    /\ UNCHANGED <<ctlVars, swVars, logVars, ioVars, uiVars, motor, tare, fate>>

\* Core 0's next pass comes before the next UI action, so a finished session
\* has asked for its flush.  "control" in Prompt: before a press or a 60 s
\* timer; "auto": before auto-return too, which acts in the same UI iteration
\* as the COMPLETED event.
EndAsked(who) == who \in Prompt /\ phase \in {"COMPLETED", "TIMEOUT"} =>
                    ~logging_active \/ session_end_flash_queued

\* Faulty variant: the error screen has no timer.
ShowScreenNoTimer(s) ==
    /\ ui' = s
    /\ grind_complete_timer' = (s = "GRIND_COMPLETE")
    /\ grind_timeout_timer' = FALSE

\* switch_to_state(): on_state_changed() deletes the timers of other screens.
ShowScreen(s) ==
    /\ ui' = s
    /\ grind_complete_timer' = (s = "GRIND_COMPLETE")
    /\ grind_timeout_timer' = (s = "GRIND_TIMEOUT")

\* Events that always bring up a screen of their own.
ScreenEvents == {"PURGE_CONFIRM", "COMPLETED", "TIMEOUT", "STOPPED"}

ScreenOf(e) == IF e = "PURGE_CONFIRM" THEN "PURGE_CONFIRM"
               ELSE IF e = "COMPLETED" THEN "GRIND_COMPLETE"
               ELSE IF e = "TIMEOUT" THEN "GRIND_TIMEOUT"
               ELSE IF e = "STOPPED" THEN "READY" ELSE "GRINDING"

\* Faulty variant: STOPPED closes only the grinding screen.
HandleGrindEventPartly(e) ==
    IF \/ e \in {"INITIALIZING", "PHASE_CHANGED"} /\ ui # "GRINDING"
       \/ e \in ScreenEvents /\ ~(e = "STOPPED" /\ ui = "PURGE_CONFIRM")
    THEN ShowScreen(ScreenOf(e))
    ELSE UNCHANGED uiVars

\* handle_grind_event() on the event at the head of the queue.
HandleGrindEvent(e) ==
    IF \/ e \in {"INITIALIZING", "PHASE_CHANGED"} /\ ui # "GRINDING"
       \/ e \in ScreenEvents
    THEN ShowScreen(ScreenOf(e))
    ELSE UNCHANGED uiVars

\* ui_acknowledge_phase_transition(), called only on entering the screen.
Acknowledges(e) == e = "INITIALIZING" /\ ui # "GRINDING" /\ phase = "INITIALIZING"

UiEvent ==
    /\ Core1Free
    /\ pc1 = "drain"
    /\ ui_event_queue # <<>>
    /\ LET e == Head(ui_event_queue) IN
       /\ HandleGrindEvent(e)
       /\ ui_ready_for_setup' = (ui_ready_for_setup \/ Acknowledges(e))
    /\ ui_event_queue' = Tail(ui_event_queue)
    /\ UNCHANGED <<phase, last_session_result, grinder_purged_since_boot>>
    /\ UNCHANGED <<mode, purge_mode, active_strategy, pulse_attempts,
                   session_end_flash_queued, age>>
    /\ UNCHANGED <<logVars, ioVars, pcVars, motor, tare, fate>>

\* Faulty variant: the acknowledgement of the last grind is not cleared.
StartGrindKeepsAck ==
    /\ UiActs
    /\ "fileio" \in Prompt => flash_op_queue = <<>> /\ io = <<>>
    /\ ui = "READY"
    /\ session_id < MaxSessions
    /\ active_strategy' = TRUE
    /\ pulse_attempts' = 0
    /\ session_end_flash_queued' = FALSE
    /\ age' = 0
    /\ SwitchPhase("INITIALIZING", "UNKNOWN")
    /\ NextRound
    /\ UNCHANGED <<mode, purge_mode, ui_ready_for_setup, logVars, ioVars, uiVars, motor, tare>>

\* start_grind(), from the button or, with no grind active, from auto-start.
StartGrind ==
    /\ UiActs
    /\ "fileio" \in Prompt => flash_op_queue = <<>> /\ io = <<>>
    /\ ui = "READY"
    /\ session_id < MaxSessions
    /\ mode' \in {"WEIGHT", "TIME"}
    /\ purge_mode' \in {"PRIME", "PURGE"}
    /\ active_strategy' = TRUE
    /\ pulse_attempts' = 0
    /\ ui_ready_for_setup' = FALSE
    /\ session_end_flash_queued' = FALSE
    /\ age' = 0
    /\ SwitchPhase("INITIALIZING", "UNKNOWN")
    /\ NextRound
    /\ UNCHANGED <<logVars, ioVars, uiVars, motor, tare>>

\* discard_current_session()
Discard ==
    /\ logging_active' = FALSE
    /\ fate' = IF fate[session_id] = "running"
               THEN [fate EXCEPT ![session_id] = "cancelled"] ELSE fate

\* Faulty variant: OK on the completed screen goes through stop_grind().
StopBeginAnyScreen ==
    /\ UiActs
    /\ ui \in {"GRINDING", "PURGE_CONFIRM", "GRIND_COMPLETE"}
    /\ motor' = "off"
    /\ Discard
    /\ pc1' = "stopping"
    /\ UNCHANGED <<ctlVars, swVars, session_id, ioVars, uiVars, pc0, pend, tare>>

\* stop_grind(), up to and including the discard: the motor is off, the phase
\* is not IDLE yet.
StopBegin ==
    /\ UiActs
    /\ ui \in {"GRINDING", "PURGE_CONFIRM"}
    /\ motor' = "off"
    /\ Discard
    /\ pc1' = "stopping"
    /\ UNCHANGED <<ctlVars, swVars, session_id, ioVars, uiVars, pc0, pend, tare>>

\* What stop_grind() and return_to_idle() end in.
LeaveSession ==
    /\ active_strategy' = FALSE
    /\ purge_mode' = "PURGE"           \* GRIND_PURGE_MODE_DEFAULT
    /\ SwitchPhase("IDLE", last_session_result)
    /\ UNCHANGED <<mode, pulse_attempts, ui_ready_for_setup,
                   session_end_flash_queued, age>>

StopFinish ==
    /\ pc1 = "stopping"
    /\ LeaveSession
    /\ pc1' = "drain"
    /\ UNCHANGED <<logVars, ioVars, uiVars, pc0, pend, motor, tare>>

\* return_to_idle() acts only on a finished grind.
ReturnToIdle ==
    IF phase \in {"COMPLETED", "TIMEOUT"}
    THEN LeaveSession
    ELSE UNCHANGED <<ctlVars, swVars, fate>>

OkButton ==
    /\ UiActs /\ EndAsked("control")
    /\ ui \in {"GRIND_COMPLETE", "GRIND_TIMEOUT"}
    /\ ReturnToIdle
    /\ NextRound
    /\ UNCHANGED <<logVars, ioVars, uiVars, motor, tare>>

\* update_auto_actions(): a near-empty scale after a successful grind.
AutoReturn ==
    /\ UiActs /\ EndAsked("auto")
    /\ ui \in {"GRIND_COMPLETE", "GRIND_TIMEOUT"}
    /\ last_session_result = "SUCCESS"
    /\ ~tare
    /\ ReturnToIdle
    /\ NextRound
    /\ UNCHANGED <<logVars, ioVars, uiVars, motor, tare>>

\* The one-shot 60 s timers of the two final screens.
CompleteTimer ==
    /\ UiActs /\ EndAsked("control")
    /\ grind_complete_timer
    /\ ReturnToIdle
    /\ grind_complete_timer' = FALSE
    /\ NextRound
    /\ UNCHANGED <<logVars, ioVars, ui, grind_timeout_timer, motor, tare>>

TimeoutTimer ==
    /\ UiActs /\ EndAsked("control")
    /\ grind_timeout_timer
    /\ ReturnToIdle
    /\ grind_timeout_timer' = FALSE
    /\ NextRound
    /\ UNCHANGED <<logVars, ioVars, ui, grind_complete_timer, motor, tare>>

\* The CONTINUE button of the purge popup, then continue_from_purge().
ContinueFromPurge ==
    /\ UiActs
    /\ ui = "PURGE_CONFIRM"
    /\ ShowScreen("GRINDING")
    /\ IF phase = "PURGE_CONFIRM"
       THEN motor' \in AfterStart /\ SwitchPhase("PREDICTIVE", last_session_result)
       ELSE UNCHANGED <<motor, swVars, fate>>
    /\ NextRound
    /\ UNCHANGED <<ctlVars, logVars, ioVars, tare>>

\* Faulty variant: a pulse may be asked for while one is being measured.
AdditionalPulseAgain ==
    /\ UiActs /\ EndAsked("control")
    /\ ui = "GRIND_COMPLETE"
    /\ phase \in {"COMPLETED", "TIME_ADDITIONAL_PULSE"}
    /\ motor' = "pulse"
    /\ age' = 0
    /\ SwitchPhase("TIME_ADDITIONAL_PULSE", last_session_result)
    /\ NextRound
    /\ UNCHANGED <<mode, purge_mode, active_strategy, pulse_attempts,
                   ui_ready_for_setup, session_end_flash_queued>>
    /\ UNCHANGED <<logVars, ioVars, uiVars, tare>>

\* The PULSE button; a refused pulse leaves everything as it was.
AdditionalPulse ==
    /\ UiActs /\ EndAsked("control")
    /\ ui = "GRIND_COMPLETE"
    /\ phase = "COMPLETED"
    /\ motor' = "pulse"
    /\ age' = 0
    /\ SwitchPhase("TIME_ADDITIONAL_PULSE", last_session_result)
    /\ UNCHANGED <<mode, purge_mode, active_strategy, pulse_attempts,
                   ui_ready_for_setup, session_end_flash_queued>>
    /\ NextRound
    /\ UNCHANGED <<logVars, ioVars, uiVars, tare>>

-----------------------------------------------------------------------------
(* Core 1, the file I/O task: end_grind_session() writes the file, then     *)
(* clears the buffers and ends logging, whoever is logging by then.        *)

FlashBegin ==
    /\ io = <<>>
    /\ flash_op_queue # <<>>
    /\ flash_op_queue' = Tail(flash_op_queue)
    /\ LET r == Head(flash_op_queue) IN
       IF logging_active
       THEN /\ io' = <<r>>
            /\ saved' = saved \cup {[id |-> session_id, session |-> r.session,
                                     result |-> r.result, fate |-> fate[session_id]]}
       ELSE UNCHANGED <<io, saved>>
    /\ UNCHANGED <<ctlVars, swVars, logVars, uiVars, pcVars, motor, tare, fate>>

FlashFinish ==
    /\ io # <<>>
    /\ io' = <<>>
    /\ logging_active' = FALSE
    /\ UNCHANGED <<ctlVars, swVars, session_id, flash_op_queue, saved, uiVars,
                   pcVars, motor, tare, fate>>

-----------------------------------------------------------------------------
(* The specification *)

Init ==
    /\ phase = "IDLE" /\ last_session_result = "UNKNOWN"
    /\ mode = "WEIGHT" /\ purge_mode = "PURGE"
    /\ active_strategy = FALSE /\ pulse_attempts = 0 /\ age = 0
    /\ ui_ready_for_setup = FALSE /\ session_end_flash_queued = FALSE
    /\ grinder_purged_since_boot = FALSE
    /\ motor = "off" /\ tare = FALSE
    /\ pc0 = "wait" /\ pend = "IDLE" /\ pc1 = "drain"
    /\ logging_active = FALSE /\ session_id = 0
    /\ flash_op_queue = <<>> /\ io = <<>> /\ saved = {}
    /\ ui = "READY" /\ ui_event_queue = <<>>
    /\ grind_complete_timer = FALSE /\ grind_timeout_timer = FALSE
    /\ fate = [s \in SessionIds |-> "none"]

User == \/ StartGrind \/ StopBegin \/ OkButton \/ AutoReturn
        \/ ContinueFromPurge \/ AdditionalPulse

Next == \/ RunIdle \/ Core0
        \/ UiEvent \/ UiDrained \/ UiRound \/ User \/ StopFinish \/ CompleteTimer \/ TimeoutTimer
        \/ FlashBegin \/ FlashFinish
        \/ PulseDoneIsr \/ ApplyTare \/ Elapse

(* The control task, the UI task, the file I/O task and the clock keep      *)
(* running (FreeRTOS schedules each on its period).  Core 1 steps get       *)
(* strong fairness: what disables them is only a pass of core 0, which is   *)
(* a few microseconds of every 20 ms.  The queue is drained: events come    *)
(* slower than the UI task takes them.  Nothing is assumed of the user, the *)
(* load cell or the transmit-done interrupt.                                *)
Fairness ==
    /\ WF_vars(Core0) /\ WF_vars(StopFinish) /\ WF_vars(Elapse)
    /\ SF_vars(UiEvent) /\ SF_vars(UiDrained \/ UiRound)
    /\ SF_vars(CompleteTimer \/ TimeoutTimer)
    /\ WF_vars(FlashBegin \/ FlashFinish)

Spec == Init /\ [][Next]_vars
FairSpec == Spec /\ Fairness

-----------------------------------------------------------------------------
(* Properties *)

AtRest == pc0 = "wait" /\ pc1 # "stopping"

(* Between two passes the motor runs only in a phase that runs it: the      *)
(* continuous drive in PRIME, PREDICTIVE and TIME_GRINDING, a timed pulse   *)
(* in PULSE_EXECUTE and TIME_ADDITIONAL_PULSE.  In particular no path out   *)
(* of a grind (failsafe, STOP, completion, refused pulse) leaves it on.     *)
MotorSafe ==
    AtRest =>
      /\ motor = "run" => phase \in {"PRIME", "PREDICTIVE", "TIME_GRINDING"}
      /\ motor \in {"pulse", "spent"} => phase \in {"PULSE_EXECUTE", "TIME_ADDITIONAL_PULSE"}

(* After stop_grind() or return_to_idle() has put the controller in IDLE    *)
(* the motor is off.                                                        *)
IdleMotorOff == AtRest /\ phase = "IDLE" => motor = "off"

(* Whenever the motor runs continuously the screen shown carries a STOP     *)
(* button (GRINDING, or the purge popup), even when ui_event_queue drops    *)
(* events: the INITIALIZING handshake keeps core 0 from going on before.    *)
StopAvailable == motor = "run" => ui \in {"GRINDING", "PURGE_CONFIRM"}

(* "Cancelled grinds are never saved": a session file is written under the  *)
(* id of the session that asked for it, after that session finished, and    *)
(* says TIMEOUT exactly when it was aborted.                                *)
SavedOnlyWhenFinished ==
    \A f \in saved :
        /\ f.id = f.session
        /\ f.fate \in {"completed", "timedout"}
        /\ f.result = "TIMEOUT" <=> f.fate = "timedout"

(* "Every completed grind is ready to analyze": a finished session is on    *)
(* flash, or still open in the logger.                                      *)
CompletedGrindRecorded ==
    \A s \in SessionIds :
        fate[s] \in {"completed", "timedout"} =>
            \/ \E f \in saved : f.id = s
            \/ s = session_id /\ logging_active

(* Every grind comes to an end on its own: whatever the scale, the motor    *)
(* driver and the user do, an active phase is left for COMPLETED, TIMEOUT,  *)
(* IDLE or the purge question.  By MotorSafe, the motor stops with it.      *)
GrindTerminates ==
    phase \in Setup \cup Grinding \cup {"TIME_ADDITIONAL_PULSE"} ~>
        phase \in {"IDLE", "PURGE_CONFIRM", "COMPLETED", "TIMEOUT"}

(* Once a grind is over, by itself, by STOP or by a failsafe, the UI finds   *)
(* its way back to READY: by the STOPPED event, a button, auto-return, or    *)
(* the 60 s timers of the final screens when nobody touches them.            *)
Over == {"IDLE", "COMPLETED", "TIMEOUT"}
UiReturns == phase \in Over ~> (phase = "IDLE" /\ ui = "READY") \/ phase \notin Over

(* A finished grind that was logged ends up on flash.                       *)
EventuallySaved ==
    \A s \in SessionIds :
        fate[s] = "completed" ~> \E f \in saved : f.id = s

-----------------------------------------------------------------------------
(* Refinement: outside a pass and outside stop_grind(), a session is what   *)
(* GrindSession says.  A decision counts from the step that takes it: the   *)
(* switch_phase() it ends in is already decided.                            *)

DecidedPhase == IF pc1 = "stopping" THEN "IDLE"
                ELSE IF pc0 = "abort" THEN "TIMEOUT"
                ELSE IF pc0 = "switch" THEN pend ELSE phase

Stage == CASE DecidedPhase = "IDLE"                  -> "idle"
           [] DecidedPhase \in Setup                 -> "prepare"
           [] DecidedPhase \in Grinding              -> "grind"
           [] DecidedPhase = "PURGE_CONFIRM"         -> "confirm"
           [] DecidedPhase = "COMPLETED"             -> "completed"
           [] DecidedPhase = "TIMEOUT"               -> "failed"
           [] DecidedPhase = "TIME_ADDITIONAL_PULSE" -> "topup"

Session == INSTANCE GrindSession
             WITH stage <- Stage, turning <- motor \in {"run", "pulse"}

(* The controller implements GrindSession.                                  *)
ImplementsSession == Session!Spec

-----------------------------------------------------------------------------
(* The inductive invariant behind MotorSafe and StopAvailable, for          *)
(* Preemptive = FALSE and any Prompt: the motor fits the decided phase, and *)
(* the INITIALIZING handshake keeps screen, event queue and phase together  *)
(* however many events are dropped.                                        *)

MotorFits(p) ==
    /\ motor = "run" => p \in {"PRIME", "PREDICTIVE", "TIME_GRINDING"}
    /\ motor \in {"pulse", "spent"} => p \in {"PULSE_EXECUTE", "TIME_ADDITIONAL_PULSE"}

\* A grind the UI has acknowledged and that is not over.
Live == \/ DecidedPhase \in (Setup \ {"INITIALIZING"}) \cup Grinding \cup {"PURGE_CONFIRM"}
        \/ DecidedPhase = "INITIALIZING" /\ ui_ready_for_setup

Queued(e) == \E i \in 1 .. Len(ui_event_queue) : ui_event_queue[i] = e

\* core 0 is at rest while stop_grind() runs, and while no grind is active
CoresInv ==
    /\ pc1 = "stopping" => pc0 = "wait" /\ ui \in {"GRINDING", "PURGE_CONFIRM"}
    /\ phase = "IDLE" => pc0 = "wait"
    /\ pc0 = "switch" => pend \notin {"IDLE", "INITIALIZING"}
    /\ pc0 = "abort" => phase \notin {"IDLE", "COMPLETED", "TIMEOUT"}

\* STOPPED is drained before the next START
StoppedInv == Queued("STOPPED") => phase = "IDLE" /\ pc1 = "drain"

\* READY shows no grind, or one whose INITIALIZING event comes next
ReadyInv ==
    ui = "READY" =>
      \/ phase = "IDLE" /\ (pc1 = "act" => ui_event_queue = <<>>)
      \/ /\ phase \in {"INITIALIZING", "TIMEOUT"} /\ ~ui_ready_for_setup
         /\ pc0 # "switch" /\ pc1 = "drain"
         /\ ui_event_queue # <<>> /\ Head(ui_event_queue) = "INITIALIZING"
         /\ DecidedPhase = "INITIALIZING" => ~Queued("TIMEOUT") /\ ~Queued("COMPLETED")

\* only such a READY waits for INITIALIZING, and at most one is queued
InitEventInv == \A i \in 1 .. Len(ui_event_queue) :
                    ui_event_queue[i] = "INITIALIZING" => i = 1 /\ ui = "READY"

\* a live grind is on a screen with a STOP button, and stays there
LiveInv == Live => /\ ui \in {"GRINDING", "PURGE_CONFIRM"}
                   /\ ~Queued("COMPLETED") /\ ~Queued("TIMEOUT")

Inv == /\ MotorFits(DecidedPhase)
       /\ CoresInv /\ StoppedInv /\ ReadyInv /\ InitEventInv /\ LiveInv

=============================================================================
