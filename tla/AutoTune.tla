------------------------------ MODULE AutoTune ------------------------------
(***************************************************************************)
(* Auto-tune of the motor latency, src/controllers/autotune_controller.cpp *)
(* and its screen, src/ui/controllers/autotune_controller.cpp: prime the   *)
(* chute, search for the shortest pulse that yields grounds, verify it.    *)
(*                                                                         *)
(* Durations are in units of 1/32 ms.  The search halves a step of 270 ms  *)
(* at most six times, so every float of it is a whole number of units.     *)
(* update() runs once in each iteration of the UI task, and only while the *)
(* auto-tune screen is up.                                                 *)
(***************************************************************************)
EXTENDS Integers

CONSTANTS
    LATENCY_MIN, LATENCY_MAX,    \* bounds of the search
    TARGET_ACCURACY,             \* resolution at which it stops
    PRIMING_PULSE,
    MAX_ITERATIONS,
    VERIFICATION_PULSES,         \* per round
    VERIFICATION_ROUNDS,
    Unit,                        \* one millisecond
    Lags,                        \* response times a grinder may have, in ms
    MaxNoise,                    \* answers of a run that do not go by it
    Latencies                    \* latencies an earlier tuning may have left

ASSUME TuneAssumption ==
    /\ LATENCY_MIN \in Nat \ {0} /\ LATENCY_MAX \in Nat /\ LATENCY_MIN <= LATENCY_MAX
    /\ TARGET_ACCURACY \in Nat \ {0} /\ PRIMING_PULSE \in Nat
    /\ MAX_ITERATIONS \in Nat /\ VERIFICATION_PULSES \in Nat /\ VERIFICATION_ROUNDS \in Nat \ {0}
    /\ Unit \in Nat \ {0}
    /\ Lags \subseteq Nat /\ MaxNoise \in Nat
    /\ Latencies \subseteq LATENCY_MIN..LATENCY_MAX

\* grind_control.h: a longest pulse of 300 ms, five verification pulses.  The
\* rounding to 10 ms stays within the bounds, and a round has pulses.
ASSUME LengthAssumption ==
    LATENCY_MAX % (10 * Unit) = 0 /\ VERIFICATION_PULSES # 0

\* Six halvings take 270 ms below the accuracy of 5 ms; the search may take 50
\* pulses.
ASSUME IterationAssumption ==
    LATENCY_MAX - LATENCY_MIN <= 64 * TARGET_ACCURACY /\ MAX_ITERATIONS >= 20

VARIABLES
    lag,            \* response time of this grinder, in ms
    noise,          \* answers of this run that did not go by it
    ui,             \* "MENU", "CONSOLE" and "RESULT" of AUTOTUNING, "EXPORT"
    phase,          \* current_phase
    sub_phase,
    is_running,
    reason,         \* result.error_message
    motor,          \* "off", "pulse", "done": transmitted, not yet polled
    latency,        \* motor_response_latency_ms and its stored copy
    current_pulse, active_pulse, step_size, last_success, direction,
    found_lower_bound, iteration, last_pulse_success,
    verification_round, pulse_count, success_count, candidate,
    evidence        \* history: verification pulses of the last length tried

control == <<phase, sub_phase>>
search == <<current_pulse, step_size, last_success, direction, found_lower_bound, iteration>>
answer == <<last_pulse_success, noise>>
verify == <<verification_round, pulse_count, success_count, candidate, evidence>>
vars == <<lag, ui, control, is_running, reason, motor, latency, active_pulse,
          answer, search, verify>>

Running == ui = "CONSOLE" /\ is_running
At(p, s) == Running /\ phase = p /\ sub_phase = s

NoEvidence == [pulse |-> 0, tried |-> 0, worked |-> 0]

Init ==
    /\ lag \in Lags /\ latency \in Latencies
    /\ ui = "MENU" /\ phase = "IDLE" /\ sub_phase = "IDLE" /\ is_running = FALSE
    /\ reason = "none" /\ motor = "off"
    /\ current_pulse = 0 /\ active_pulse = 0 /\ step_size = 0 /\ last_success = 0
    /\ direction = "DOWN" /\ found_lower_bound = FALSE /\ iteration = 0
    /\ last_pulse_success = FALSE /\ noise = 0
    /\ verification_round = 0 /\ pulse_count = 0 /\ success_count = 0 /\ candidate = 0
    /\ evidence = NoEvidence

-----------------------------------------------------------------------------
(* Completion, and the screen that shows it.                               *)

(* A plausible bug: the pulse in flight is left to run out.                *)
CompleteWithFailureMotorLeft(why) ==
    /\ phase' = "COMPLETE_FAILURE" /\ reason' = why /\ is_running' = FALSE
    /\ UNCHANGED <<sub_phase, latency, motor>>

CompleteWithFailure(why) ==
    /\ phase' = "COMPLETE_FAILURE" /\ reason' = why /\ is_running' = FALSE
    /\ motor' = "off"
    /\ UNCHANGED <<sub_phase, latency>>

Fail(why) == CompleteWithFailure(why) /\ ui' = "RESULT"

CompleteWithSuccess(final) ==
    IF final \in LATENCY_MIN..LATENCY_MAX
    THEN /\ latency' = final
         /\ phase' = "COMPLETE_SUCCESS" /\ reason' = "none" /\ is_running' = FALSE
         /\ ui' = "RESULT"
         /\ UNCHANGED <<sub_phase, motor>>
    ELSE Fail("range")

(* Steps that neither complete nor change the phase.                       *)
SwitchSubPhase(s) ==
    /\ sub_phase' = s
    /\ UNCHANGED <<phase, is_running, reason, latency, ui>>

SwitchPhase(p) ==
    /\ phase' = p /\ sub_phase' = "IDLE"
    /\ UNCHANGED <<is_running, reason, latency, ui>>

-----------------------------------------------------------------------------
(* Buttons.                                                                *)

(* confirm_and_begin() and start(), which refuses while a run is on.       *)
Begin ==
    /\ ui = "MENU" /\ ~is_running
    /\ ui' = "CONSOLE" /\ is_running' = TRUE
    /\ phase' = "PRIMING" /\ sub_phase' = "IDLE"
    /\ current_pulse' = LATENCY_MAX /\ step_size' = LATENCY_MAX - LATENCY_MIN
    /\ last_success' = 0 /\ direction' = "DOWN" /\ found_lower_bound' = FALSE
    /\ iteration' = 0 /\ active_pulse' = 0 /\ last_pulse_success' = FALSE /\ noise' = 0
    /\ verification_round' = 0 /\ pulse_count' = 0 /\ success_count' = 0
    /\ candidate' = 0 /\ evidence' = NoEvidence
    /\ UNCHANGED <<lag, reason, motor, latency>>

Cancel ==
    /\ ui = "CONSOLE" /\ is_running
    /\ CompleteWithFailure("cancelled")
    /\ ui' = "MENU"
    /\ UNCHANGED <<lag, active_pulse, answer, search, verify>>

Ok ==
    /\ ui = "RESULT" /\ ui' = "MENU"
    /\ UNCHANGED <<lag, control, is_running, reason, motor, latency, active_pulse,
                   answer, search, verify>>

(* A data export takes the screen over, a run's too, and gives READY back;  *)
(* the way from READY to the menu is not told apart from the menu.          *)
ExportBegins ==
    /\ ui # "EXPORT" /\ ui' = "EXPORT"
    /\ UNCHANGED <<lag, control, is_running, reason, motor, latency, active_pulse,
                   answer, search, verify>>

ExportEnds ==
    /\ ui = "EXPORT" /\ ui' = "MENU"
    /\ UNCHANGED <<lag, control, is_running, reason, motor, latency, active_pulse,
                   answer, search, verify>>

PulseDoneIsr ==
    /\ motor = "pulse" /\ motor' = "done"
    /\ UNCHANGED <<lag, ui, control, is_running, reason, latency, active_pulse,
                   answer, search, verify>>

-----------------------------------------------------------------------------
(* The sub-phases every pulse goes through.                                *)

StartPulse(duration) ==
    /\ active_pulse' = duration
    /\ \/ motor' = "pulse" /\ SwitchSubPhase("PULSE_EXECUTE")
       \/ Fail("motor")

PulseExecute ==
    /\ Running /\ sub_phase = "PULSE_EXECUTE" /\ motor # "pulse"
    /\ motor' = "off"
    /\ SwitchSubPhase("MOTOR_SETTLING")
    /\ UNCHANGED <<lag, active_pulse, answer, search, verify>>

MotorSettling ==
    /\ Running /\ sub_phase = "MOTOR_SETTLING"
    /\ SwitchSubPhase("COLLECTION_DELAY")
    /\ UNCHANGED <<lag, motor, active_pulse, answer, search, verify>>

CollectionDelay ==
    /\ Running /\ sub_phase = "COLLECTION_DELAY"
    /\ SwitchSubPhase("SCALE_SETTLING")
    /\ UNCHANGED <<lag, motor, active_pulse, answer, search, verify>>

ScaleSettling ==
    /\ Running /\ sub_phase = "SCALE_SETTLING"
    /\ \/ SwitchSubPhase("MEASURE_COMPLETE") /\ UNCHANGED motor
       \/ Fail("settling")
    /\ UNCHANGED <<lag, active_pulse, answer, search, verify>>

(* What the scale shows of the last pulse, which is sent in whole           *)
(* milliseconds: grounds from the response time on, but for noise.          *)
Grounds ==
    LET due == active_pulse \div Unit >= lag
    IN  \/ last_pulse_success' = due /\ UNCHANGED noise
        \/ noise < MaxNoise /\ noise' = noise + 1 /\ last_pulse_success' = ~due

-----------------------------------------------------------------------------
(* Priming.                                                                *)

PrimingStart ==
    /\ At("PRIMING", "IDLE")
    /\ StartPulse(PRIMING_PULSE)
    /\ UNCHANGED <<lag, answer, search, verify>>

PrimingMeasure ==
    /\ At("PRIMING", "MEASURE_COMPLETE")
    /\ \/ SwitchSubPhase("TARING") /\ UNCHANGED motor
       \/ Fail("priming")
    /\ UNCHANGED <<lag, active_pulse, answer, search, verify>>

(* The scale reports its tare complete; update_tare() waits as long as it   *)
(* does not.                                                                *)
PrimingTared ==
    /\ At("PRIMING", "TARING")
    /\ SwitchPhase("BINARY_SEARCH")
    /\ UNCHANGED <<lag, motor, active_pulse, answer, search, verify>>

-----------------------------------------------------------------------------
(* Search.                                                                 *)

SearchStart ==
    /\ At("BINARY_SEARCH", "IDLE")
    /\ IF iteration >= MAX_ITERATIONS
       THEN Fail("iterations") /\ UNCHANGED active_pulse
       ELSE StartPulse(current_pulse)
    /\ UNCHANGED <<lag, answer, search, verify>>

SearchMeasure ==
    /\ At("BINARY_SEARCH", "MEASURE_COMPLETE")
    /\ Grounds
    /\ SwitchSubPhase("RESULT_LOGGED")
    /\ UNCHANGED <<lag, motor, active_pulse, search, verify>>

NewSuccess == IF last_pulse_success THEN current_pulse ELSE last_success
NewFound == found_lower_bound \/ ~last_pulse_success

(* The step is fine enough, and a pulse has failed before this one worked. *)
Resolved == step_size <= TARGET_ACCURACY /\ (last_pulse_success => found_lower_bound)

(* A plausible bug: the step halved on every pulse.                        *)
NewStepAlways == step_size \div 2

(* The step is halved where the search turns round.                        *)
NewStep ==
    IF direction = (IF last_pulse_success THEN "UP" ELSE "DOWN")
    THEN step_size \div 2 ELSE step_size

Constrain(x) ==
    IF x < LATENCY_MIN THEN LATENCY_MIN ELSE IF x > LATENCY_MAX THEN LATENCY_MAX ELSE x

NewPulse ==
    Constrain(IF last_pulse_success THEN current_pulse - NewStep ELSE current_pulse + NewStep)

(* At the lower bound with nothing left to learn there.                    *)
HitLowerBound ==
    /\ NewPulse <= LATENCY_MIN
    /\ ~(NewFound /\ NewStep > TARGET_ACCURACY)
    /\ NewFound \/ NewSuccess \in 1..LATENCY_MIN

(* A plausible bug: rounded to the nearest, not up.                        *)
RoundToTenNearest(x) == ((x + 5 * Unit) \div (10 * Unit)) * (10 * Unit)

(* ceil(last_success_ms / 10.0f) * 10.0f                                   *)
RoundToTen(x) == ((x + 10 * Unit - 1) \div (10 * Unit)) * (10 * Unit)

SearchEnds ==
    /\ At("BINARY_SEARCH", "RESULT_LOGGED")
    /\ Resolved \/ HitLowerBound
    /\ last_success' = NewSuccess /\ found_lower_bound' = NewFound
    /\ IF Resolved THEN UNCHANGED <<step_size, direction>>
       ELSE /\ step_size' = NewStep
            /\ direction' = IF last_pulse_success THEN "DOWN" ELSE "UP"
    /\ IF NewSuccess = 0
       THEN /\ Fail("no_success")
            /\ current_pulse' = IF Resolved THEN current_pulse ELSE NewPulse
            /\ UNCHANGED candidate
       ELSE /\ SwitchPhase("VERIFICATION")
            /\ candidate' = RoundToTen(NewSuccess) /\ current_pulse' = candidate'
            /\ UNCHANGED motor
    /\ UNCHANGED <<lag, active_pulse, answer, iteration,
                   verification_round, pulse_count, success_count, evidence>>

(* A plausible bug: the iteration is not counted.                          *)
NextIterationLost == iteration

NextIteration == iteration + 1

SearchMoves ==
    /\ At("BINARY_SEARCH", "RESULT_LOGGED")
    /\ ~Resolved /\ ~HitLowerBound
    /\ last_success' = NewSuccess /\ found_lower_bound' = NewFound
    /\ step_size' = NewStep
    /\ direction' = IF last_pulse_success THEN "DOWN" ELSE "UP"
    /\ current_pulse' = NewPulse
    /\ iteration' = NextIteration
    /\ SwitchSubPhase("IDLE")
    /\ UNCHANGED <<lag, motor, active_pulse, answer, verify>>

-----------------------------------------------------------------------------
(* Verification.                                                           *)

(* A plausible bug: the round decided one pulse early.                     *)
RoundOverEarly == pulse_count + 1 >= VERIFICATION_PULSES

RoundOver == pulse_count >= VERIFICATION_PULSES

(* success_rate >= 0.80                                                    *)
RoundPassed == 5 * success_count >= 4 * VERIFICATION_PULSES

VerifyPulse ==
    /\ At("VERIFICATION", "IDLE") /\ ~RoundOver
    /\ current_pulse' = candidate
    /\ StartPulse(candidate)
    /\ UNCHANGED <<lag, answer, verify, step_size, last_success,
                   direction, found_lower_bound, iteration>>

VerifyPassed ==
    /\ At("VERIFICATION", "IDLE") /\ RoundOver /\ RoundPassed
    /\ CompleteWithSuccess(candidate)
    /\ UNCHANGED <<lag, active_pulse, answer, search, verify>>

(* A round failed: give up, or start the next one with a longer pulse.     *)
VerifyFailed ==
    /\ At("VERIFICATION", "IDLE") /\ RoundOver /\ ~RoundPassed
    /\ verification_round' = verification_round + 1
    /\ \/ /\ verification_round' >= VERIFICATION_ROUNDS \/ candidate + TARGET_ACCURACY > LATENCY_MAX
          /\ Fail(IF verification_round' >= VERIFICATION_ROUNDS THEN "rounds" ELSE "maximum")
          /\ UNCHANGED <<candidate, current_pulse, pulse_count, success_count, active_pulse>>
       \/ /\ verification_round' < VERIFICATION_ROUNDS
          /\ candidate + TARGET_ACCURACY <= LATENCY_MAX
          /\ candidate' = candidate + TARGET_ACCURACY /\ current_pulse' = candidate'
          /\ pulse_count' = 0 /\ success_count' = 0
          /\ StartPulse(candidate')
    /\ UNCHANGED <<lag, answer, step_size, last_success, direction,
                   found_lower_bound, iteration, evidence>>

(* Counts the pulses of one length, whatever the code counts.              *)
Observe(worked) ==
    LET seen == IF evidence.pulse = active_pulse THEN evidence ELSE NoEvidence
    IN  evidence' = [pulse |-> active_pulse, tried |-> seen.tried + 1,
                     worked |-> seen.worked + (IF worked THEN 1 ELSE 0)]

VerifyMeasure ==
    /\ At("VERIFICATION", "MEASURE_COMPLETE")
    /\ Grounds
    /\ pulse_count' = pulse_count + 1
    /\ success_count' = IF last_pulse_success' THEN success_count + 1 ELSE success_count
    /\ Observe(last_pulse_success')
    /\ SwitchSubPhase("IDLE")
    /\ UNCHANGED <<lag, motor, active_pulse, search, verification_round, candidate>>

Poll == PulseExecute \/ MotorSettling \/ CollectionDelay \/ ScaleSettling

Priming == PrimingStart \/ PrimingMeasure \/ PrimingTared

Search == SearchStart \/ SearchMeasure \/ SearchEnds \/ SearchMoves

Verification == VerifyPulse \/ VerifyPassed \/ VerifyFailed \/ VerifyMeasure

Update == Poll \/ Priming \/ Search \/ Verification

Next ==
    \/ Begin \/ Cancel \/ Ok \/ ExportBegins \/ ExportEnds
    \/ PulseDoneIsr \/ Update

Spec == Init /\ [][Next]_vars

(* The UI task runs its iterations, a pulse of finite length ends, and so  *)
(* does an export.  Nothing is assumed of the user, nor of the tare: the   *)
(* code sets it no time limit.                                             *)
FairSpec ==
    /\ Spec
    /\ WF_vars(Update /\ sub_phase # "TARING") /\ WF_vars(PulseDoneIsr)
    /\ WF_vars(ExportEnds)

-----------------------------------------------------------------------------
(* Once a run is over, whatever ended it and at whatever moment, its pulse *)
(* is over too: complete_with_failure() stops a pulse in flight.           *)
NoStrayPulse == ~is_running => motor = "off"

(* The search asks only for pulses within its bounds, whatever the answers. *)
(* For a grinder with a response time it always ends there: the first      *)
(* candidate works, and is less than the rounding to 10 ms and the         *)
(* accuracy above it.                                                      *)
SearchFindsLag ==
    /\ current_pulse \in {0} \union LATENCY_MIN..LATENCY_MAX
    /\ phase = "VERIFICATION" /\ verification_round = 0 /\ noise = 0 =>
        /\ lag <= candidate \div Unit
        /\ \/ candidate < Unit * lag + TARGET_ACCURACY + 10 * Unit
           \/ candidate = RoundToTen(LATENCY_MIN)

(* A grinder that answers every pulse of the longest length, and in the    *)
(* same way every time, is never told that no pulse worked, that the       *)
(* iterations ran out or that the verification failed.                     *)
SteadyGrinderIsTuned ==
    phase = "COMPLETE_FAILURE" /\ noise = 0 /\ Unit * lag <= LATENCY_MAX =>
        reason \notin {"no_success", "iterations", "rounds", "maximum", "range"}

(* A latency is replaced only by one that made grounds in four of five     *)
(* pulses of exactly that length, the last pulses of the run.              *)
SavedIsProven ==
    [][latency' # latency =>
        /\ evidence = [evidence EXCEPT !.pulse = latency', !.tried = VERIFICATION_PULSES]
        /\ 5 * evidence.worked >= 4 * VERIFICATION_PULSES]_vars

(* A run ends, whatever the scale answers and the motor driver does, but    *)
(* for two ways to hang that the code leaves open: a tare that never        *)
(* completes, and a screen that was taken over and does not come back to    *)
(* the run, since nothing else drives it.                                   *)
TuneEnds ==
    is_running ~> (~is_running \/ [](sub_phase = "TARING") \/ [](ui # "CONSOLE"))

=============================================================================
