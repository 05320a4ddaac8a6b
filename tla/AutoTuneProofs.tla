---------------------------- MODULE AutoTuneProofs ----------------------------
(***************************************************************************)
(* Proofs about AutoTune for every response time, every bound on the noise *)
(* and every value of the constants that its assumptions allow.            *)
(***************************************************************************)
EXTENDS AutoTune, TLAPS

-----------------------------------------------------------------------------
(* The inductive invariant                                                 *)

RunPhases == {"PRIMING", "BINARY_SEARCH", "VERIFICATION"}
Phases == RunPhases \union {"IDLE", "COMPLETE_SUCCESS", "COMPLETE_FAILURE"}

\* The sub-phases of a pulse, from its start to its result.
InFlight == {"PULSE_EXECUTE", "MOTOR_SETTLING", "COLLECTION_DELAY", "SCALE_SETTLING",
             "MEASURE_COMPLETE"}
SubPhases == InFlight \union {"IDLE", "TARING", "RESULT_LOGGED"}

Reasons == {"none", "cancelled", "range", "motor", "settling", "priming", "iterations",
            "no_success", "rounds", "maximum"}

ControlTypes ==
    /\ ui \in {"MENU", "CONSOLE", "RESULT", "EXPORT"}
    /\ phase \in Phases /\ sub_phase \in SubPhases /\ is_running \in BOOLEAN
    /\ reason \in Reasons /\ motor \in {"off", "pulse", "done"}
    /\ latency \in LATENCY_MIN..LATENCY_MAX

SearchTypes ==
    /\ current_pulse \in Nat /\ step_size \in Nat /\ last_success \in Nat
    /\ direction \in {"UP", "DOWN"} /\ found_lower_bound \in BOOLEAN /\ iteration \in Nat

AnswerTypes ==
    lag \in Nat /\ noise \in Nat /\ last_pulse_success \in BOOLEAN /\ active_pulse \in Nat

VerifyTypes ==
    /\ verification_round \in Nat /\ pulse_count \in Nat /\ success_count \in Nat
    /\ candidate \in Nat /\ evidence \in [pulse : Nat, tried : Nat, worked : Nat]

\* Every variable has its type.
TypeOK == ControlTypes /\ SearchTypes /\ AnswerTypes /\ VerifyTypes

\* The motor turns only in the sub-phase that waits for it, and what is
\* measured is a pulse of the length that was asked for.
FlowInv ==
    /\ is_running <=> phase \in RunPhases
    /\ motor # "off" => is_running /\ sub_phase = "PULSE_EXECUTE"
    /\ phase = "PRIMING" => sub_phase # "RESULT_LOGGED"
    /\ phase = "BINARY_SEARCH" =>
          /\ sub_phase # "TARING"
          /\ sub_phase # "IDLE" => active_pulse = current_pulse
    /\ phase = "VERIFICATION" =>
          /\ sub_phase \notin {"TARING", "RESULT_LOGGED"}
          /\ sub_phase # "IDLE" => active_pulse = candidate

Range == LATENCY_MAX - LATENCY_MIN
Searching == phase \in {"PRIMING", "BINARY_SEARCH"}

\* The search stays within its bounds.  Until a pulse fails it has tried the
\* longest one and then the shortest; from then on the shortest pulse known to
\* work is at most a step above the next one.
SearchInv ==
    /\ current_pulse \in {0} \union LATENCY_MIN..LATENCY_MAX
    /\ Searching =>
          /\ verification_round = 0 /\ pulse_count = 0 /\ success_count = 0
          /\ evidence = NoEvidence
          /\ current_pulse \in LATENCY_MIN..LATENCY_MAX
          /\ last_success \in {0} \union LATENCY_MIN..LATENCY_MAX
          /\ step_size <= Range
          /\ direction = "DOWN" /\ last_success # 0 => last_success <= current_pulse + step_size
          /\ direction = "UP" => last_success <= current_pulse + step_size + 1
          /\ ~found_lower_bound =>
                /\ direction = "DOWN" /\ step_size = Range
                /\ \/ last_success = 0 /\ current_pulse = LATENCY_MAX /\ iteration = 0
                   \/ last_success = LATENCY_MAX /\ current_pulse = LATENCY_MIN /\ iteration = 1

\* A round counts the pulses of its own candidate and no others.
VerifyInv ==
    phase = "VERIFICATION" =>
        /\ candidate \in LATENCY_MIN..LATENCY_MAX
        /\ pulse_count <= VERIFICATION_PULSES
        /\ sub_phase # "IDLE" => pulse_count < VERIFICATION_PULSES
        /\ \/ evidence = [pulse |-> candidate, tried |-> pulse_count, worked |-> success_count]
           \/ pulse_count = 0 /\ success_count = 0 /\ evidence.pulse < candidate

\* The shortest pulse that yields grounds.
Threshold == Unit * lag

\* Without noise the search closes in on the threshold: what worked is above
\* it, and once a pulse has failed the next one is at most a step above it.
LagInv ==
    noise = 0 =>
        /\ phase = "BINARY_SEARCH" /\ sub_phase = "RESULT_LOGGED" =>
              last_pulse_success = (current_pulse >= Threshold)
        /\ Searching =>
              /\ last_success = 0 \/ last_success >= Threshold
              /\ found_lower_bound =>
                    /\ LATENCY_MIN < Threshold
                    /\ direction = "DOWN" => current_pulse <= Threshold + step_size
                    /\ direction = "UP" => current_pulse < Threshold + step_size
        /\ phase = "VERIFICATION" =>
              /\ Threshold <= candidate
              /\ verification_round = 0 =>
                    \/ candidate < Threshold + TARGET_ACCURACY + 10 * Unit
                    \/ candidate = RoundToTen(LATENCY_MIN)

\* The step has been halved j times.
Halved(j) ==
    \/ j = 1 /\ 2 * step_size <= Range
    \/ j = 2 /\ 4 * step_size <= Range
    \/ j = 3 /\ 8 * step_size <= Range
    \/ j = 4 /\ 16 * step_size <= Range
    \/ j = 5 /\ 32 * step_size <= Range
    \/ j = 6 /\ 64 * step_size <= Range

\* The search has gone u steps in its direction since it last turned round: it
\* turns at the third pulse at the latest.
Gone(u) ==
    \/ u = 0
    \/ u = 1 /\ (IF direction = "UP" THEN current_pulse + 1 >= Threshold
                                     ELSE current_pulse <= Threshold)
    \/ u = 2 /\ (IF direction = "UP" THEN current_pulse >= Threshold
                                     ELSE current_pulse < Threshold)

\* A grinder that answers the longest pulse, and always in the same way: the
\* search knows a pulse that works and takes at most three iterations for a
\* step, and no verification pulse fails.
SteadyInv ==
    noise = 0 /\ Threshold <= LATENCY_MAX =>
        /\ phase = "COMPLETE_FAILURE" =>
              reason \notin {"no_success", "iterations", "rounds", "maximum", "range"}
        /\ Searching /\ found_lower_bound =>
              /\ last_success # 0
              /\ \E j \in 1..6, u \in 0..2 :
                    Halved(j) /\ Gone(u) /\ iteration < 3 * j + u
        /\ phase = "VERIFICATION" => success_count = pulse_count

IInv == TypeOK /\ FlowInv /\ SearchInv /\ VerifyInv /\ LagInv /\ SteadyInv

-----------------------------------------------------------------------------
(* Arithmetic of durations                                                 *)

(* Division with remainder of natural numbers.                             *)
LEMMA Division ==
    ASSUME NEW a \in Nat, NEW b \in Nat, b > 0
    PROVE  /\ a \div b \in Nat /\ a % b \in Nat /\ a % b < b
           /\ a = b * (a \div b) + (a % b)
<1>1. a \div b \in Int /\ a % b \in Nat /\ a % b < b
  OBVIOUS
<1>2. a = b * (a \div b) + (a % b)
  BY SMTT(60)
<1>3. ASSUME NEW q \in Int, a = b * q + (a % b), q <= -1
      PROVE  FALSE
  <2>1. \A x, y \in Nat : x * y >= 0
    OBVIOUS
  <2>2. b * (-1 - q) >= 0 /\ b * (-1 - q) = -b - b * q
    BY <1>3, <2>1
  <2>3. PICK p \in Int : p = b * q
    BY <1>3
  <2> QED BY <1>1, <1>3, <2>2, <2>3
<1> QED BY <1>1, <1>2, <1>3

(* A product grows with its factor.                                        *)
LEMMA Grows ==
    ASSUME NEW d \in Nat, NEW a \in Nat, NEW b \in Nat, a <= b
    PROVE  d * a \in Nat /\ d * a <= d * b
<1>1. d * (b - a) >= 0 /\ d * (b - a) = d * b - d * a
  BY \A x, y \in Nat : x * y >= 0
<1> QED BY <1>1

(* A pulse sent in whole milliseconds is long enough exactly when its       *)
(* unrounded length reaches the threshold.                                 *)
LEMMA WholeMs ==
    ASSUME NEW p \in Nat, lag \in Nat
    PROVE  Threshold \in Nat /\ (p \div Unit >= lag <=> p >= Threshold)
<1>1. Unit \in Nat /\ Unit > 0
  BY TuneAssumption
<1>2. PICK q \in Nat, r \in Nat : q = p \div Unit /\ r < Unit /\ p = Unit * q + r
  BY <1>1, Division
<1>3. Threshold \in Nat
  BY <1>1, Grows DEF Threshold
<1>4. CASE q >= lag
  <2>1. Unit * lag <= Unit * q /\ Unit * q \in Nat
    BY <1>1, <1>4, Grows
  <2> QED BY <1>2, <1>3, <1>4, <2>1 DEF Threshold
<1>5. CASE q < lag
  <2>1. Unit * (q + 1) <= Unit * lag /\ Unit * q \in Nat
    BY <1>1, <1>5, Grows
  <2>2. Unit * (q + 1) = Unit * q + Unit
    BY <1>1
  <2> QED BY <1>1, <1>2, <1>3, <1>5, <2>1, <2>2 DEF Threshold
<1> QED BY <1>2, <1>4, <1>5

(* Rounding up to 10 ms adds less than 10 ms and does not leave the bounds. *)
LEMMA Rounding ==
    ASSUME NEW x \in Nat
    PROVE  /\ RoundToTen(x) \in Nat
           /\ x <= RoundToTen(x) /\ RoundToTen(x) < x + 10 * Unit
           /\ x <= LATENCY_MAX => RoundToTen(x) <= LATENCY_MAX
<1> DEFINE d == 10 * Unit
<1>1. d \in Nat /\ d > 0 /\ LATENCY_MAX \in Nat /\ LATENCY_MAX % d = 0
  BY TuneAssumption, LengthAssumption
<1>2. RoundToTen(x) = ((x + d - 1) \div d) * d
  BY DEF RoundToTen
<1> HIDE DEF d
<1>3. PICK q \in Nat, r \in Nat :
          q = (x + d - 1) \div d /\ r < d /\ x + d - 1 = d * q + r
  BY <1>1, Division
<1>4. PICK k \in Nat : LATENCY_MAX = d * k
  BY <1>1, Division
<1>5. d * q \in Nat /\ RoundToTen(x) = d * q
  BY <1>1, <1>2, <1>3, Grows
<1>6. x <= d * q /\ d * q < x + d
  BY <1>1, <1>3, <1>5
<1>7. ASSUME x <= LATENCY_MAX
      PROVE  d * q <= LATENCY_MAX
  <2>1. CASE q <= k
    BY <1>1, <1>4, <2>1, Grows
  <2>2. CASE k + 1 <= q
    <3>1. d * (k + 1) <= d * q /\ d * (k + 1) = d * k + d
      BY <1>1, <2>2, Grows
    <3> QED BY <1>1, <1>4, <1>5, <1>6, <1>7, <3>1
  <2> QED BY <2>1, <2>2
<1> QED BY <1>5, <1>6, <1>7 DEF d

-----------------------------------------------------------------------------
(* Types                                                                   *)

(* What a step leaves alone keeps its type.                                *)
LEMMA TypeFrames ==
    ASSUME TypeOK
    PROVE  /\ UNCHANGED search => SearchTypes'
           /\ UNCHANGED verify => VerifyTypes'
           /\ UNCHANGED <<lag, answer, active_pulse>> => AnswerTypes'
           /\ UNCHANGED <<ui, control, is_running, reason, motor, latency>> => ControlTypes'
<1>1. UNCHANGED search => SearchTypes'
  BY DEF TypeOK, SearchTypes, search
<1>2. UNCHANGED verify => VerifyTypes'
  BY DEF TypeOK, VerifyTypes, verify
<1>3. UNCHANGED <<lag, answer, active_pulse>> => AnswerTypes'
  BY DEF TypeOK, AnswerTypes, answer
<1>4. UNCHANGED <<ui, control, is_running, reason, motor, latency>> => ControlTypes'
  BY DEF TypeOK, ControlTypes, control
<1> QED BY <1>1, <1>2, <1>3, <1>4

(* The ways a handler ends keep the control variables typed.               *)
LEMMA ExitTypes ==
    ASSUME TypeOK
    PROVE  /\ \A r \in Reasons : Fail(r) => ControlTypes'
           /\ \A s \in SubPhases : SwitchSubPhase(s) /\ motor' \in {"off", "pulse", "done"}
                 => ControlTypes'
           /\ \A p \in Phases : SwitchPhase(p) /\ motor' = motor => ControlTypes'
           /\ \A d \in Nat : StartPulse(d) => ControlTypes' /\ active_pulse' = d
<1> USE DEF TypeOK, ControlTypes
<1>1. ASSUME NEW r \in Reasons, Fail(r) PROVE ControlTypes'
  BY <1>1 DEF Fail, CompleteWithFailure, Phases
<1>2. ASSUME NEW s \in SubPhases, SwitchSubPhase(s), motor' \in {"off", "pulse", "done"}
      PROVE  ControlTypes'
  BY <1>2 DEF SwitchSubPhase
<1>3. ASSUME NEW p \in Phases, SwitchPhase(p), motor' = motor PROVE ControlTypes'
  BY <1>3 DEF SwitchPhase, SubPhases
<1>4. ASSUME NEW d \in Nat, StartPulse(d) PROVE ControlTypes' /\ active_pulse' = d
  <2>1. "motor" \in Reasons /\ "PULSE_EXECUTE" \in SubPhases
    BY DEF Reasons, SubPhases, InFlight
  <2> QED BY <1>1, <1>2, <1>4, <2>1 DEF StartPulse
<1> QED BY <1>1, <1>2, <1>3, <1>4

(* What the search computes from the answer to a pulse.                    *)
LEMMA SearchValues ==
    ASSUME TypeOK
    PROVE  /\ NewSuccess \in Nat /\ NewFound \in BOOLEAN
           /\ NewStep \in Nat /\ NewStep <= step_size
           /\ NewPulse \in LATENCY_MIN..LATENCY_MAX
           /\ RoundToTen(NewSuccess) \in Nat
<1>1. NewSuccess \in Nat /\ NewFound \in BOOLEAN
  BY DEF TypeOK, SearchTypes, AnswerTypes, NewSuccess, NewFound
<1>2. NewStep \in Nat /\ NewStep <= step_size
  BY DEF TypeOK, SearchTypes, NewStep
<1>3. NewPulse \in LATENCY_MIN..LATENCY_MAX
  <2>1. \A x \in Int : Constrain(x) \in LATENCY_MIN..LATENCY_MAX
    BY TuneAssumption DEF Constrain
  <2> QED BY <1>2, <2>1 DEF TypeOK, SearchTypes, NewPulse
<1> QED BY <1>1, <1>2, <1>3, Rounding

(* An answer goes by the threshold, or counts as noise.                    *)
LEMMA AnswerFacts ==
    ASSUME TypeOK, Grounds
    PROVE  /\ last_pulse_success' \in BOOLEAN /\ noise' \in Nat
           /\ noise' = 0 => noise = 0 /\ last_pulse_success' = (active_pulse >= Threshold)
<1> DEFINE due == active_pulse \div Unit >= lag
<1>1. due <=> active_pulse >= Threshold
  BY WholeMs DEF TypeOK, AnswerTypes
<1>2. \/ last_pulse_success' = due /\ noise' = noise
      \/ last_pulse_success' = ~due /\ noise' = noise + 1
  BY DEF Grounds
<1> HIDE DEF due
<1>3. noise \in Nat /\ due \in BOOLEAN
  BY DEF TypeOK, AnswerTypes, due
<1>4. noise' \in Nat /\ (noise' = 0 => noise' = noise)
  BY <1>2, <1>3
<1>5. noise' # noise + 1 => last_pulse_success' = due
  BY <1>2
<1>6. noise' = 0 => noise' # noise + 1
  BY <1>3
<1>7. last_pulse_success' \in BOOLEAN
  BY <1>2, <1>3
<1> QED BY <1>1, <1>4, <1>5, <1>6, <1>7

LEMMA TypeStep ==
    ASSUME TypeOK, [Next]_vars
    PROVE  TypeOK'
<1> USE DEF TypeOK
<1>0. /\ PRIMING_PULSE \in Nat /\ LATENCY_MIN \in Nat /\ LATENCY_MAX \in Nat
      /\ TARGET_ACCURACY \in Nat /\ LATENCY_MIN <= LATENCY_MAX
  BY TuneAssumption
<1>1. CASE Begin
  <2>1. ControlTypes'
    BY <1>1 DEF Begin, ControlTypes, Phases, RunPhases, SubPhases
  <2>2. SearchTypes'
    <3>1. LATENCY_MAX - LATENCY_MIN \in Nat
      BY <1>0
    <3> QED BY <1>0, <1>1, <3>1 DEF Begin, SearchTypes
  <2>3. AnswerTypes' /\ VerifyTypes'
    BY <1>1 DEF Begin, AnswerTypes, VerifyTypes, NoEvidence
  <2> QED BY <2>1, <2>2, <2>3
<1>2. CASE Cancel \/ Ok \/ ExportBegins \/ ExportEnds \/ PulseDoneIsr
  <2>1. UNCHANGED <<lag, answer, active_pulse, search, verify>>
    BY <1>2 DEF Cancel, Ok, ExportBegins, ExportEnds, PulseDoneIsr
  <2>2. ControlTypes'
    BY <1>2 DEF Cancel, Ok, ExportBegins, ExportEnds, PulseDoneIsr, CompleteWithFailure,
                ControlTypes, control, Phases, Reasons
  <2> QED BY <2>1, <2>2, TypeFrames
<1>3. CASE Poll
  <2>1. UNCHANGED <<lag, answer, active_pulse, search, verify>>
    BY <1>3 DEF Poll, PulseExecute, MotorSettling, CollectionDelay, ScaleSettling
  <2>2. ControlTypes'
    <3>1. \E s \in SubPhases :
              \/ SwitchSubPhase(s) /\ motor' \in {motor, "off"}
              \/ Fail("settling")
      BY <1>3 DEF Poll, PulseExecute, MotorSettling, CollectionDelay, ScaleSettling,
                  SubPhases, InFlight
    <3>2. "settling" \in Reasons /\ motor \in {"off", "pulse", "done"}
      BY DEF Reasons, ControlTypes
    <3> QED BY <3>1, <3>2, ExitTypes
  <2> QED BY <2>1, <2>2, TypeFrames
<1>4. CASE PrimingStart \/ SearchStart
  <2>1. UNCHANGED <<lag, answer, search, verify>>
    BY <1>4 DEF PrimingStart, SearchStart
  <2>2. \/ \E d \in Nat : StartPulse(d)
        \/ Fail("iterations") /\ UNCHANGED active_pulse
    BY <1>0, <1>4 DEF PrimingStart, SearchStart, SearchTypes
  <2>3. "iterations" \in Reasons
    BY DEF Reasons
  <2>4. ControlTypes' /\ active_pulse' \in Nat
    BY <2>2, <2>3, ExitTypes DEF AnswerTypes
  <2> QED BY <2>1, <2>4, TypeFrames DEF AnswerTypes, answer
<1>5. CASE PrimingMeasure \/ PrimingTared
  <2>1. UNCHANGED <<lag, answer, active_pulse, search, verify>>
    BY <1>5 DEF PrimingMeasure, PrimingTared
  <2>2. /\ "priming" \in Reasons /\ "TARING" \in SubPhases /\ "BINARY_SEARCH" \in Phases
        /\ motor \in {"off", "pulse", "done"}
    BY DEF Reasons, SubPhases, Phases, RunPhases, ControlTypes
  <2>3. ControlTypes'
    BY <1>5, <2>2, ExitTypes DEF PrimingMeasure, PrimingTared
  <2> QED BY <2>1, <2>3, TypeFrames
<1>6. CASE SearchMeasure \/ VerifyMeasure
  <2>1. UNCHANGED <<lag, motor, active_pulse, search>>
    BY <1>6 DEF SearchMeasure, VerifyMeasure
  <2>2. noise' \in Nat /\ last_pulse_success' \in BOOLEAN
    BY <1>6, AnswerFacts DEF SearchMeasure, VerifyMeasure, AnswerTypes
  <2>3. VerifyTypes'
    <3>1. CASE SearchMeasure
      BY <3>1, TypeFrames DEF SearchMeasure
    <3>2. CASE VerifyMeasure
      BY <3>2 DEF VerifyMeasure, Observe, NoEvidence, VerifyTypes, AnswerTypes
    <3> QED BY <1>6, <3>1, <3>2
  <2>4. ControlTypes'
    <3>1. "IDLE" \in SubPhases /\ "RESULT_LOGGED" \in SubPhases /\ motor \in {"off", "pulse", "done"}
      BY DEF SubPhases, ControlTypes
    <3> QED BY <1>6, <2>1, <3>1, ExitTypes DEF SearchMeasure, VerifyMeasure
  <2> QED BY <2>1, <2>2, <2>3, <2>4, TypeFrames DEF AnswerTypes
<1>7. CASE SearchEnds
  <2>1. /\ last_success' \in Nat /\ found_lower_bound' \in BOOLEAN
        /\ step_size' \in Nat /\ direction' \in {"UP", "DOWN"}
        /\ current_pulse' \in Nat /\ candidate' \in Nat
    BY <1>0, <1>7, SearchValues DEF SearchEnds, SearchTypes, VerifyTypes
  <2>2. UNCHANGED <<lag, active_pulse, answer, iteration,
                    verification_round, pulse_count, success_count, evidence>>
    BY <1>7 DEF SearchEnds
  <2>3. "no_success" \in Reasons /\ "VERIFICATION" \in Phases
    BY DEF Reasons, Phases, RunPhases
  <2>4. ControlTypes'
    BY <1>7, <2>3, ExitTypes DEF SearchEnds
  <2>5. SearchTypes' /\ VerifyTypes'
    BY <2>1, <2>2 DEF SearchTypes, VerifyTypes
  <2> QED BY <2>2, <2>4, <2>5, TypeFrames
<1>8. CASE SearchMoves
  <2>1. SearchTypes'
    BY <1>0, <1>8, SearchValues DEF SearchMoves, NextIteration, SearchTypes
  <2>2. UNCHANGED <<lag, motor, active_pulse, answer, verify>>
    BY <1>8 DEF SearchMoves
  <2>3. "IDLE" \in SubPhases /\ motor \in {"off", "pulse", "done"}
    BY DEF SubPhases, ControlTypes
  <2> QED BY <1>8, <2>1, <2>2, <2>3, TypeFrames, ExitTypes DEF SearchMoves
<1>9. CASE VerifyPulse
  <2>1. UNCHANGED <<lag, answer, verify>> /\ SearchTypes'
    BY <1>9 DEF VerifyPulse, SearchTypes, VerifyTypes
  <2>2. ControlTypes' /\ active_pulse' \in Nat
    BY <1>9, ExitTypes DEF VerifyPulse, VerifyTypes
  <2> QED BY <2>1, <2>2, TypeFrames DEF AnswerTypes, answer
<1>10. CASE VerifyPassed
  <2>1. UNCHANGED <<lag, active_pulse, answer, search, verify>>
    BY <1>10 DEF VerifyPassed
  <2>2. ControlTypes'
    <3>1. CASE Fail("range")
      BY <3>1, ExitTypes DEF Reasons
    <3>2. CASE /\ latency' = candidate /\ candidate \in LATENCY_MIN..LATENCY_MAX
               /\ phase' = "COMPLETE_SUCCESS" /\ reason' = "none" /\ is_running' = FALSE
               /\ ui' = "RESULT" /\ UNCHANGED <<sub_phase, motor>>
      BY <3>2 DEF ControlTypes, Phases, Reasons
    <3> QED BY <1>10, <3>1, <3>2 DEF VerifyPassed, CompleteWithSuccess
  <2> QED BY <2>1, <2>2, TypeFrames
<1>11. CASE VerifyFailed
  <2>1. /\ UNCHANGED <<lag, answer, step_size, last_success, direction,
                       found_lower_bound, iteration, evidence>>
        /\ verification_round' \in Nat
    BY <1>11 DEF VerifyFailed, VerifyTypes
  <2>2. /\ candidate' \in Nat /\ current_pulse' \in Nat
        /\ pulse_count' \in Nat /\ success_count' \in Nat
    BY <1>0, <1>11 DEF VerifyFailed, VerifyTypes, SearchTypes
  <2>3. "rounds" \in Reasons /\ "maximum" \in Reasons
    BY DEF Reasons
  <2>4. ControlTypes' /\ active_pulse' \in Nat
    BY <1>11, <2>2, <2>3, ExitTypes DEF VerifyFailed, AnswerTypes
  <2>5. SearchTypes' /\ VerifyTypes'
    BY <2>1, <2>2 DEF SearchTypes, VerifyTypes
  <2> QED BY <2>1, <2>4, <2>5, TypeFrames DEF AnswerTypes, answer
<1>12. CASE UNCHANGED vars
  <2>1. UNCHANGED <<lag, answer, active_pulse, search, verify>>
        /\ UNCHANGED <<ui, control, is_running, reason, motor, latency>>
    BY <1>12 DEF vars
  <2> QED BY <2>1, TypeFrames
<1> QED
  BY <1>1, <1>2, <1>3, <1>4, <1>5, <1>6, <1>7, <1>8, <1>9, <1>10, <1>11, <1>12
     DEF Next, Update, Priming, Search, Verification

-----------------------------------------------------------------------------
(* The order of a pulse's sub-phases                                       *)

(* A run that ends takes its pulse with it.                                *)
LEMMA ExitFlow ==
    ASSUME FlowInv
    PROVE  /\ \A r \in Reasons : Fail(r) => FlowInv'
           /\ motor = "off" /\ CompleteWithSuccess(candidate) => FlowInv'
<1> USE DEF FlowInv, RunPhases
<1>1. ASSUME NEW r \in Reasons, Fail(r) PROVE FlowInv'
  BY <1>1 DEF Fail, CompleteWithFailure
<1>2. ASSUME motor = "off", CompleteWithSuccess(candidate) PROVE FlowInv'
  <2>1. CASE Fail("range")
    BY <2>1, <1>1 DEF Reasons
  <2>2. CASE /\ phase' = "COMPLETE_SUCCESS" /\ is_running' = FALSE
             /\ UNCHANGED <<sub_phase, motor>>
    BY <1>2, <2>2
  <2> QED BY <1>2, <2>1, <2>2 DEF CompleteWithSuccess
<1> QED BY <1>1, <1>2

LEMMA FlowStep ==
    ASSUME TypeOK, FlowInv, [Next]_vars
    PROVE  FlowInv'
<1> USE DEF RunPhases, At, Running
<1>1. CASE Begin
  BY <1>1 DEF FlowInv, Begin
<1>2. CASE Cancel
  BY <1>2 DEF FlowInv, Cancel, CompleteWithFailure
<1>3. CASE Ok \/ ExportBegins \/ ExportEnds
  BY <1>3 DEF FlowInv, Ok, ExportBegins, ExportEnds, control, search, verify
<1>4. CASE PulseDoneIsr
  BY <1>4 DEF FlowInv, PulseDoneIsr, control, search, verify
<1>5. CASE Poll
  <2>1. CASE Fail("settling")
    BY <2>1, ExitFlow DEF Reasons
  <2>2. CASE ~Fail("settling")
    BY <1>5, <2>2 DEF FlowInv, Poll, PulseExecute, MotorSettling, CollectionDelay, ScaleSettling,
                      SwitchSubPhase, search, verify
  <2> QED BY <2>1, <2>2
<1>6. CASE PrimingStart
  <2>1. CASE Fail("motor")
    BY <2>1, ExitFlow DEF Reasons
  <2>2. CASE ~Fail("motor")
    BY <1>6, <2>2 DEF FlowInv, PrimingStart, StartPulse, SwitchSubPhase
  <2> QED BY <2>1, <2>2
<1>7. CASE PrimingMeasure \/ PrimingTared
  <2>1. CASE Fail("priming")
    BY <2>1, ExitFlow DEF Reasons
  <2>2. CASE ~Fail("priming")
    BY <1>7, <2>2 DEF FlowInv, PrimingMeasure, PrimingTared, SwitchSubPhase, SwitchPhase
  <2> QED BY <2>1, <2>2
<1>8. CASE SearchStart
  <2>1. CASE Fail("motor") \/ Fail("iterations")
    BY <2>1, ExitFlow DEF Reasons
  <2>2. CASE ~(Fail("motor") \/ Fail("iterations"))
    BY <1>8, <2>2 DEF FlowInv, SearchStart, StartPulse, SwitchSubPhase, search
  <2> QED BY <2>1, <2>2
<1>9. CASE SearchMeasure
  BY <1>9 DEF FlowInv, SearchMeasure, SwitchSubPhase, search, verify
<1>10. CASE SearchEnds
  <2>1. CASE Fail("no_success")
    BY <2>1, ExitFlow DEF Reasons
  <2>2. CASE ~Fail("no_success")
    BY <1>10, <2>2 DEF FlowInv, SearchEnds, SwitchPhase
  <2> QED BY <2>1, <2>2
<1>11. CASE SearchMoves
  BY <1>11 DEF FlowInv, SearchMoves, SwitchSubPhase
<1>12. CASE VerifyPulse
  <2>1. CASE Fail("motor")
    BY <2>1, ExitFlow DEF Reasons
  <2>2. CASE ~Fail("motor")
    BY <1>12, <2>2 DEF FlowInv, VerifyPulse, StartPulse, SwitchSubPhase, verify
  <2> QED BY <2>1, <2>2
<1>13. CASE VerifyPassed
  BY <1>13, ExitFlow DEF FlowInv, VerifyPassed
<1>14. CASE VerifyFailed
  <2>1. CASE Fail("rounds") \/ Fail("maximum") \/ Fail("motor")
    BY <2>1, ExitFlow DEF Reasons
  <2>2. CASE ~(Fail("rounds") \/ Fail("maximum") \/ Fail("motor"))
    BY <1>14, <2>2 DEF FlowInv, VerifyFailed, StartPulse, SwitchSubPhase
  <2> QED BY <2>1, <2>2
<1>15. CASE VerifyMeasure
  BY <1>15 DEF FlowInv, VerifyMeasure, SwitchSubPhase
<1>16. CASE UNCHANGED vars
  BY <1>16 DEF FlowInv, vars, control, search, verify
<1> QED
  BY <1>1, <1>2, <1>3, <1>4, <1>5, <1>6, <1>7, <1>8, <1>9, <1>10, <1>11, <1>12, <1>13,
     <1>14, <1>15, <1>16
     DEF Next, Update, Priming, Search, Verification

-----------------------------------------------------------------------------
(* The bounds of the search and the count of a round                       *)

(* Constants and types in the form the arithmetic below uses.              *)
LEMMA Numbers ==
    ASSUME TypeOK
    PROVE  /\ LATENCY_MIN \in Nat /\ LATENCY_MAX \in Nat /\ TARGET_ACCURACY \in Nat
           /\ LATENCY_MIN > 0 /\ LATENCY_MIN <= LATENCY_MAX /\ TARGET_ACCURACY > 0
           /\ VERIFICATION_PULSES \in Nat /\ VERIFICATION_PULSES > 0
           /\ Unit \in Nat /\ Unit > 0 /\ MAX_ITERATIONS \in Nat
           /\ Range \in Nat /\ LATENCY_MAX = LATENCY_MIN + Range
           /\ Threshold \in Nat
           /\ current_pulse \in Nat /\ step_size \in Nat /\ last_success \in Nat
           /\ iteration \in Nat /\ active_pulse \in Nat /\ candidate \in Nat
           /\ pulse_count \in Nat /\ success_count \in Nat /\ verification_round \in Nat
           /\ direction \in {"UP", "DOWN"} /\ noise \in Nat
BY TuneAssumption, LengthAssumption, WholeMs
   DEF Range, TypeOK, SearchTypes, AnswerTypes, VerifyTypes

(* Where the next pulse lies when the last one worked, and when it did not. *)
LEMMA NextPulse ==
    ASSUME TypeOK
    PROVE  /\ NewStep \in Nat /\ NewStep <= step_size /\ step_size <= 2 * NewStep + 1
           /\ NewStep # step_size => 2 * NewStep <= step_size
           /\ last_pulse_success =>
                 /\ NewSuccess = current_pulse /\ NewFound = found_lower_bound
                 /\ direction = "DOWN" => NewStep = step_size
                 /\ direction = "UP" => 2 * NewStep <= step_size
                 /\ current_pulse <= LATENCY_MAX =>
                       NewPulse = IF current_pulse - NewStep < LATENCY_MIN
                                  THEN LATENCY_MIN ELSE current_pulse - NewStep
           /\ ~last_pulse_success =>
                 /\ NewSuccess = last_success /\ NewFound = TRUE
                 /\ direction = "UP" => NewStep = step_size
                 /\ direction = "DOWN" => 2 * NewStep <= step_size
                 /\ current_pulse >= LATENCY_MIN =>
                       NewPulse = IF current_pulse + NewStep > LATENCY_MAX
                                  THEN LATENCY_MAX ELSE current_pulse + NewStep
<1> USE Numbers
<1>1. /\ step_size \div 2 \in Nat /\ 2 * (step_size \div 2) <= step_size
      /\ step_size <= 2 * (step_size \div 2) + 1
  OBVIOUS
<1>2. CASE last_pulse_success
  <2>1. NewStep = IF direction = "UP" THEN step_size \div 2 ELSE step_size
    BY <1>2 DEF NewStep
  <2>2. NewPulse = Constrain(current_pulse - NewStep)
    BY <1>2 DEF NewPulse
  <2>3. NewSuccess = current_pulse /\ NewFound = found_lower_bound
    BY <1>2 DEF NewSuccess, NewFound, TypeOK, SearchTypes
  <2> QED BY <1>1, <1>2, <2>1, <2>2, <2>3 DEF Constrain
<1>3. CASE ~last_pulse_success
  <2>1. NewStep = IF direction = "DOWN" THEN step_size \div 2 ELSE step_size
    BY <1>3 DEF NewStep
  <2>2. NewPulse = Constrain(current_pulse + NewStep)
    BY <1>3 DEF NewPulse
  <2>3. NewSuccess = last_success /\ NewFound = TRUE
    BY <1>3 DEF NewSuccess, NewFound
  <2>4. /\ NewStep \in Nat /\ NewStep <= step_size /\ step_size <= 2 * NewStep + 1
        /\ NewStep # step_size => 2 * NewStep <= step_size
        /\ direction = "UP" => NewStep = step_size
        /\ direction = "DOWN" => 2 * NewStep <= step_size
    BY <1>1, <2>1
  <2>5. current_pulse >= LATENCY_MIN =>
            NewPulse = IF current_pulse + NewStep > LATENCY_MAX
                       THEN LATENCY_MAX ELSE current_pulse + NewStep
    BY <2>2, <2>4 DEF Constrain
  <2> QED BY <1>3, <2>3, <2>4, <2>5
<1> QED BY <1>2, <1>3

(* A search that goes on stays within its bounds.                          *)
LEMMA MovesInv ==
    ASSUME TypeOK, FlowInv, SearchInv, SearchMoves
    PROVE  SearchInv'
<1> USE Numbers
<1>1. /\ Searching /\ phase' = phase
      /\ UNCHANGED <<verification_round, pulse_count, success_count, evidence>>
  BY DEF SearchMoves, At, Searching, verify, SwitchSubPhase
<1>2. /\ last_success' = NewSuccess /\ found_lower_bound' = NewFound
      /\ step_size' = NewStep /\ current_pulse' = NewPulse /\ iteration' = iteration + 1
      /\ direction' = IF last_pulse_success THEN "DOWN" ELSE "UP"
      /\ ~HitLowerBound /\ ~Resolved
  BY DEF SearchMoves, NextIteration
<1>3. NewPulse \in LATENCY_MIN..LATENCY_MAX /\ NewStep <= Range /\ NewStep \in Nat
  BY <1>1, NextPulse, SearchValues DEF SearchInv
<1>4. last_success' \in {0} \union LATENCY_MIN..LATENCY_MAX
  BY <1>1, <1>2, NextPulse DEF SearchInv
<1>5. direction' = "DOWN" => last_success' <= current_pulse' + step_size'
  BY <1>1, <1>2, NextPulse DEF SearchInv
<1>6. direction' = "UP" => last_success' <= current_pulse' + step_size' + 1
  <2> SUFFICES ASSUME direction' = "UP"
               PROVE  last_success' <= current_pulse' + step_size' + 1
    OBVIOUS
  <2>0. ~last_pulse_success
    BY <1>2
  <2>1. ~last_pulse_success /\ last_success' = last_success /\ last_success <= LATENCY_MAX
    BY <1>1, <1>2, <2>0, NextPulse DEF SearchInv
  <2>2. current_pulse' = LATENCY_MAX \/ current_pulse' = current_pulse + NewStep
    BY <1>1, <1>2, <2>1, NextPulse DEF SearchInv
  <2>3. CASE direction = "UP"
    BY <1>1, <1>2, <2>1, <2>2, <2>3, NextPulse DEF SearchInv
  <2>4. CASE direction = "DOWN"
    <3>1. last_success = 0 \/ last_success <= current_pulse + step_size
      BY <1>1, <2>4 DEF SearchInv
    <3> QED BY <1>2, <2>1, <2>2, <3>1, NextPulse
  <2> QED BY <2>3, <2>4
<1>7. ASSUME ~found_lower_bound'
      PROVE  /\ direction' = "DOWN" /\ step_size' = Range
             /\ last_success' = LATENCY_MAX /\ current_pulse' = LATENCY_MIN /\ iteration' = 1
  <2>1. last_pulse_success /\ ~found_lower_bound
    BY ONLY <1>2, <1>7 DEF NewFound
  <2>2. direction = "DOWN" /\ step_size = Range /\ NewSuccess = current_pulse /\ NewStep = Range
    BY <1>1, <2>1, NextPulse DEF SearchInv
  <2>3. NewPulse = LATENCY_MIN
    BY <1>1, <2>1, <2>2, NextPulse DEF SearchInv
  <2>4. CASE last_success = 0 /\ current_pulse = LATENCY_MAX /\ iteration = 0
    BY <1>2, <2>1, <2>2, <2>3, <2>4
  <2>5. CASE last_success = LATENCY_MAX /\ current_pulse = LATENCY_MIN /\ iteration = 1
    <3>1. HitLowerBound
      BY <2>1, <2>2, <2>3, <2>5, NextPulse DEF HitLowerBound
    <3> QED BY <1>2, <3>1
  <2> QED BY <1>1, <2>1, <2>4, <2>5 DEF SearchInv
<1>8. /\ current_pulse' \in LATENCY_MIN..LATENCY_MAX /\ step_size' <= Range
      /\ verification_round' = 0 /\ pulse_count' = 0 /\ success_count' = 0
      /\ evidence' = NoEvidence
  BY <1>1, <1>2, <1>3 DEF SearchInv
<1> QED BY <1>4, <1>5, <1>6, <1>7, <1>8 DEF SearchInv

(* What a search finds is a latency that can be saved.                     *)
LEMMA EndsValues ==
    ASSUME TypeOK, FlowInv, SearchInv, SearchEnds
    PROVE  /\ current_pulse' \in {0} \union LATENCY_MIN..LATENCY_MAX
           /\ NewSuccess # 0 => RoundToTen(NewSuccess) \in LATENCY_MIN..LATENCY_MAX
<1> USE Numbers
<1>1. Searching
  BY DEF SearchEnds, At, Searching
<1>2. NewSuccess \in {0} \union LATENCY_MIN..LATENCY_MAX
  BY <1>1, NextPulse DEF SearchInv
<1>3. NewSuccess # 0 => RoundToTen(NewSuccess) \in LATENCY_MIN..LATENCY_MAX
  BY <1>2, Rounding
<1>4. NewPulse \in LATENCY_MIN..LATENCY_MAX
  BY SearchValues
<1> QED BY <1>1, <1>3, <1>4 DEF SearchEnds, SearchInv

(* A step that leaves the search and the count alone.                      *)
LEMMA QuietBounds ==
    ASSUME SearchInv, VerifyInv, UNCHANGED <<search, verify>>,
           phase' # phase => phase' \notin {"PRIMING", "VERIFICATION"}
                             /\ (phase' = "BINARY_SEARCH" => phase = "PRIMING"),
           phase' = "VERIFICATION" /\ sub_phase' # "IDLE" =>
               sub_phase # "IDLE" \/ pulse_count < VERIFICATION_PULSES
    PROVE  SearchInv' /\ VerifyInv'
<1>1. UNCHANGED <<current_pulse, step_size, last_success, direction, found_lower_bound,
                  iteration, verification_round, pulse_count, success_count, candidate,
                  evidence>>
  BY DEF search, verify
<1>2. (Searching' => Searching) /\ (phase' = "VERIFICATION" => phase = "VERIFICATION")
  BY DEF Searching
<1>3. SearchInv'
  BY <1>1, <1>2 DEF SearchInv
<1>4. VerifyInv'
  BY <1>1, <1>2 DEF VerifyInv
<1> QED BY <1>3, <1>4

(* A run that fails keeps its bounds whatever it last tried.               *)
LEMMA FailBounds ==
    ASSUME current_pulse' \in {0} \union LATENCY_MIN..LATENCY_MAX, NEW r, Fail(r)
    PROVE  SearchInv' /\ VerifyInv'
BY DEF SearchInv, VerifyInv, Searching, Fail, CompleteWithFailure

LEMMA BoundsStep ==
    ASSUME TypeOK, FlowInv, SearchInv, VerifyInv, [Next]_vars
    PROVE  SearchInv' /\ VerifyInv'
<1> USE Numbers DEF At, Running
<1>1. CASE Begin
  <2>1. /\ phase' = "PRIMING" /\ current_pulse' = LATENCY_MAX /\ step_size' = Range
        /\ last_success' = 0 /\ direction' = "DOWN" /\ found_lower_bound' = FALSE
        /\ iteration' = 0 /\ verification_round' = 0 /\ pulse_count' = 0 /\ success_count' = 0
        /\ evidence' = NoEvidence
    BY <1>1 DEF Begin, Range
  <2> QED BY <2>1 DEF SearchInv, VerifyInv, Searching
<1>2. CASE Cancel \/ Ok \/ ExportBegins \/ ExportEnds \/ PulseDoneIsr
  <2>1. UNCHANGED <<search, verify>>
    BY <1>2 DEF Cancel, Ok, ExportBegins, ExportEnds, PulseDoneIsr
  <2>2. UNCHANGED <<phase, sub_phase>> \/ phase' = "COMPLETE_FAILURE"
    BY <1>2 DEF Cancel, CompleteWithFailure, Ok, ExportBegins, ExportEnds, PulseDoneIsr, control
  <2> QED BY <2>1, <2>2, QuietBounds
<1>3. CASE Poll \/ PrimingStart \/ PrimingMeasure \/ PrimingTared \/ SearchStart \/ SearchMeasure
  <2>1. UNCHANGED <<search, verify>>
    BY <1>3 DEF Poll, PulseExecute, MotorSettling, CollectionDelay, ScaleSettling,
                PrimingStart, PrimingMeasure, PrimingTared, SearchStart, SearchMeasure
  <2>2. \/ phase' = "COMPLETE_FAILURE"
        \/ phase' = phase /\ (phase = "VERIFICATION" => sub_phase # "IDLE")
        \/ phase = "PRIMING" /\ phase' = "BINARY_SEARCH"
    BY <1>3 DEF Poll, PulseExecute, MotorSettling, CollectionDelay, ScaleSettling,
                PrimingStart, PrimingMeasure, PrimingTared, SearchStart, SearchMeasure,
                StartPulse, SwitchSubPhase, SwitchPhase, Fail, CompleteWithFailure
  <2> QED BY <2>1, <2>2, QuietBounds
<1>4. CASE SearchEnds
  <2>1. CASE NewSuccess = 0
    BY <1>4, <2>1, EndsValues, FailBounds DEF SearchEnds
  <2>2. CASE NewSuccess # 0
    <3>1. /\ phase' = "VERIFICATION" /\ sub_phase' = "IDLE"
          /\ candidate' = RoundToTen(NewSuccess)
          /\ UNCHANGED <<pulse_count, success_count, evidence>>
      BY <1>4, <2>2 DEF SearchEnds, SwitchPhase
    <3>2. candidate' \in LATENCY_MIN..LATENCY_MAX
      BY <1>4, <2>2, <3>1, EndsValues
    <3>3. pulse_count = 0 /\ success_count = 0 /\ evidence = NoEvidence
      BY <1>4 DEF SearchEnds, SearchInv, Searching
    <3>4. VerifyInv'
      BY <3>1, <3>2, <3>3 DEF VerifyInv, NoEvidence
    <3>5. SearchInv'
      BY <1>4, <3>1, EndsValues DEF SearchInv, Searching
    <3> QED BY <3>4, <3>5
  <2> QED BY <2>1, <2>2
<1>5. CASE SearchMoves
  <2>1. phase' # "VERIFICATION"
    BY <1>5 DEF SearchMoves, SwitchSubPhase
  <2> QED BY <1>5, <2>1, MovesInv DEF VerifyInv
<1>6. CASE VerifyPulse
  <2>1. /\ phase = "VERIFICATION" /\ pulse_count < VERIFICATION_PULSES
        /\ current_pulse' = candidate /\ UNCHANGED verify
    BY <1>6 DEF VerifyPulse, RoundOver
  <2>2. current_pulse' \in LATENCY_MIN..LATENCY_MAX
    BY <2>1 DEF VerifyInv
  <2>3. CASE Fail("motor")
    BY <2>2, <2>3, FailBounds
  <2>4. CASE phase' = phase
    BY <2>1, <2>2, <2>4 DEF SearchInv, VerifyInv, Searching, verify
  <2> QED BY <1>6, <2>3, <2>4 DEF VerifyPulse, StartPulse, SwitchSubPhase
<1>7. CASE VerifyPassed
  <2>1. phase' \in {"COMPLETE_SUCCESS", "COMPLETE_FAILURE"} /\ UNCHANGED <<search, verify>>
    BY <1>7 DEF VerifyPassed, CompleteWithSuccess, Fail, CompleteWithFailure
  <2> QED BY <2>1, QuietBounds
<1>8. CASE VerifyFailed
  <2>1. phase = "VERIFICATION" /\ candidate \in LATENCY_MIN..LATENCY_MAX /\ UNCHANGED evidence
    BY <1>8 DEF VerifyFailed, VerifyInv
  <2>2. CASE /\ Fail(IF verification_round' >= VERIFICATION_ROUNDS THEN "rounds" ELSE "maximum")
             /\ UNCHANGED current_pulse
    <3>1. current_pulse' \in {0} \union LATENCY_MIN..LATENCY_MAX
      BY <2>2 DEF SearchInv
    <3> QED BY <2>2, <3>1, FailBounds
  <2>3. CASE /\ candidate + TARGET_ACCURACY <= LATENCY_MAX
             /\ candidate' = candidate + TARGET_ACCURACY /\ current_pulse' = candidate'
             /\ pulse_count' = 0 /\ success_count' = 0
             /\ StartPulse(candidate')
    <3>1. candidate' \in LATENCY_MIN..LATENCY_MAX /\ candidate' > candidate
      BY <2>1, <2>3
    <3>2. CASE Fail("motor")
      BY <2>3, <3>1, <3>2, FailBounds
    <3>3. CASE phase' = phase
      <4>1. evidence.pulse < candidate'
        BY <2>1, <3>1 DEF VerifyInv, TypeOK, VerifyTypes
      <4> QED BY <2>1, <2>3, <3>1, <3>3, <4>1 DEF SearchInv, VerifyInv, Searching
    <3> QED BY <2>3, <3>2, <3>3 DEF StartPulse, SwitchSubPhase
  <2> QED BY <1>8, <2>2, <2>3 DEF VerifyFailed
<1>9. CASE VerifyMeasure
  <2>1. /\ phase = "VERIFICATION" /\ phase' = phase /\ sub_phase' = "IDLE"
        /\ sub_phase # "IDLE"
        /\ UNCHANGED <<search, candidate>>
        /\ pulse_count' = pulse_count + 1
        /\ success_count' = success_count + (IF last_pulse_success' THEN 1 ELSE 0)
        /\ Observe(last_pulse_success') /\ active_pulse = candidate
    BY <1>9 DEF VerifyMeasure, SwitchSubPhase, FlowInv
  <2>2. SearchInv'
    BY <2>1 DEF SearchInv, Searching, search
  <2>3. /\ candidate \in LATENCY_MIN..LATENCY_MAX /\ pulse_count < VERIFICATION_PULSES
        /\ \/ evidence = [pulse |-> candidate, tried |-> pulse_count, worked |-> success_count]
           \/ pulse_count = 0 /\ success_count = 0 /\ evidence.pulse < candidate
    BY <2>1 DEF VerifyInv
  <2>4. evidence' = [pulse |-> candidate, tried |-> pulse_count', worked |-> success_count']
    <3>1. CASE evidence = [pulse |-> candidate, tried |-> pulse_count, worked |-> success_count]
      BY <2>1, <3>1 DEF Observe
    <3>2. CASE pulse_count = 0 /\ success_count = 0 /\ evidence.pulse < candidate
      <4>1. evidence.pulse # candidate
        BY <3>2 DEF TypeOK, VerifyTypes
      <4> QED BY <2>1, <3>2, <4>1 DEF Observe, NoEvidence
    <3> QED BY <2>3, <3>1, <3>2
  <2> QED BY <2>1, <2>2, <2>3, <2>4 DEF VerifyInv
<1>10. CASE UNCHANGED vars
  BY <1>10, QuietBounds DEF vars, control
<1> QED
  BY <1>1, <1>2, <1>3, <1>4, <1>5, <1>6, <1>7, <1>8, <1>9, <1>10
     DEF Next, Update, Priming, Search, Verification

-----------------------------------------------------------------------------
(* The search without noise                                                *)

(* A step that leaves the grinder, the search and the count alone.         *)
LEMMA QuietLag ==
    ASSUME LagInv, UNCHANGED <<lag, noise, search, verify>>,
           phase' # phase => phase' \notin {"PRIMING", "VERIFICATION"}
                             /\ (phase' = "BINARY_SEARCH" => phase = "PRIMING"),
           phase' = "BINARY_SEARCH" /\ sub_phase' = "RESULT_LOGGED" =>
               UNCHANGED <<phase, sub_phase, last_pulse_success>>
    PROVE  LagInv'
<1>1. UNCHANGED <<lag, noise, current_pulse, step_size, last_success, direction,
                  found_lower_bound, iteration, verification_round, candidate>>
  BY DEF search, verify
<1>2. (Searching' => Searching) /\ (phase' = "VERIFICATION" => phase = "VERIFICATION")
  BY DEF Searching
<1>3. Threshold' = Threshold /\ RoundToTen(LATENCY_MIN)' = RoundToTen(LATENCY_MIN)
  BY <1>1 DEF Threshold, RoundToTen
<1> QED BY <1>1, <1>2, <1>3 DEF LagInv

(* A run that is over claims nothing of the search.                        *)
LEMMA OverLag ==
    ASSUME phase' \notin RunPhases
    PROVE  LagInv'
BY DEF LagInv, Searching, RunPhases

(* What worked is above the threshold, and the next pulse within a step of *)
(* it once one has failed.                                                 *)
LEMMA MovesLag ==
    ASSUME TypeOK, SearchInv, LagInv, SearchMoves
    PROVE  LagInv'
<1> USE Numbers
<1>1. /\ Searching /\ phase = "BINARY_SEARCH" /\ sub_phase = "RESULT_LOGGED"
      /\ phase' = phase /\ sub_phase' = "IDLE" /\ lag' = lag /\ noise' = noise
      /\ Threshold' = Threshold
  BY DEF SearchMoves, At, Searching, SwitchSubPhase, answer, Threshold
<1>2. /\ last_success' = NewSuccess /\ found_lower_bound' = NewFound
      /\ step_size' = NewStep /\ current_pulse' = NewPulse
      /\ direction' = IF last_pulse_success THEN "DOWN" ELSE "UP"
  BY DEF SearchMoves
<1> SUFFICES ASSUME noise = 0
             PROVE  /\ last_success' = 0 \/ last_success' >= Threshold
                    /\ found_lower_bound' =>
                          /\ LATENCY_MIN < Threshold
                          /\ direction' = "DOWN" => current_pulse' <= Threshold + step_size'
                          /\ direction' = "UP" => current_pulse' < Threshold + step_size'
  BY <1>1 DEF LagInv, Searching
<1>3. last_pulse_success <=> current_pulse >= Threshold
  BY <1>1 DEF LagInv
<1>4. last_success = 0 \/ last_success >= Threshold
  BY <1>1 DEF LagInv
<1>5. found_lower_bound =>
          /\ LATENCY_MIN < Threshold
          /\ direction = "DOWN" => current_pulse <= Threshold + step_size
          /\ direction = "UP" => current_pulse < Threshold + step_size
  BY <1>1 DEF LagInv
<1>6. current_pulse \in LATENCY_MIN..LATENCY_MAX
  BY <1>1 DEF SearchInv
<1>7. CASE last_pulse_success
  <2>1. /\ last_success' = current_pulse /\ found_lower_bound' = found_lower_bound
        /\ direction' = "DOWN" /\ current_pulse >= Threshold
        /\ direction = "DOWN" => NewStep = step_size
        /\ direction = "UP" => step_size <= 2 * NewStep + 1
        /\ current_pulse' = IF current_pulse - NewStep < LATENCY_MIN
                            THEN LATENCY_MIN ELSE current_pulse - NewStep
    BY <1>2, <1>3, <1>6, <1>7, NextPulse
  <2>2. ASSUME found_lower_bound
        PROVE  current_pulse' <= Threshold + NewStep
    BY <1>5, <2>1, <2>2, NextPulse
  <2> QED BY <1>2, <1>5, <2>1, <2>2
<1>8. CASE ~last_pulse_success
  <2>1. /\ last_success' = last_success /\ direction' = "UP" /\ current_pulse < Threshold
        /\ current_pulse' = IF current_pulse + NewStep > LATENCY_MAX
                            THEN LATENCY_MAX ELSE current_pulse + NewStep
    BY <1>2, <1>3, <1>6, <1>8, NextPulse
  <2> QED BY <1>2, <1>4, <1>6, <2>1, NextPulse
<1> QED BY <1>7, <1>8

(* Where the search ends, the latency found is within the accuracy and the  *)
(* rounding of the threshold, or is the shortest there is.                 *)
LEMMA EndsLag ==
    ASSUME TypeOK, SearchInv, LagInv, SearchEnds, noise = 0, NewSuccess # 0
    PROVE  /\ Threshold <= RoundToTen(NewSuccess)
           /\ \/ RoundToTen(NewSuccess) < Threshold + TARGET_ACCURACY + 10 * Unit
              \/ RoundToTen(NewSuccess) = RoundToTen(LATENCY_MIN)
<1> USE Numbers
<1>1. /\ Searching /\ phase = "BINARY_SEARCH" /\ sub_phase = "RESULT_LOGGED"
      /\ Resolved \/ HitLowerBound
  BY DEF SearchEnds, At, Searching
<1>2. last_pulse_success <=> current_pulse >= Threshold
  BY <1>1 DEF LagInv
<1>3. last_success = 0 \/ last_success >= Threshold
  BY <1>1 DEF LagInv
<1>4. found_lower_bound =>
          /\ LATENCY_MIN < Threshold
          /\ direction = "DOWN" => current_pulse <= Threshold + step_size
          /\ direction = "UP" => current_pulse < Threshold + step_size
  BY <1>1 DEF LagInv
<1>5. /\ current_pulse \in LATENCY_MIN..LATENCY_MAX
      /\ last_success \in {0} \union LATENCY_MIN..LATENCY_MAX
      /\ step_size <= Range
      /\ direction = "DOWN" /\ last_success # 0 => last_success <= current_pulse + step_size
      /\ direction = "UP" => last_success <= current_pulse + step_size + 1
  BY <1>1 DEF SearchInv
<1>6. NewSuccess \in Nat /\ Threshold <= NewSuccess
  BY <1>2, <1>3, NextPulse
<1>7. NewSuccess <= Threshold + TARGET_ACCURACY \/ NewSuccess = LATENCY_MIN
  <2>1. CASE last_pulse_success /\ Resolved
    <3>1. found_lower_bound /\ step_size <= TARGET_ACCURACY /\ NewSuccess = current_pulse
      BY <2>1, NextPulse DEF Resolved
    <3> QED BY <1>4, <3>1
  <2>2. CASE ~last_pulse_success /\ Resolved
    <3>1. step_size <= TARGET_ACCURACY /\ NewSuccess = last_success /\ current_pulse < Threshold
      BY <1>2, <2>2, NextPulse DEF Resolved
    <3> QED BY <1>5, <3>1
  <2>3. CASE last_pulse_success /\ HitLowerBound
    <3>1. /\ NewSuccess = current_pulse /\ NewFound = found_lower_bound
          /\ NewPulse = IF current_pulse - NewStep < LATENCY_MIN
                        THEN LATENCY_MIN ELSE current_pulse - NewStep
      BY <1>5, <2>3, NextPulse
    <3>2. CASE found_lower_bound
      <4>1. NewStep <= TARGET_ACCURACY /\ NewPulse <= LATENCY_MIN
        BY <2>3, <3>1, <3>2, NextPulse DEF HitLowerBound
      <4>2. current_pulse <= LATENCY_MIN + NewStep
        BY <3>1, <4>1, NextPulse
      <4> QED BY <1>4, <3>1, <3>2, <4>1, <4>2, NextPulse
    <3>3. CASE ~found_lower_bound
      <4>1. NewSuccess \in 1..LATENCY_MIN
        BY <2>3, <3>1, <3>3 DEF HitLowerBound
      <4> QED BY <1>5, <3>1, <4>1
    <3> QED BY <3>2, <3>3
  <2>4. CASE ~last_pulse_success /\ HitLowerBound
    <3>1. /\ NewSuccess = last_success /\ current_pulse < Threshold
          /\ NewPulse = IF current_pulse + NewStep > LATENCY_MAX
                        THEN LATENCY_MAX ELSE current_pulse + NewStep
      BY <1>2, <1>5, <2>4, NextPulse
    <3>2. NewPulse <= LATENCY_MIN
      BY <2>4 DEF HitLowerBound
    <3>3. current_pulse = LATENCY_MIN /\ (NewStep = 0 \/ LATENCY_MAX = LATENCY_MIN)
      BY <1>5, <3>1, <3>2, NextPulse
    <3>4. CASE LATENCY_MAX = LATENCY_MIN
      BY <1>5, <3>1, <3>4, NextPulse
    <3>5. CASE NewStep = 0
      <4>1. step_size <= 1 /\ (direction = "UP" => step_size = 0)
        BY <2>4, <3>5, NextPulse
      <4> QED BY <1>5, <3>1, <4>1
    <3> QED BY <3>3, <3>4, <3>5
  <2> QED BY <1>1, <2>1, <2>2, <2>3, <2>4
<1>8. NewSuccess <= RoundToTen(NewSuccess) /\ RoundToTen(NewSuccess) < NewSuccess + 10 * Unit
  BY <1>6, Rounding
<1>9. RoundToTen(NewSuccess) \in Nat
  BY <1>6, Rounding
<1>10. CASE NewSuccess = LATENCY_MIN
  BY <1>6, <1>8, <1>9, <1>10
<1>11. CASE NewSuccess <= Threshold + TARGET_ACCURACY
  BY <1>6, <1>8, <1>9, <1>11
<1> QED BY <1>7, <1>10, <1>11

LEMMA LagStep ==
    ASSUME TypeOK, FlowInv, SearchInv, VerifyInv, LagInv, [Next]_vars
    PROVE  LagInv'
<1> USE Numbers DEF At, Running
<1>1. CASE Begin
  <2>1. phase' = "PRIMING" /\ last_success' = 0 /\ found_lower_bound' = FALSE
    BY <1>1 DEF Begin
  <2> QED BY <2>1 DEF LagInv
<1>2. CASE Cancel \/ VerifyPassed
  <2>1. phase' \in {"COMPLETE_SUCCESS", "COMPLETE_FAILURE"}
    BY <1>2 DEF Cancel, VerifyPassed, CompleteWithSuccess, Fail, CompleteWithFailure
  <2> QED BY <2>1, OverLag DEF RunPhases
<1>3. CASE Ok \/ ExportBegins \/ ExportEnds \/ PulseDoneIsr
  <2>1. UNCHANGED <<lag, noise, search, verify, phase, sub_phase, last_pulse_success>>
    BY <1>3 DEF Ok, ExportBegins, ExportEnds, PulseDoneIsr, control, answer
  <2> QED BY <2>1, QuietLag
<1>4. CASE Poll \/ PrimingStart \/ PrimingMeasure \/ PrimingTared \/ SearchStart
  <2>1. UNCHANGED <<lag, noise, search, verify>>
    BY <1>4 DEF Poll, PulseExecute, MotorSettling, CollectionDelay, ScaleSettling,
                PrimingStart, PrimingMeasure, PrimingTared, SearchStart, answer
  <2>2. \/ phase' = "COMPLETE_FAILURE"
        \/ phase' = phase /\ sub_phase' # "RESULT_LOGGED"
        \/ phase = "PRIMING" /\ phase' = "BINARY_SEARCH" /\ sub_phase' # "RESULT_LOGGED"
    BY <1>4 DEF Poll, PulseExecute, MotorSettling, CollectionDelay, ScaleSettling,
                PrimingStart, PrimingMeasure, PrimingTared, SearchStart,
                StartPulse, SwitchSubPhase, SwitchPhase, Fail, CompleteWithFailure
  <2> QED BY <2>1, <2>2, QuietLag, OverLag DEF RunPhases
<1>5. CASE SearchMeasure
  <2>1. /\ phase = "BINARY_SEARCH" /\ phase' = phase /\ UNCHANGED <<lag, search, verify>>
        /\ active_pulse = current_pulse /\ Grounds
    BY <1>5 DEF SearchMeasure, SwitchSubPhase, FlowInv
  <2>2. noise' = 0 => noise = 0 /\ last_pulse_success' = (current_pulse >= Threshold)
    BY <2>1, AnswerFacts
  <2>3. UNCHANGED <<current_pulse, last_success, found_lower_bound, direction, step_size>>
        /\ Threshold' = Threshold /\ Searching
    BY <2>1 DEF search, Threshold, Searching
  <2>4. ASSUME noise = 0
        PROVE  /\ last_success = 0 \/ last_success >= Threshold
               /\ found_lower_bound =>
                    /\ LATENCY_MIN < Threshold
                    /\ direction = "DOWN" => current_pulse <= Threshold + step_size
                    /\ direction = "UP" => current_pulse < Threshold + step_size
    BY <2>3, <2>4 DEF LagInv
  <2> QED BY <2>1, <2>2, <2>3, <2>4 DEF LagInv
<1>6. CASE SearchEnds
  <2>1. CASE NewSuccess = 0
    BY <1>6, <2>1, OverLag DEF SearchEnds, Fail, CompleteWithFailure, RunPhases
  <2>2. CASE NewSuccess # 0
    <3>1. /\ phase' = "VERIFICATION" /\ candidate' = RoundToTen(NewSuccess)
          /\ lag' = lag /\ noise' = noise
      BY <1>6, <2>2 DEF SearchEnds, SwitchPhase, answer
    <3>2. Threshold' = Threshold /\ RoundToTen(LATENCY_MIN)' = RoundToTen(LATENCY_MIN)
      BY <3>1 DEF Threshold, RoundToTen
    <3>3. noise = 0 =>
              /\ Threshold <= candidate'
              /\ \/ candidate' < Threshold + TARGET_ACCURACY + 10 * Unit
                 \/ candidate' = RoundToTen(LATENCY_MIN)
      BY <1>6, <2>2, <3>1, EndsLag
    <3> QED BY <3>1, <3>2, <3>3 DEF LagInv, Searching
  <2> QED BY <2>1, <2>2
<1>7. CASE SearchMoves
  BY <1>7, MovesLag
<1>8. CASE VerifyPulse
  <2>1. UNCHANGED <<lag, noise, verify>>
    BY <1>8 DEF VerifyPulse, answer
  <2>2. phase = "VERIFICATION" /\ phase' \in {"VERIFICATION", "COMPLETE_FAILURE"}
    BY <1>8 DEF VerifyPulse, StartPulse, SwitchSubPhase, Fail, CompleteWithFailure
  <2>3. Threshold' = Threshold /\ RoundToTen(LATENCY_MIN)' = RoundToTen(LATENCY_MIN)
    BY <2>1 DEF Threshold, RoundToTen
  <2>4. UNCHANGED <<verification_round, candidate>>
    BY <2>1 DEF verify
  <2> QED BY <2>1, <2>2, <2>3, <2>4 DEF LagInv, Searching
<1>9. CASE VerifyFailed
  <2>1. /\ phase = "VERIFICATION" /\ verification_round' = verification_round + 1
        /\ UNCHANGED <<lag, noise>>
        /\ phase' \in {"VERIFICATION", "COMPLETE_FAILURE"}
        /\ phase' = "VERIFICATION" => candidate' = candidate + TARGET_ACCURACY
    BY <1>9 DEF VerifyFailed, StartPulse, SwitchSubPhase, Fail, CompleteWithFailure, answer
  <2>2. Threshold' = Threshold
    BY <2>1 DEF Threshold
  <2>3. noise = 0 => Threshold <= candidate
    BY <2>1 DEF LagInv
  <2>4. phase' = "VERIFICATION" /\ noise = 0 => Threshold <= candidate'
    BY <2>1, <2>3
  <2>5. verification_round' # 0
    BY <2>1
  <2> QED BY <2>1, <2>2, <2>4, <2>5 DEF LagInv, Searching
<1>10. CASE VerifyMeasure
  <2>1. /\ phase = "VERIFICATION" /\ phase' = phase
        /\ UNCHANGED <<lag, candidate, verification_round>> /\ Grounds
    BY <1>10 DEF VerifyMeasure, SwitchSubPhase
  <2>2. noise' = 0 => noise = 0
    BY <2>1, AnswerFacts
  <2>3. Threshold' = Threshold /\ RoundToTen(LATENCY_MIN)' = RoundToTen(LATENCY_MIN)
    BY <2>1 DEF Threshold, RoundToTen
  <2> QED BY <2>1, <2>2, <2>3 DEF LagInv, Searching
<1>11. CASE UNCHANGED vars
  BY <1>11, QuietLag DEF vars, control, answer
<1> QED
  BY <1>1, <1>2, <1>3, <1>4, <1>5, <1>6, <1>7, <1>8, <1>9, <1>10, <1>11
     DEF Next, Update, Priming, Search, Verification

-----------------------------------------------------------------------------
(* A steady grinder                                                        *)

LEMMA QuietSteady ==
    ASSUME SteadyInv, UNCHANGED <<lag, noise, search, verify>>,
           phase' # phase => phase' \notin {"PRIMING", "VERIFICATION"}
                             /\ (phase' = "BINARY_SEARCH" => phase = "PRIMING"),
           phase' = "COMPLETE_FAILURE" =>
               \/ phase = "COMPLETE_FAILURE" /\ reason' = reason
               \/ reason' \in {"cancelled", "motor", "settling", "priming"}
    PROVE  SteadyInv'
<1>1. UNCHANGED <<lag, noise, current_pulse, step_size, last_success, direction,
                  found_lower_bound, iteration, success_count, pulse_count>>
  BY DEF search, verify
<1>2. (Searching' => Searching) /\ (phase' = "VERIFICATION" => phase = "VERIFICATION")
  BY DEF Searching
<1>3. Threshold' = Threshold
  BY <1>1 DEF Threshold
<1>4. \A j, u : Halved(j)' = Halved(j) /\ Gone(u)' = Gone(u)
  BY <1>1, <1>3 DEF Halved, Gone
<1>5. SUFFICES ASSUME noise = 0, Threshold <= LATENCY_MAX, SteadyInv
               PROVE  SteadyInv'
  BY <1>1, <1>3 DEF SteadyInv
<1>6. phase' = "COMPLETE_FAILURE" =>
          reason' \notin {"no_success", "iterations", "rounds", "maximum", "range"}
  BY <1>5 DEF SteadyInv
<1>7. ASSUME Searching', found_lower_bound'
      PROVE  /\ last_success' # 0
             /\ \E j \in 1..6, u \in 0..2 :
                   Halved(j)' /\ Gone(u)' /\ iteration' < 3 * j + u
  <2>1. /\ last_success # 0
        /\ \E j \in 1..6, u \in 0..2 : Halved(j) /\ Gone(u) /\ iteration < 3 * j + u
    BY <1>1, <1>2, <1>5, <1>7 DEF SteadyInv
  <2> QED BY <1>1, <1>4, <2>1
<1>8. phase' = "VERIFICATION" => success_count' = pulse_count'
  BY <1>1, <1>2, <1>5 DEF SteadyInv
<1> QED BY <1>6, <1>7, <1>8 DEF SteadyInv

(* Each iteration goes one of at most three steps of a length, or turns    *)
(* round and halves it; at the sixth halving a search that turns is over.  *)
LEMMA MovesProgress ==
    ASSUME TypeOK, SearchInv, LagInv, SearchMoves, noise = 0, Threshold <= LATENCY_MAX,
           found_lower_bound, last_success # 0,
           NEW j \in 1..6, NEW u \in 0..2, Halved(j), Gone(u), iteration < 3 * j + u
    PROVE  \E k \in 1..6, v \in 0..2 : Halved(k)' /\ Gone(v)' /\ iteration' < 3 * k + v
<1> USE Numbers
<1>1. /\ Searching /\ phase = "BINARY_SEARCH" /\ sub_phase = "RESULT_LOGGED"
      /\ Threshold' = Threshold /\ Range' = Range
  BY DEF SearchMoves, At, Searching, Threshold, Range
<1>2. /\ last_success' = NewSuccess /\ found_lower_bound' = NewFound
      /\ step_size' = NewStep /\ current_pulse' = NewPulse /\ iteration' = iteration + 1
      /\ direction' = IF last_pulse_success THEN "DOWN" ELSE "UP"
  BY DEF SearchMoves, NextIteration
<1>3. step_size > TARGET_ACCURACY
  BY DEF SearchMoves, Resolved
<1>4. last_pulse_success <=> current_pulse >= Threshold
  BY <1>1 DEF LagInv
<1>5. /\ LATENCY_MIN < Threshold
      /\ direction = "DOWN" => current_pulse <= Threshold + step_size
      /\ last_success >= Threshold
  BY <1>1 DEF LagInv
<1>6. /\ current_pulse \in LATENCY_MIN..LATENCY_MAX
      /\ direction = "UP" => last_success <= current_pulse + step_size + 1
  BY <1>1 DEF SearchInv
<1>7. j # 6
  BY <1>3, IterationAssumption DEF Halved, Range
<1>8. CASE (direction = "UP" /\ last_pulse_success) \/ (direction # "UP" /\ ~last_pulse_success)
  <2>1. 2 * NewStep <= step_size /\ NewStep \in Nat
    BY <1>8, NextPulse
  <2>2. j + 1 \in 1..6 /\ Halved(j + 1)'
    <3>1. \/ j = 1 /\ 4 * NewStep <= Range
          \/ j = 2 /\ 8 * NewStep <= Range
          \/ j = 3 /\ 16 * NewStep <= Range
          \/ j = 4 /\ 32 * NewStep <= Range
          \/ j = 5 /\ 64 * NewStep <= Range
      BY <1>7, <2>1 DEF Halved
    <3> QED BY <1>1, <1>2, <3>1 DEF Halved
  <2>3. Gone(0)' /\ iteration' < 3 * (j + 1) + 0
    BY <1>2 DEF Gone
  <2> QED BY <2>2, <2>3
<1>9. CASE direction = "UP" /\ ~last_pulse_success
  <2>1. /\ NewStep = step_size /\ direction' = "UP" /\ current_pulse < Threshold
        /\ NewPulse = IF current_pulse + NewStep > LATENCY_MAX
                      THEN LATENCY_MAX ELSE current_pulse + NewStep
    BY <1>2, <1>4, <1>6, <1>9, NextPulse
  <2>2. Halved(j)'
    BY <1>1, <1>2, <2>1 DEF Halved
  <2>3. CASE u = 0
    <3>1. Gone(1)'
      BY <1>1, <1>2, <1>5, <1>6, <1>9, <2>1 DEF Gone
    <3> QED BY <1>2, <2>2, <2>3, <3>1
  <2>4. CASE u = 1
    <3>1. Gone(2)'
      BY <1>1, <1>2, <1>3, <1>9, <2>1, <2>4 DEF Gone
    <3> QED BY <1>2, <2>2, <2>4, <3>1
  <2>5. CASE u = 2
    BY <1>9, <2>1, <2>5 DEF Gone
  <2> QED BY <2>3, <2>4, <2>5
<1>10. CASE direction # "UP" /\ last_pulse_success
  <2>1. /\ NewStep = step_size /\ direction = "DOWN" /\ direction' = "DOWN"
        /\ current_pulse >= Threshold
        /\ NewPulse = IF current_pulse - NewStep < LATENCY_MIN
                      THEN LATENCY_MIN ELSE current_pulse - NewStep
    BY <1>2, <1>4, <1>6, <1>10, NextPulse
  <2>2. Halved(j)'
    BY <1>1, <1>2, <2>1 DEF Halved
  <2>3. CASE u = 0
    <3>1. Gone(1)'
      BY <1>1, <1>2, <1>5, <2>1 DEF Gone
    <3> QED BY <1>2, <2>2, <2>3, <3>1
  <2>4. CASE u = 1
    <3>1. Gone(2)'
      BY <1>1, <1>2, <1>3, <1>5, <2>1, <2>4 DEF Gone
    <3> QED BY <1>2, <2>2, <2>4, <3>1
  <2>5. CASE u = 2
    BY <2>1, <2>5 DEF Gone
  <2> QED BY <2>3, <2>4, <2>5
<1> QED BY <1>8, <1>9, <1>10

LEMMA MovesSteady ==
    ASSUME TypeOK, FlowInv, SearchInv, LagInv, SteadyInv, SearchMoves
    PROVE  SteadyInv'
<1> USE Numbers
<1>1. /\ Searching /\ phase = "BINARY_SEARCH" /\ sub_phase = "RESULT_LOGGED"
      /\ phase' = "BINARY_SEARCH" /\ Threshold' = Threshold /\ noise' = noise
  BY DEF SearchMoves, At, Searching, SwitchSubPhase, answer, Threshold
<1>2. /\ last_success' = NewSuccess /\ found_lower_bound' = NewFound
      /\ step_size' = NewStep /\ current_pulse' = NewPulse /\ iteration' = iteration + 1
      /\ direction' = IF last_pulse_success THEN "DOWN" ELSE "UP"
  BY DEF SearchMoves, NextIteration
<1> SUFFICES ASSUME noise = 0, Threshold <= LATENCY_MAX, found_lower_bound'
             PROVE  /\ last_success' # 0
                    /\ \E j \in 1..6, u \in 0..2 :
                          Halved(j)' /\ Gone(u)' /\ iteration' < 3 * j + u
  BY <1>1 DEF SteadyInv
<1>3. last_pulse_success <=> current_pulse >= Threshold
  BY <1>1 DEF LagInv
<1>4. CASE found_lower_bound
  <2>1. last_success # 0 /\ \E j \in 1..6, u \in 0..2 :
            Halved(j) /\ Gone(u) /\ iteration < 3 * j + u
    BY <1>1, <1>4 DEF SteadyInv
  <2>2. last_success' # 0
    <3>1. current_pulse # 0
      BY <1>1 DEF SearchInv
    <3>2. NewSuccess = current_pulse \/ NewSuccess = last_success
      BY DEF NewSuccess
    <3> QED BY <1>2, <2>1, <3>1, <3>2
  <2> QED BY <1>4, <2>1, <2>2, MovesProgress
<1>5. CASE ~found_lower_bound
  <2>1. ~last_pulse_success
    BY ONLY <1>2, <1>5, found_lower_bound' DEF NewFound
  <2>2. /\ direction = "DOWN" /\ step_size = Range
        /\ last_success = LATENCY_MAX /\ iteration = 1
    BY <1>1, <1>3, <1>5, <2>1 DEF SearchInv
  <2>3. 2 * NewStep <= Range /\ last_success' = LATENCY_MAX /\ iteration' = 2
    BY <1>2, <2>1, <2>2, NextPulse
  <2>4. Halved(1)' /\ Gone(0)' /\ iteration' < 3 * 1 + 0
    BY <1>2, <2>3 DEF Halved, Gone, Range
  <2> QED BY <2>3, <2>4
<1> QED BY <1>4, <1>5

LEMMA SteadyStep ==
    ASSUME TypeOK, FlowInv, SearchInv, VerifyInv, LagInv, SteadyInv, [Next]_vars
    PROVE  SteadyInv'
<1> USE Numbers DEF At, Running
<1>1. CASE Begin
  <2>1. phase' = "PRIMING" /\ found_lower_bound' = FALSE
    BY <1>1 DEF Begin
  <2> QED BY <2>1 DEF SteadyInv
<1>2. CASE Cancel \/ Ok \/ ExportBegins \/ ExportEnds \/ PulseDoneIsr
  <2>1. UNCHANGED <<lag, noise, search, verify>>
    BY <1>2 DEF Cancel, Ok, ExportBegins, ExportEnds, PulseDoneIsr, answer
  <2>2. \/ UNCHANGED <<phase, reason>>
        \/ phase' = "COMPLETE_FAILURE" /\ reason' = "cancelled"
    BY <1>2 DEF Cancel, CompleteWithFailure, Ok, ExportBegins, ExportEnds, PulseDoneIsr, control
  <2> QED BY <2>1, <2>2, QuietSteady
<1>3. CASE Poll \/ PrimingStart \/ PrimingMeasure \/ PrimingTared
  <2>1. UNCHANGED <<lag, noise, search, verify>>
    BY <1>3 DEF Poll, PulseExecute, MotorSettling, CollectionDelay, ScaleSettling,
                PrimingStart, PrimingMeasure, PrimingTared, answer
  <2>2. \/ UNCHANGED <<phase, reason>>
        \/ phase = "PRIMING" /\ phase' = "BINARY_SEARCH"
        \/ phase' = "COMPLETE_FAILURE" /\ reason' \in {"motor", "settling", "priming"}
    BY <1>3 DEF Poll, PulseExecute, MotorSettling, CollectionDelay, ScaleSettling,
                PrimingStart, PrimingMeasure, PrimingTared,
                StartPulse, SwitchSubPhase, SwitchPhase, Fail, CompleteWithFailure
  <2> QED BY <2>1, <2>2, QuietSteady
<1>4. CASE SearchStart
  <2>1. UNCHANGED <<lag, noise, search, verify>> /\ phase = "BINARY_SEARCH"
    BY <1>4 DEF SearchStart, answer
  <2>2. CASE iteration >= MAX_ITERATIONS
    <3>1. Threshold' = Threshold /\ Searching /\ phase' = "COMPLETE_FAILURE"
      BY <1>4, <2>1, <2>2
         DEF Threshold, Searching, SearchStart, Fail, CompleteWithFailure
    <3>2. ASSUME noise = 0, Threshold <= LATENCY_MAX
          PROVE  FALSE
      <4>1. iteration >= 20
        BY <2>2, IterationAssumption
      <4>2. CASE found_lower_bound
        <5>1. PICK j \in 1..6, u \in 0..2 : iteration < 3 * j + u
          BY <3>1, <3>2, <4>2 DEF SteadyInv
        <5> QED BY <4>1, <5>1
      <4>3. CASE ~found_lower_bound
        BY <3>1, <4>1, <4>3 DEF SearchInv
      <4> QED BY <4>2, <4>3
    <3> QED BY <2>1, <3>1, <3>2 DEF SteadyInv
  <2>3. CASE ~(iteration >= MAX_ITERATIONS)
    <3>1. \/ UNCHANGED <<phase, reason>>
          \/ phase' = "COMPLETE_FAILURE" /\ reason' = "motor"
      BY <1>4, <2>3 DEF SearchStart, StartPulse, SwitchSubPhase, Fail, CompleteWithFailure
    <3> QED BY <2>1, <3>1, QuietSteady
  <2> QED BY <2>2, <2>3
<1>5. CASE SearchMeasure
  <2>1. /\ phase = "BINARY_SEARCH" /\ phase' = phase /\ UNCHANGED <<lag, search>> /\ Grounds
    BY <1>5 DEF SearchMeasure, SwitchSubPhase
  <2>2. noise' = 0 => noise = 0
    BY <2>1, AnswerFacts
  <2>3. Threshold' = Threshold /\ Searching
    BY <2>1 DEF Threshold, Searching
  <2>4. UNCHANGED <<last_success, found_lower_bound, step_size, direction, current_pulse, iteration>>
    BY <2>1 DEF search
  <2>5. \A j, u : Halved(j)' = Halved(j) /\ Gone(u)' = Gone(u)
    BY <2>3, <2>4 DEF Halved, Gone
  <2>6. ASSUME noise = 0, Threshold <= LATENCY_MAX, found_lower_bound
        PROVE  /\ last_success # 0
               /\ \E j \in 1..6, u \in 0..2 : Halved(j) /\ Gone(u) /\ iteration < 3 * j + u
    BY <2>3, <2>6 DEF SteadyInv
  <2>7. ASSUME noise = 0, Threshold <= LATENCY_MAX, found_lower_bound
        PROVE  /\ last_success' # 0
               /\ \E j \in 1..6, u \in 0..2 : Halved(j)' /\ Gone(u)' /\ iteration' < 3 * j + u
    BY <2>4, <2>5, <2>6, <2>7
  <2> QED BY <2>1, <2>2, <2>3, <2>4, <2>7 DEF SteadyInv
<1>6. CASE SearchEnds
  <2>1. /\ phase = "BINARY_SEARCH" /\ sub_phase = "RESULT_LOGGED" /\ Searching
        /\ UNCHANGED <<lag, noise, pulse_count, success_count>> /\ Threshold' = Threshold
    BY <1>6 DEF SearchEnds, Searching, answer, Threshold
  <2>2. CASE NewSuccess = 0
    <3>1. phase' = "COMPLETE_FAILURE"
      BY <1>6, <2>2 DEF SearchEnds, Fail, CompleteWithFailure
    <3>2. ASSUME noise = 0, Threshold <= LATENCY_MAX
          PROVE  FALSE
      <4>1. last_pulse_success <=> current_pulse >= Threshold
        BY <2>1, <3>2 DEF LagInv
      <4>2. current_pulse \in LATENCY_MIN..LATENCY_MAX
        BY <2>1 DEF SearchInv
      <4>3. ~last_pulse_success /\ last_success = 0
        BY <2>2, <4>2 DEF NewSuccess
      <4>4. CASE found_lower_bound
        BY <2>1, <3>2, <4>3, <4>4 DEF SteadyInv
      <4>5. CASE ~found_lower_bound
        <5>1. current_pulse = LATENCY_MAX
          BY <2>1, <4>3, <4>5 DEF SearchInv
        <5> QED BY <3>2, <4>1, <4>3, <5>1
      <4> QED BY <4>4, <4>5
    <3> QED BY <2>1, <3>1, <3>2 DEF SteadyInv
  <2>3. CASE NewSuccess # 0
    <3>1. phase' = "VERIFICATION"
      BY <1>6, <2>3 DEF SearchEnds, SwitchPhase
    <3>2. pulse_count = 0 /\ success_count = 0
      BY <2>1 DEF SearchInv
    <3> QED BY <2>1, <3>1, <3>2 DEF SteadyInv, Searching
  <2> QED BY <2>2, <2>3
<1>7. CASE SearchMoves
  BY <1>7, MovesSteady
<1>8. CASE VerifyPulse
  <2>1. /\ UNCHANGED <<lag, noise, verify>> /\ phase = "VERIFICATION"
        /\ \/ phase' = "VERIFICATION"
           \/ phase' = "COMPLETE_FAILURE" /\ reason' = "motor"
    BY <1>8 DEF VerifyPulse, StartPulse, SwitchSubPhase, Fail, CompleteWithFailure, answer
  <2>2. Threshold' = Threshold /\ UNCHANGED <<pulse_count, success_count>>
    BY <2>1 DEF Threshold, verify
  <2> QED BY <2>1, <2>2 DEF SteadyInv, Searching
<1>9. CASE VerifyPassed
  <2>1. phase = "VERIFICATION" /\ CompleteWithSuccess(candidate)
    BY <1>9 DEF VerifyPassed
  <2>2. phase' = "COMPLETE_SUCCESS"
    BY <2>1 DEF CompleteWithSuccess, VerifyInv
  <2> QED BY <2>2 DEF SteadyInv, Searching
<1>10. CASE VerifyFailed
  <2>1. /\ phase = "VERIFICATION" /\ UNCHANGED <<lag, noise>>
        /\ pulse_count >= VERIFICATION_PULSES
        /\ ~(5 * success_count >= 4 * VERIFICATION_PULSES)
    BY <1>10 DEF VerifyFailed, RoundOver, RoundPassed, answer
  <2>2. Threshold' = Threshold
    BY <2>1 DEF Threshold
  <2>3. success_count # pulse_count
    BY <2>1
  <2>4. ~(noise = 0 /\ Threshold <= LATENCY_MAX)
    BY <2>1, <2>3 DEF SteadyInv
  <2> QED BY <2>1, <2>2, <2>4 DEF SteadyInv
<1>11. CASE VerifyMeasure
  <2>1. /\ phase = "VERIFICATION" /\ phase' = phase /\ lag' = lag /\ Grounds
        /\ active_pulse = candidate /\ pulse_count' = pulse_count + 1
        /\ success_count' = IF last_pulse_success' THEN success_count + 1 ELSE success_count
    BY <1>11 DEF VerifyMeasure, SwitchSubPhase, FlowInv
  <2>2. noise' = 0 => noise = 0 /\ last_pulse_success' = (candidate >= Threshold)
    BY <2>1, AnswerFacts
  <2>3. Threshold' = Threshold
    BY <2>1 DEF Threshold
  <2>4. noise = 0 => candidate >= Threshold
    BY <2>1 DEF LagInv
  <2>5. noise = 0 /\ Threshold <= LATENCY_MAX => success_count = pulse_count
    BY <2>1 DEF SteadyInv
  <2>6. noise' = 0 /\ Threshold <= LATENCY_MAX => success_count' = pulse_count'
    BY <2>1, <2>2, <2>4, <2>5
  <2> QED BY <2>1, <2>3, <2>6 DEF SteadyInv, Searching
<1>12. CASE UNCHANGED vars
  BY <1>12, QuietSteady DEF vars, control, answer
<1> QED
  BY <1>1, <1>2, <1>3, <1>4, <1>5, <1>6, <1>7, <1>8, <1>9, <1>10, <1>11, <1>12
     DEF Next, Update, Priming, Search, Verification

-----------------------------------------------------------------------------
(* Theorems                                                                *)

LEMMA InitInv == Init => IInv
<1> SUFFICES ASSUME Init PROVE IInv
  OBVIOUS
<1>1. lag \in Nat /\ latency \in LATENCY_MIN..LATENCY_MAX
  BY TuneAssumption DEF Init
<1>2. TypeOK
  BY <1>1 DEF Init, TypeOK, ControlTypes, SearchTypes, AnswerTypes, VerifyTypes, NoEvidence,
              Phases, RunPhases, SubPhases, InFlight, Reasons
<1>3. FlowInv /\ SearchInv /\ VerifyInv /\ LagInv /\ SteadyInv
  BY DEF Init, FlowInv, SearchInv, VerifyInv, LagInv, SteadyInv, RunPhases, Searching
<1> QED BY <1>2, <1>3 DEF IInv

(* The inductive invariant: the sub-phases of a pulse, the bounds of the    *)
(* search, the count of a round, and, without noise, how the search closes  *)
(* in on the threshold of the grinder.                                     *)
THEOREM Invariance == Spec => []IInv
<1>1. Init => IInv
  BY InitInv
<1>2. IInv /\ [Next]_vars => IInv'
  BY TypeStep, FlowStep, BoundsStep, LagStep, SteadyStep DEF IInv
<1> QED BY <1>1, <1>2, PTL DEF Spec

(* complete_with_failure() and complete_with_success(): no run leaves a     *)
(* pulse behind, wherever it is cancelled or fails.                        *)
THEOREM RunTakesItsPulse == Spec => []NoStrayPulse
<1>1. IInv => NoStrayPulse
  BY DEF IInv, FlowInv, NoStrayPulse
<1> QED BY <1>1, Invariance, PTL

(* update_binary_search_phase(): the search asks only for pulses within its *)
(* bounds, and without noise its first candidate works and is less than the *)
(* accuracy and the rounding above the grinder's response time.            *)
THEOREM SearchIsAccurate == Spec => []SearchFindsLag
<1>1. ASSUME IInv PROVE SearchFindsLag
  <2> USE Numbers DEF IInv
  <2>1. current_pulse \in {0} \union LATENCY_MIN..LATENCY_MAX
    BY <1>1 DEF SearchInv
  <2>2. ASSUME phase = "VERIFICATION", verification_round = 0, noise = 0
        PROVE  /\ lag <= candidate \div Unit
               /\ \/ candidate < Unit * lag + TARGET_ACCURACY + 10 * Unit
                  \/ candidate = RoundToTen(LATENCY_MIN)
    <3>1. /\ Threshold <= candidate
          /\ \/ candidate < Threshold + TARGET_ACCURACY + 10 * Unit
             \/ candidate = RoundToTen(LATENCY_MIN)
      BY <1>1, <2>2 DEF LagInv
    <3>2. lag \in Nat /\ candidate \in Nat
      BY <1>1 DEF TypeOK, AnswerTypes, VerifyTypes
    <3>3. candidate \div Unit >= lag
      BY <1>1, <3>1, <3>2, WholeMs
    <3>4. candidate \div Unit \in Nat
      BY <1>1, <3>2, Division
    <3> QED BY <3>1, <3>2, <3>3, <3>4 DEF Threshold
  <2> QED BY <2>1, <2>2 DEF SearchFindsLag
<1> QED BY <1>1, Invariance, PTL

(* A grinder that answers the longest pulse, and always in the same way,    *)
(* is tuned unless the user, the motor driver or the scale ends the run:    *)
(* the iterations and the rounds suffice.                                  *)
THEOREM SteadyGrinderSucceeds == Spec => []SteadyGrinderIsTuned
<1>1. IInv => SteadyGrinderIsTuned
  BY DEF IInv, SteadyInv, SteadyGrinderIsTuned, Threshold
<1> QED BY <1>1, Invariance, PTL

(* complete_with_success(): a latency is stored only when the last pulses   *)
(* of the run had exactly its length and four of five of them worked.      *)
THEOREM SavedLatencyIsProven == Spec => SavedIsProven
<1> DEFINE Proven ==
      latency' # latency =>
          /\ evidence = [evidence EXCEPT !.pulse = latency', !.tried = VERIFICATION_PULSES]
          /\ 5 * evidence.worked >= 4 * VERIFICATION_PULSES
<1>1. ASSUME IInv, [Next]_vars PROVE [Proven]_vars
  <2> SUFFICES ASSUME latency' # latency, Next
               PROVE  /\ evidence = [evidence EXCEPT !.pulse = latency',
                                                     !.tried = VERIFICATION_PULSES]
                      /\ 5 * evidence.worked >= 4 * VERIFICATION_PULSES
    BY <1>1 DEF vars
  <2> USE Numbers DEF IInv
  <2>1. VerifyPassed
    BY <1>1 DEF Next, Update, Poll, Priming, Search, Verification, Begin, Cancel, Ok,
                ExportBegins, ExportEnds, PulseDoneIsr, PulseExecute, MotorSettling,
                CollectionDelay, ScaleSettling, PrimingStart, PrimingMeasure, PrimingTared,
                SearchStart, SearchMeasure, SearchEnds, SearchMoves, VerifyPulse,
                VerifyFailed, VerifyMeasure, StartPulse, SwitchSubPhase, SwitchPhase, Fail,
                CompleteWithFailure
  <2>2. /\ phase = "VERIFICATION" /\ pulse_count >= VERIFICATION_PULSES
        /\ 5 * success_count >= 4 * VERIFICATION_PULSES
        /\ latency' = candidate
    BY <2>1 DEF VerifyPassed, At, RoundOver, RoundPassed, CompleteWithSuccess, Fail,
                CompleteWithFailure
  <2>3. pulse_count = VERIFICATION_PULSES
    BY <1>1, <2>2 DEF VerifyInv
  <2>4. evidence = [pulse |-> candidate, tried |-> pulse_count, worked |-> success_count]
    BY <1>1, <2>2, <2>3 DEF VerifyInv
  <2>5. evidence.pulse = latency' /\ evidence.tried = VERIFICATION_PULSES
        /\ evidence.worked = success_count
    BY <2>2, <2>3, <2>4
  <2>6. evidence \in [pulse : Nat, tried : Nat, worked : Nat]
    BY <1>1 DEF TypeOK, VerifyTypes
  <2>7. evidence = [evidence EXCEPT !.pulse = latency', !.tried = VERIFICATION_PULSES]
    BY ONLY <2>5, <2>6
  <2> QED BY <2>2, <2>5, <2>7
<1>2. IInv /\ [Next]_vars => [Proven]_vars
  BY <1>1
<1> QED BY <1>2, Invariance, PTL DEF Spec, SavedIsProven
=============================================================================
