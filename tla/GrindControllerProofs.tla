------------------------ MODULE GrindControllerProofs ------------------------
(***************************************************************************)
(* Proofs about GrindController for every value of its constants.          *)
(*   TypeCorrect        Spec => []TypeOK, whatever the interleaving.        *)
(* The theorems after it assume that a handler of one core is not cut by   *)
(* the other (Preemptive = FALSE).                                         *)
(*   Invariance         the inductive invariant Inv, and from it            *)
(*   MotorIsSafe, IdleMotorIsOff, StopIsAvailable;                          *)
(*   Refinement         the controller implements GrindSession.             *)
(* So far nothing is assumed about Prompt.  The record of a grind needs    *)
(* the tasks to keep up with each other:                                   *)
(*   RecordInvariance   RecordInv, and from it FilesAreTrue;                *)
(*   NoGrindIsLost      every finished grind is on flash or still open.     *)
(***************************************************************************)
EXTENDS GrindController, TLAPS

-----------------------------------------------------------------------------
(* Type correctness *)

\* A pulse that is about to be counted still fits pulse_history.
PulseInv == pc0 = "switch" /\ pend = "PULSE_EXECUTE" => pulse_attempts < MaxPulses

TInv == TypeOK /\ PulseInv

(* Emitting an event keeps the queue a sequence of events.                  *)
LEMMA EmitType ==
    ASSUME SwTypes, NEW e \in Events
    PROVE  EmitUiEvent(e) \in Seq(Events)
BY DEF SwTypes, EmitUiEvent

(* switch_phase() to any phase with any result keeps its variables typed.   *)
LEMMA SwitchType ==
    ASSUME TypeOK, NEW new \in Phases, NEW result \in Results, SwitchPhase(new, result)
    PROVE  SwTypes' /\ fate' \in [SessionIds -> Fates]
<1>1. EventOf(new) \in Events
  BY DEF EventOf, Phases, Setup, Grinding, Events
<1>2. EmitUiEvent(EventOf(new)) \in Seq(Events)
  BY <1>1, EmitType DEF TypeOK
<1>3. ResultsOn(new, result) \subseteq Results
  BY DEF ResultsOn, CompletionResults, Results
<1>4. FateAfter(new) \in [SessionIds -> Fates]
  BY DEF FateAfter, TypeOK, Fates
<1> QED
  BY <1>2, <1>3, <1>4 DEF SwitchPhase, TypeOK, SwTypes

(* What a step leaves alone keeps its type.                                 *)
LEMMA Frames ==
    ASSUME TypeOK
    PROVE  /\ UNCHANGED ctlVars => CtlTypes'
           /\ UNCHANGED swVars => SwTypes'
           /\ UNCHANGED logVars => LogTypes'
           /\ UNCHANGED ioVars => IoTypes'
           /\ UNCHANGED uiVars => UiTypes'
           /\ UNCHANGED pcVars => PcTypes'
           /\ UNCHANGED <<motor, tare>> => MotorTypes'
           /\ UNCHANGED fate => fate' \in [SessionIds -> Fates]
<1>1. UNCHANGED ctlVars => CtlTypes'
  BY DEF TypeOK, CtlTypes, ctlVars
<1>2. UNCHANGED swVars => SwTypes'
  BY DEF TypeOK, SwTypes, swVars
<1>3. UNCHANGED logVars => LogTypes'
  BY DEF TypeOK, LogTypes, logVars
<1>4. UNCHANGED ioVars => IoTypes'
  BY DEF TypeOK, IoTypes, ioVars
<1>5. UNCHANGED uiVars => UiTypes'
  BY DEF TypeOK, UiTypes, uiVars
<1>6. UNCHANGED pcVars => PcTypes'
  BY DEF TypeOK, PcTypes, pcVars
<1>7. UNCHANGED <<motor, tare>> => MotorTypes'
  BY DEF TypeOK, MotorTypes
<1> QED
  BY <1>1, <1>2, <1>3, <1>4, <1>5, <1>6, <1>7 DEF TypeOK

(* The handlers that only move the motor, the tare, the result and core 0.  *)
Handler == \/ RunInitializing \/ RunTaring \/ RunTareConfirm \/ RunPrime
           \/ RunPrimeSettling \/ RunPredictive \/ RunPulseSettling
           \/ RunPulseDecision \/ RunPulseExecute \/ RunTimeGrinding
           \/ RunFinalSettling \/ RunAdditionalPulse

LEMMA HandlerTypes ==
    ASSUME TInv, Handler
    PROVE  TInv'
<1> USE DEF Handler, RunInitializing, RunTaring, RunTareConfirm, RunPrime, RunPrimeSettling,
              RunPredictive, RunPulseSettling, RunPulseDecision, RunPulseExecute,
              RunTimeGrinding, RunFinalSettling, RunAdditionalPulse
<1>1. HandlerFrame /\ UNCHANGED <<logVars, fate>>
  BY DEF MotorHandler
<1>2. last_session_result' \in Results
  BY DEF MotorHandler, TInv, TypeOK, SwTypes, Results
<1>3. SwTypes'
  BY <1>1, <1>2 DEF HandlerFrame, TInv, TypeOK, SwTypes
<1>4. tare' \in BOOLEAN
  BY DEF MotorHandler, TInv, TypeOK, MotorTypes
<1>5. motor' \in {"off", "run", "pulse", "spent"}
  BY DEF TInv, TypeOK, MotorTypes, AfterStart, AfterPulsePoll
<1>6. PcTypes'
  BY DEF Proceed, Hold, TInv, TypeOK, PcTypes, Phases, Setup, Grinding
<1>7. PulseInv'
  BY <1>1 DEF Proceed, Hold, PulseInv, HandlerFrame, ctlVars
<1> QED
  BY <1>1, <1>3, <1>4, <1>5, <1>6, <1>7, Frames DEF HandlerFrame, TInv, TypeOK, MotorTypes

(* Every step keeps the types.                                              *)
LEMMA TypeStep ==
    ASSUME TInv, [Next]_vars
    PROVE  TInv'
<1> USE ConstantsAssumption, Frames DEF TInv, TypeOK
<1>0. CASE UNCHANGED vars
  BY <1>0 DEF vars, PulseInv, ctlVars, pcVars
<1>1. CASE RunIdle
  BY <1>1 DEF RunIdle, vars, PulseInv, ctlVars, pcVars
<1>2. CASE RunPaused
  <2>1. SwTypes'
    BY <1>2, EmitType DEF RunPaused, Events, SwTypes
  <2> QED
    BY <1>2, <2>1 DEF RunPaused, PulseInv, ctlVars, pcVars
<1>3. CASE RunSetup
  <2>1. LogTypes'
    BY <1>3 DEF RunSetup, LogTypes, SessionIds
  <2>2. fate' \in [SessionIds -> Fates]
    BY <1>3 DEF RunSetup, Fates
  <2>3. PcTypes' /\ PulseInv'
    BY <1>3 DEF RunSetup, Proceed, Phases, Setup, PcTypes, PulseInv
  <2>4. SwTypes'
    BY <1>3 DEF RunSetup, HandlerFrame, SwTypes
  <2> QED
    BY <1>3, <2>1, <2>2, <2>3, <2>4 DEF RunSetup, HandlerFrame
<1>4. CASE Handler
  BY <1>4, HandlerTypes
<1>5. CASE RunEnded
  <2>1. [session |-> session_id, result |-> ResultString] \in Requests
    BY DEF ResultString, ResultStrings, Requests, LogTypes
  <2>2. IoTypes'
    BY <1>5, <2>1 DEF RunEnded, QueueFlashOperation, IoTypes
  <2>3. CtlTypes'
    BY <1>5 DEF RunEnded, CtlTypes
  <2>4. PcTypes' /\ PulseInv'
    BY <1>5 DEF RunEnded, Hold, PcTypes, PulseInv
  <2> QED
    BY <1>5, <2>2, <2>3, <2>4 DEF RunEnded
<1>6. CASE TickSwitch
  <2>1. SwTypes' /\ fate' \in [SessionIds -> Fates]
    BY <1>6, SwitchType DEF TickSwitch, SwTypes, PcTypes
  <2>2. CtlTypes'
    BY <1>6 DEF TickSwitch, CtlTypes, PulseInv
  <2>3. PcTypes' /\ PulseInv'
    BY <1>6 DEF TickSwitch, PcTypes, PulseInv, Phases
  <2> QED
    BY <1>6, <2>1, <2>2, <2>3 DEF TickSwitch
<1>7. CASE TickCheck
  <2>1. SwTypes'
    BY <1>7, EmitType DEF TickCheck, SwTypes, Events, Results
  <2>2. PcTypes' /\ PulseInv' /\ MotorTypes'
    BY <1>7 DEF TickCheck, PcTypes, PulseInv, MotorTypes
  <2> QED
    BY <1>7, <2>1, <2>2 DEF TickCheck
<1>8. CASE TickAbort
  <2>1. SwTypes' /\ fate' \in [SessionIds -> Fates]
    BY <1>8, SwitchType DEF TickAbort, SwTypes, Phases
  <2>2. PcTypes' /\ PulseInv'
    BY <1>8 DEF TickAbort, PcTypes, PulseInv
  <2> QED
    BY <1>8, <2>1, <2>2 DEF TickAbort
<1>9. CASE UiEvent
  <2>1. SwTypes'
    BY <1>9 DEF UiEvent, SwTypes
  <2>2. UiTypes'
    BY <1>9 DEF UiEvent, UiTypes, HandleGrindEvent, ShowScreen, ScreenOf, UiStates, uiVars
  <2>3. CtlTypes' /\ PulseInv'
    BY <1>9 DEF UiEvent, Acknowledges, CtlTypes, PulseInv, pcVars
  <2> QED
    BY <1>9, <2>1, <2>2, <2>3 DEF UiEvent
<1>10. CASE UiDrained \/ UiRound
  <2>1. PcTypes' /\ PulseInv'
    BY <1>10 DEF UiDrained, UiRound, NextRound, PcTypes, PulseInv, ctlVars
  <2> QED
    BY <1>10, <2>1 DEF UiDrained, UiRound
<1>11. CASE StartGrind
  <2>1. SwTypes' /\ fate' \in [SessionIds -> Fates]
    BY <1>11, SwitchType DEF StartGrind, Phases, Setup, Results
  <2>2. CtlTypes'
    <3>1. /\ mode' \in {"WEIGHT", "TIME"} /\ purge_mode' \in {"PRIME", "PURGE"}
          /\ active_strategy' \in BOOLEAN /\ ui_ready_for_setup' \in BOOLEAN
          /\ session_end_flash_queued' \in BOOLEAN
      BY <1>11 DEF StartGrind
    <3>2. pulse_attempts' \in 0 .. MaxPulses /\ age' \in 0 .. TimeoutUnits
      <4>1. pulse_attempts' = 0 /\ age' = 0
        BY <1>11 DEF StartGrind
      <4> QED
        BY <4>1
    <3> QED
      BY <3>1, <3>2 DEF CtlTypes
  <2>3. PcTypes'
    BY <1>11 DEF StartGrind, NextRound, PcTypes
  <2>4. PulseInv'
    BY <1>11 DEF StartGrind, NextRound, PulseInv
  <2> QED
    BY <1>11, <2>1, <2>2, <2>3, <2>4 DEF StartGrind
<1>12. CASE StopBegin
  <2>1. fate' \in [SessionIds -> Fates]
    BY <1>12 DEF StopBegin, Discard, Fates
  <2>2. LogTypes' /\ MotorTypes' /\ PcTypes' /\ PulseInv'
    BY <1>12 DEF StopBegin, Discard, LogTypes, MotorTypes, PcTypes, PulseInv, ctlVars
  <2> QED
    BY <1>12, <2>1, <2>2 DEF StopBegin
<1>13. CASE StopFinish
  <2>1. SwTypes' /\ fate' \in [SessionIds -> Fates]
    BY <1>13, SwitchType DEF StopFinish, LeaveSession, Phases, SwTypes
  <2>2. CtlTypes' /\ PcTypes' /\ PulseInv'
    BY <1>13 DEF StopFinish, LeaveSession, CtlTypes, PcTypes, PulseInv
  <2> QED
    BY <1>13, <2>1, <2>2 DEF StopFinish
<1>14. CASE OkButton \/ AutoReturn \/ CompleteTimer \/ TimeoutTimer
  <2>1. ReturnToIdle /\ NextRound
    BY <1>14 DEF OkButton, AutoReturn, CompleteTimer, TimeoutTimer
  <2>2. SwTypes' /\ fate' \in [SessionIds -> Fates]
    BY <2>1, SwitchType DEF ReturnToIdle, LeaveSession, Phases, SwTypes
  <2>3. CtlTypes' /\ PulseInv'
    BY <2>1 DEF ReturnToIdle, LeaveSession, CtlTypes, NextRound, PulseInv, ctlVars
  <2>4. PcTypes'
    BY <2>1 DEF NextRound, PcTypes
  <2>5. UiTypes'
    BY <1>14 DEF OkButton, AutoReturn, CompleteTimer, TimeoutTimer, UiTypes, uiVars
  <2> QED
    BY <1>14, <2>2, <2>3, <2>4, <2>5 DEF OkButton, AutoReturn, CompleteTimer, TimeoutTimer
<1>15. CASE ContinueFromPurge
  <2>1. SwTypes' /\ fate' \in [SessionIds -> Fates]
    BY <1>15, SwitchType DEF ContinueFromPurge, Phases, Grinding, SwTypes
  <2>2. UiTypes' /\ MotorTypes'
    BY <1>15 DEF ContinueFromPurge, ShowScreen, UiStates, AfterStart, UiTypes, MotorTypes
  <2>3. PcTypes' /\ PulseInv'
    BY <1>15 DEF ContinueFromPurge, NextRound, PcTypes, PulseInv, ctlVars
  <2> QED
    BY <1>15, <2>1, <2>2, <2>3 DEF ContinueFromPurge
<1>16. CASE AdditionalPulse
  <2>1. SwTypes' /\ fate' \in [SessionIds -> Fates]
    BY <1>16, SwitchType DEF AdditionalPulse, Phases, SwTypes
  <2>2. CtlTypes' /\ PcTypes' /\ PulseInv' /\ MotorTypes'
    BY <1>16 DEF AdditionalPulse, NextRound, CtlTypes, PcTypes, PulseInv, MotorTypes
  <2> QED
    BY <1>16, <2>1, <2>2 DEF AdditionalPulse
<1>17. CASE FlashBegin
  <2>1. Head(flash_op_queue) \in Requests /\ Tail(flash_op_queue) \in Seq(Requests)
    BY <1>17 DEF FlashBegin, IoTypes
  <2>2. [id |-> session_id, session |-> Head(flash_op_queue).session,
         result |-> Head(flash_op_queue).result, fate |-> fate[session_id]] \in Files
    BY <2>1 DEF Requests, Files, LogTypes
  <2>3. <<Head(flash_op_queue)>> \in Seq(Requests)
    BY <2>1
  <2>4. io' \in Seq(Requests)
    BY <1>17, <2>3 DEF FlashBegin, IoTypes
  <2>5. saved' \in SUBSET Files
    BY <1>17, <2>2 DEF FlashBegin, IoTypes
  <2>6. IoTypes'
    BY <1>17, <2>1, <2>4, <2>5 DEF FlashBegin, IoTypes
  <2> QED
    BY <1>17, <2>6 DEF FlashBegin, PulseInv, ctlVars, pcVars
<1>18. CASE FlashFinish
  <2>1. LogTypes'
    BY <1>18 DEF FlashFinish, LogTypes
  <2>2. io' \in Seq(Requests)
    <3>1. <<>> \in Seq(Requests)
      OBVIOUS
    <3> QED
      BY <1>18, <3>1 DEF FlashFinish
  <2>3. IoTypes'
    BY <1>18, <2>2 DEF FlashFinish, IoTypes
  <2> QED
    BY <1>18, <2>1, <2>3 DEF FlashFinish, PulseInv, ctlVars, pcVars
<1>19. CASE PulseDoneIsr \/ ApplyTare
  <2>1. MotorTypes'
    BY <1>19 DEF PulseDoneIsr, ApplyTare, MotorTypes
  <2> QED
    BY <1>19, <2>1 DEF PulseDoneIsr, ApplyTare, PulseInv, ctlVars, pcVars
<1>20. CASE Elapse
  <2>1. CtlTypes' /\ PulseInv'
    BY <1>20 DEF Elapse, CtlTypes, PulseInv, pcVars
  <2> QED
    BY <1>20, <2>1 DEF Elapse
<1> QED
  BY <1>0, <1>1, <1>2, <1>3, <1>4, <1>5, <1>6, <1>7, <1>8, <1>9, <1>10, <1>11, <1>12, <1>13,
     <1>14, <1>15, <1>16, <1>17, <1>18, <1>19, <1>20 DEF Next, Core0, User, Handler

(* Type correctness, for both values of Preemptive and every Prompt.        *)
THEOREM TypeCorrect == Spec => []TypeOK
<1>1. Init => TInv
  <2>1. Init => CtlTypes /\ SwTypes /\ LogTypes /\ PcTypes /\ MotorTypes /\ PulseInv
    BY ConstantsAssumption DEF Init, CtlTypes, SwTypes, LogTypes, PcTypes, MotorTypes,
       PulseInv, Phases, Results, SessionIds
  <2>2. Init => UiTypes /\ fate \in [SessionIds -> Fates]
    BY DEF Init, UiTypes, UiStates, Fates
  <2>3. <<>> \in Seq(Requests) /\ {} \in SUBSET Files
    OBVIOUS
  <2>4. Init => IoTypes
    BY <2>3 DEF Init, IoTypes
  <2> QED
    BY <2>1, <2>2, <2>4 DEF TInv, TypeOK
<1>2. TInv /\ [Next]_vars => TInv'
  BY TypeStep
<1>3. TInv => TypeOK
  BY DEF TInv
<1> QED
  BY <1>1, <1>2, <1>3, PTL DEF Spec


-----------------------------------------------------------------------------
(* The event queue *)

(* A sent event is the only one a send can add, and a send never changes    *)
(* what comes next in a queue that has something in it.                     *)
LEMMA EmitFacts ==
    ASSUME SwTypes, NEW e \in Events, ui_event_queue' = EmitUiEvent(e)
    PROVE  /\ \A f \in Events : Queued(f)' => Queued(f) \/ f = e
           /\ ui_event_queue # <<>> =>
                 ui_event_queue' # <<>> /\ Head(ui_event_queue') = Head(ui_event_queue)
           /\ e # "INITIALIZING" /\ (ui = "READY" => ui' = "READY") /\ InitEventInv
                 => InitEventInv'
<1>1. CASE Len(ui_event_queue) < UiQueueSize
  <2>1. /\ ui_event_queue' = Append(ui_event_queue, e)
        /\ Len(ui_event_queue') = Len(ui_event_queue) + 1
        /\ Len(ui_event_queue) \in Nat
        /\ \A i \in 1 .. Len(ui_event_queue) : ui_event_queue'[i] = ui_event_queue[i]
        /\ ui_event_queue'[Len(ui_event_queue) + 1] = e
    BY <1>1 DEF EmitUiEvent, SwTypes
  <2>2. \A i \in 1 .. Len(ui_event_queue') :
            i \in 1 .. Len(ui_event_queue) \/ (i = Len(ui_event_queue) + 1)
    BY <2>1
  <2>3. \A f \in Events : Queued(f)' => Queued(f) \/ f = e
    BY <2>1, <2>2 DEF Queued
  <2>4. ui_event_queue # <<>> =>
                 ui_event_queue' # <<>> /\ Head(ui_event_queue') = Head(ui_event_queue)
    BY <2>1 DEF SwTypes
  <2>5. e # "INITIALIZING" /\ (ui = "READY" => ui' = "READY") /\ InitEventInv
           => InitEventInv'
    BY <2>1, <2>2 DEF InitEventInv
  <2> QED
    BY <2>3, <2>4, <2>5
<1>2. CASE ~(Len(ui_event_queue) < UiQueueSize)
  BY <1>2 DEF EmitUiEvent, Queued, InitEventInv
<1> QED
  BY <1>1, <1>2

(* Taking the head of the queue adds nothing, and leaves no INITIALIZING.   *)
LEMMA PopFacts ==
    ASSUME SwTypes, ui_event_queue # <<>>, ui_event_queue' = Tail(ui_event_queue), InitEventInv
    PROVE  /\ \A f \in Events : Queued(f)' => Queued(f)
           /\ Queued(Head(ui_event_queue))
           /\ Head(ui_event_queue) \in Events
           /\ InitEventInv'
           /\ Head(ui_event_queue) = "INITIALIZING" => ui = "READY"
<1>1. /\ Len(ui_event_queue) \in Nat \ {0}
      /\ Len(ui_event_queue') = Len(ui_event_queue) - 1
      /\ \A i \in 1 .. Len(ui_event_queue') : ui_event_queue'[i] = ui_event_queue[i + 1]
      /\ Head(ui_event_queue) = ui_event_queue[1]
      /\ Head(ui_event_queue) \in Events
  BY DEF SwTypes
<1>2. \A i \in 1 .. Len(ui_event_queue') : i + 1 \in 1 .. Len(ui_event_queue) /\ i + 1 # 1
  BY <1>1
<1>3. \A f \in Events : Queued(f)' => Queued(f)
  BY <1>1, <1>2 DEF Queued
<1>4. Queued(Head(ui_event_queue))
  BY <1>1 DEF Queued
<1>5. InitEventInv'
  BY <1>1, <1>2 DEF InitEventInv
<1>6. Head(ui_event_queue) = "INITIALIZING" => ui = "READY"
  BY <1>1 DEF InitEventInv
<1> QED
  BY <1>1, <1>3, <1>4, <1>5, <1>6

(* switch_phase() reaches its phase and adds at most that phase's event.    *)
LEMMA SwitchFacts ==
    ASSUME SwTypes, NEW new \in Phases, NEW result, SwitchPhase(new, result)
    PROVE  /\ phase' = new
           /\ \A f \in Events : Queued(f)' => Queued(f) \/ (f = EventOf(new) /\ phase # new)
           /\ ui_event_queue # <<>> =>
                 ui_event_queue' # <<>> /\ Head(ui_event_queue') = Head(ui_event_queue)
           /\ new # "INITIALIZING" /\ (ui = "READY" => ui' = "READY") /\ InitEventInv
                 => InitEventInv'
<1>1. EventOf(new) \in Events /\ (new # "INITIALIZING" => EventOf(new) # "INITIALIZING")
  BY DEF EventOf, Phases, Setup, Grinding, Events
<1>2. CASE phase = new
  BY <1>2 DEF SwitchPhase, Queued, InitEventInv
<1>3. CASE phase # new
  <2>1. phase' = new /\ ui_event_queue' = EmitUiEvent(EventOf(new))
    BY <1>3 DEF SwitchPhase
  <2> QED
    BY <1>1, <1>3, <2>1, EmitFacts
<1> QED
  BY <1>2, <1>3

(* A queue left alone holds the same events.                                *)
LEMMA QueueFrame ==
    ASSUME ui_event_queue' = ui_event_queue
    PROVE  /\ \A f \in Events : Queued(f)' => Queued(f)
           /\ (ui = "READY" => ui' = "READY") /\ InitEventInv => InitEventInv'
BY DEF Queued, InitEventInv

-----------------------------------------------------------------------------
(* Core 0 *)

(* A pass begins with the UI task outside stop_grind(), and its handler     *)
(* moves only core 0 (and the motor): to the failsafes, or to a switch out  *)
(* of INITIALIZING when the UI has acknowledged, and never to IDLE.         *)
Decides(p) ==
    /\ p \notin {"IDLE", "INITIALIZING"}
    /\ phase \notin {"IDLE", "PURGE_CONFIRM", "COMPLETED", "TIMEOUT"}
    /\ phase = "INITIALIZING" => ui_ready_for_setup
    /\ phase = "TIME_ADDITIONAL_PULSE" => p = "COMPLETED"

LEMMA HandlerFacts ==
    ASSUME TypeOK, ~Preemptive, Handler \/ RunSetup \/ RunEnded
    PROVE  /\ pc0 = "wait" /\ pc1 # "stopping" /\ phase # "IDLE"
           /\ UNCHANGED <<phase, pc1, ui, ui_event_queue, ui_ready_for_setup>>
           /\ \/ pc0' = "check" /\ pend' = pend
              \/ pc0' = "switch" /\ Decides(pend')
<1> USE DEF Tick, Core0Free, HandlerFrame, MotorHandler, ctlVars, uiVars, swVars
<1>1. CASE RunInitializing
  BY <1>1 DEF RunInitializing, Proceed, Hold, Decides
<1>2. CASE RunSetup \/ RunTaring
  BY <1>2 DEF RunSetup, RunTaring, Proceed, Hold, Decides
<1>3. CASE RunTareConfirm \/ RunPrime \/ RunPrimeSettling
  BY <1>3 DEF RunTareConfirm, RunPrime, RunPrimeSettling, Proceed, Hold, Decides
<1>4. CASE RunPredictive \/ RunPulseSettling \/ RunPulseDecision \/ RunPulseExecute
  BY <1>4 DEF RunPredictive, RunPulseSettling, RunPulseDecision, RunPulseExecute,
     Proceed, Hold, Decides
<1>5. CASE RunTimeGrinding \/ RunFinalSettling \/ RunAdditionalPulse
  BY <1>5 DEF RunTimeGrinding, RunFinalSettling, RunAdditionalPulse, Proceed, Hold, Decides
<1>6. CASE RunEnded
  BY <1>6 DEF RunEnded, Hold
<1> QED
  BY <1>1, <1>2, <1>3, <1>4, <1>5, <1>6 DEF Handler

(* The motor command of a handler suits the phase the handler decides on.   *)
LEMMA HandlerMotor ==
    ASSUME TypeOK, ~Preemptive, Inv, Handler \/ RunSetup \/ RunEnded
    PROVE  MotorFits(DecidedPhase)'
<1>0. pc0 = "wait" /\ pc1 # "stopping" /\ phase' = phase /\ pc1' = pc1 /\ DecidedPhase = phase
  BY HandlerFacts DEF DecidedPhase
<1>1. MotorFits(phase) /\ motor \in {"off", "run", "pulse", "spent"}
  BY <1>0 DEF Inv, TypeOK, MotorTypes
<1> USE <1>0, <1>1 DEF DecidedPhase, MotorFits, Tick
<1>2. CASE RunInitializing \/ RunSetup \/ RunTaring \/ RunFinalSettling \/ RunPulseSettling
  BY <1>2 DEF RunInitializing, RunSetup, RunTaring, RunFinalSettling, RunPulseSettling,
     Proceed, Hold
<1>3. CASE RunTareConfirm
  BY <1>3 DEF RunTareConfirm, Proceed, Hold, AfterStart, MotorOn
<1>4. CASE RunPrime \/ RunPrimeSettling
  BY <1>4 DEF RunPrime, RunPrimeSettling, Proceed, Hold, AfterStart, MotorOn
<1>5. CASE RunPredictive \/ RunPulseDecision \/ RunTimeGrinding
  BY <1>5 DEF RunPredictive, RunPulseDecision, RunTimeGrinding, Proceed, Hold
<1>6. CASE RunPulseExecute \/ RunAdditionalPulse
  BY <1>6 DEF RunPulseExecute, RunAdditionalPulse, Proceed, Hold, PulseComplete, AfterPulsePoll
<1>7. CASE RunEnded
  BY <1>7 DEF RunEnded, Hold
<1> QED
  BY <1>2, <1>3, <1>4, <1>5, <1>6, <1>7 DEF Handler

LEMMA HandlerInv ==
    ASSUME TypeOK, ~Preemptive, Inv, Handler \/ RunSetup \/ RunEnded
    PROVE  Inv'
<1>1. MotorFits(DecidedPhase)'
  BY HandlerMotor
<1>2. /\ \A f \in Events : Queued(f)' => Queued(f)
      /\ InitEventInv'
  BY HandlerFacts, QueueFrame DEF Inv
<1>3. CoresInv' /\ StoppedInv'
  BY <1>2, HandlerFacts DEF Inv, CoresInv, StoppedInv, Decides, Events
<1>4. ReadyInv'
  BY <1>2, HandlerFacts DEF Inv, ReadyInv, Decides, DecidedPhase, Events
<1>5. LiveInv'
  <2>1. Live' => Live
    BY HandlerFacts DEF Live, DecidedPhase, Decides, Setup, Grinding, TypeOK, SwTypes, Phases
  <2> QED
    BY <1>2, <2>1, HandlerFacts DEF Inv, LiveInv, Events
<1> QED
  BY <1>1, <1>2, <1>3, <1>4, <1>5 DEF Inv

LEMMA TickInv ==
    ASSUME TypeOK, ~Preemptive, Inv, TickSwitch \/ TickCheck \/ TickAbort \/ RunPaused
    PROVE  Inv'
<1> USE DEF TypeOK, Core0Free
<1>1. CASE TickSwitch
  <2>1. /\ pc0 = "switch" /\ pc1 # "stopping" /\ pc0' = "check" /\ phase' = pend
        /\ pend \in Phases \ {"IDLE", "INITIALIZING"}
        /\ \A f \in Events : Queued(f)' => Queued(f) \/ f = EventOf(pend)
        /\ InitEventInv'
        /\ UNCHANGED <<pc1, ui, ui_ready_for_setup, motor>>
    BY <1>1, SwitchFacts DEF TickSwitch, PcTypes, Inv, CoresInv, uiVars
  <2>2. DecidedPhase = pend /\ DecidedPhase' = pend /\ ui # "READY" /\ ~Queued("STOPPED")
    BY <2>1 DEF DecidedPhase, Inv, ReadyInv, StoppedInv, CoresInv
  <2>3. MotorFits(DecidedPhase)'
    BY <2>1, <2>2 DEF Inv, MotorFits
  <2>4. CoresInv' /\ StoppedInv' /\ ReadyInv'
    BY <2>1, <2>2 DEF Inv, CoresInv, StoppedInv, ReadyInv, EventOf, Events
  <2>5. LiveInv'
    BY <2>1, <2>2 DEF Inv, LiveInv, Live, EventOf, Events, Setup, Grinding
  <2> QED
    BY <2>1, <2>3, <2>4, <2>5 DEF Inv
<1>2. CASE TickCheck
  <2>1. /\ pc0 = "check" /\ pc1 # "stopping"
        /\ \A f \in Events : Queued(f)' => Queued(f) \/ f = "PROGRESS_UPDATED"
        /\ ui_event_queue # <<>> =>
              ui_event_queue' # <<>> /\ Head(ui_event_queue') = Head(ui_event_queue)
        /\ InitEventInv'
        /\ UNCHANGED <<phase, pc1, ui, ui_ready_for_setup>>
    BY <1>2, EmitFacts DEF TickCheck, Inv, uiVars, ctlVars, Events
  <2>2. /\ DecidedPhase = phase /\ phase # "IDLE"
        /\ \/ pc0' = "wait" /\ motor' = motor /\ DecidedPhase' = phase
           \/ /\ pc0' = "abort" /\ motor' = "off" /\ DecidedPhase' = "TIMEOUT"
              /\ phase \notin {"COMPLETED", "TIMEOUT"}
    BY <1>2, <2>1 DEF TickCheck, DecidedPhase, Inv, CoresInv, MayReadNegative, MayReadStale,
       TimedOut, Grinding
  <2>3. MotorFits(DecidedPhase)'
    BY <2>2 DEF Inv, MotorFits
  <2>4. CoresInv' /\ StoppedInv' /\ ReadyInv'
    BY <2>1, <2>2 DEF Inv, CoresInv, StoppedInv, ReadyInv, Events
  <2>5. LiveInv'
    BY <2>1, <2>2 DEF Inv, LiveInv, Live, Events, Setup, Grinding
  <2> QED
    BY <2>1, <2>3, <2>4, <2>5 DEF Inv
<1>3. CASE TickAbort
  <2>0. SwitchPhase("TIMEOUT", last_session_result) /\ "TIMEOUT" \in Phases
    BY <1>3 DEF TickAbort, Phases
  <2>1. /\ pc0 = "abort" /\ pc1 # "stopping" /\ pc0' = "wait" /\ phase' = "TIMEOUT"
        /\ \A f \in Events : Queued(f)' => Queued(f) \/ f = EventOf("TIMEOUT")
        /\ ui_event_queue # <<>> =>
              ui_event_queue' # <<>> /\ Head(ui_event_queue') = Head(ui_event_queue)
        /\ InitEventInv'
        /\ UNCHANGED <<pc1, ui, ui_ready_for_setup, motor>>
    BY <1>3, <2>0, SwitchFacts DEF TickAbort, Inv, uiVars, ctlVars
  <2>2. DecidedPhase = "TIMEOUT" /\ DecidedPhase' = "TIMEOUT" /\ phase # "IDLE"
    BY <2>1 DEF DecidedPhase, Inv, CoresInv
  <2>3. MotorFits(DecidedPhase)'
    BY <2>1, <2>2 DEF Inv, MotorFits
  <2>4. CoresInv' /\ StoppedInv' /\ ReadyInv'
    BY <2>1, <2>2 DEF Inv, CoresInv, StoppedInv, ReadyInv, EventOf, Events
  <2>5. LiveInv'
    BY <2>2 DEF LiveInv, Live, Setup, Grinding
  <2> QED
    BY <2>1, <2>3, <2>4, <2>5 DEF Inv
<1>4. CASE RunPaused
  <2>1. /\ phase = "PURGE_CONFIRM" /\ pc0 = "wait" /\ pc1 # "stopping"
        /\ \A f \in Events : Queued(f)' => Queued(f) \/ f = "PROGRESS_UPDATED"
        /\ InitEventInv'
        /\ UNCHANGED <<phase, pc0, pend, pc1, ui, ui_ready_for_setup, motor>>
    BY <1>4, EmitFacts DEF RunPaused, Tick, Inv, uiVars, ctlVars, pcVars, Events
  <2>2. DecidedPhase = phase /\ DecidedPhase' = phase
    BY <2>1 DEF DecidedPhase
  <2>3. MotorFits(DecidedPhase)'
    BY <2>1, <2>2 DEF Inv, MotorFits
  <2>4. CoresInv' /\ StoppedInv' /\ ReadyInv'
    BY <2>1, <2>2 DEF Inv, CoresInv, StoppedInv, ReadyInv, Events
  <2>5. LiveInv'
    BY <2>1, <2>2 DEF Inv, LiveInv, Live, Events, Setup, Grinding
  <2> QED
    BY <2>1, <2>3, <2>4, <2>5 DEF Inv
<1> QED
  BY <1>1, <1>2, <1>3, <1>4

-----------------------------------------------------------------------------
(* Core 1 *)

LEMMA UiEventInv ==
    ASSUME TypeOK, ~Preemptive, Inv, UiEvent
    PROVE  Inv'
<1> DEFINE e == Head(ui_event_queue)
<1>1. /\ pc0 = "wait" /\ pc1 = "drain" /\ ui_event_queue # <<>>
      /\ UNCHANGED <<phase, pc0, pend, pc1, motor>>
      /\ HandleGrindEvent(e)
      /\ ui_ready_for_setup' = (ui_ready_for_setup \/ Acknowledges(e))
      /\ DecidedPhase = phase /\ DecidedPhase' = phase
  BY DEF UiEvent, Core1Free, pcVars, DecidedPhase
<1>2. /\ \A f \in Events : Queued(f)' => Queued(f)
      /\ Queued(e) /\ e \in Events
      /\ InitEventInv'
      /\ e = "INITIALIZING" => ui = "READY"
  BY PopFacts DEF UiEvent, Inv, TypeOK
<1>3. MotorFits(DecidedPhase)' /\ CoresInv'
  BY <1>1 DEF Inv, MotorFits, CoresInv
<1>4. StoppedInv'
  BY <1>1, <1>2 DEF Inv, StoppedInv, Events
<1>5. /\ e = "INITIALIZING" => ui' = "GRINDING"
      /\ e = "STOPPED" => ui' = "READY"
      /\ e \notin ScreenEvents => ui' \in {ui, "GRINDING"}
      /\ e = "PURGE_CONFIRM" => ui' = "PURGE_CONFIRM"
      /\ ui' = "READY" => ui = "READY" \/ e = "STOPPED"
  BY <1>1, <1>2 DEF HandleGrindEvent, ShowScreen, ScreenOf, ScreenEvents, uiVars, Events
<1>6. CASE ui = "READY" /\ e = "INITIALIZING"
  <2>1. ReadyInv'
    BY <1>5, <1>6 DEF ReadyInv
  <2>2. Live' => phase \in {"INITIALIZING", "TIMEOUT"} /\ ~ui_ready_for_setup
    BY <1>1, <1>6 DEF Inv, ReadyInv, Live, Setup, Grinding
  <2>3. Live' => phase = "INITIALIZING" /\ ~Queued("COMPLETED") /\ ~Queued("TIMEOUT")
    BY <1>1, <1>6, <2>2 DEF Inv, ReadyInv, Live, Setup, Grinding
  <2>4. LiveInv'
    BY <1>2, <1>5, <1>6, <2>3 DEF LiveInv, Events
  <2> QED
    BY <1>2, <1>3, <1>4, <2>1, <2>4 DEF Inv
<1>7. CASE ui = "READY" /\ e # "INITIALIZING"
  <2>1. phase = "IDLE"
    BY <1>7 DEF Inv, ReadyInv
  <2>2. ReadyInv' /\ ~Live'
    BY <1>1, <2>1 DEF ReadyInv, Live, Setup, Grinding
  <2> QED
    BY <1>2, <1>3, <1>4, <2>2 DEF Inv, LiveInv
<1>8. CASE ui # "READY"
  <2>1. ui' = "READY" => phase = "IDLE"
    BY <1>2, <1>5, <1>8 DEF Inv, StoppedInv
  <2>2. ReadyInv'
    BY <1>1, <2>1 DEF ReadyInv
  <2>3. ui_ready_for_setup' = ui_ready_for_setup
    BY <1>1, <1>2, <1>8 DEF Acknowledges, TypeOK, CtlTypes
  <2>4. Live' => Live /\ phase # "IDLE"
    BY <1>1, <2>3 DEF Live, Setup, Grinding
  <2>5. Live' => ui' \in {"GRINDING", "PURGE_CONFIRM"}
    <3>1. Live => ui \in {"GRINDING", "PURGE_CONFIRM"} /\ e \notin {"COMPLETED", "TIMEOUT"}
      BY <1>2 DEF Inv, LiveInv
    <3>2. e = "STOPPED" => phase = "IDLE"
      BY <1>2 DEF Inv, StoppedInv
    <3> QED
      BY <1>5, <2>4, <3>1, <3>2 DEF ScreenEvents
  <2>6. LiveInv'
    BY <1>2, <2>4, <2>5 DEF Inv, LiveInv, Events
  <2> QED
    BY <1>2, <1>3, <1>4, <2>2, <2>6 DEF Inv
<1> QED
  BY <1>6, <1>7, <1>8

LEMMA StartInv ==
    ASSUME TypeOK, ~Preemptive, Inv, StartGrind
    PROVE  Inv'
<1>1. /\ pc0 = "wait" /\ pc1 = "act" /\ pc1' = "drain" /\ ui = "READY"
      /\ ~ui_ready_for_setup'
      /\ UNCHANGED <<pc0, pend, motor, ui>>
      /\ SwitchPhase("INITIALIZING", "UNKNOWN")
  BY DEF StartGrind, UiActs, Core1Free, NextRound, uiVars
<1>2. phase = "IDLE" /\ ui_event_queue = <<>> /\ DecidedPhase = "IDLE"
  BY <1>1 DEF Inv, ReadyInv, DecidedPhase
<1>3. phase' = "INITIALIZING" /\ DecidedPhase' = "INITIALIZING"
  BY <1>1, <1>2 DEF SwitchPhase, DecidedPhase
<1>4. ui_event_queue' = Append(<<>>, "INITIALIZING")
  <2>1. Len(<<>>) = 0 /\ 0 < UiQueueSize
    BY ConstantsAssumption
  <2> QED
    BY <1>1, <1>2, <2>1 DEF SwitchPhase, EmitUiEvent, EventOf
<1>5. ui_event_queue' = <<"INITIALIZING">>
  BY <1>4
<1>6. /\ ui_event_queue' # <<>> /\ Head(ui_event_queue') = "INITIALIZING"
      /\ Len(ui_event_queue') = 1 /\ ui_event_queue'[1] = "INITIALIZING"
  BY <1>5
<1>7. \A f \in Events : Queued(f)' => f = "INITIALIZING"
  BY <1>6 DEF Queued
<1>8. MotorFits(DecidedPhase)'
  BY <1>1, <1>2, <1>3 DEF Inv, MotorFits
<1>9. InitEventInv'
  BY <1>1, <1>6 DEF InitEventInv
<1>10. CoresInv' /\ StoppedInv' /\ ReadyInv' /\ LiveInv'
  BY <1>1, <1>3, <1>6, <1>7 DEF CoresInv, StoppedInv, ReadyInv, LiveInv, Live, Events,
     Setup, Grinding
<1> QED
  BY <1>8, <1>9, <1>10 DEF Inv

LEMMA StopInv ==
    ASSUME TypeOK, ~Preemptive, Inv, StopBegin \/ StopFinish
    PROVE  Inv'
<1>1. CASE StopBegin
  <2>1. /\ pc0 = "wait" /\ pc1 = "act" /\ pc1' = "stopping"
        /\ ui \in {"GRINDING", "PURGE_CONFIRM"} /\ motor' = "off"
        /\ UNCHANGED <<phase, pc0, pend, ui, ui_event_queue, ui_ready_for_setup>>
    BY <1>1 DEF StopBegin, UiActs, Core1Free, swVars, ctlVars, uiVars
  <2>2. DecidedPhase' = "IDLE" /\ InitEventInv' /\ (Queued("STOPPED")' => Queued("STOPPED"))
    BY <2>1, QueueFrame DEF DecidedPhase, Inv, Events
  <2>3. MotorFits(DecidedPhase)' /\ CoresInv' /\ ReadyInv'
    BY <2>1, <2>2 DEF MotorFits, CoresInv, ReadyInv, Inv
  <2>4. StoppedInv' /\ LiveInv'
    BY <2>1, <2>2 DEF StoppedInv, LiveInv, Live, Inv, Setup, Grinding
  <2> QED
    BY <2>2, <2>3, <2>4 DEF Inv
<1>2. CASE StopFinish
  <2>0. SwitchPhase("IDLE", last_session_result) /\ "IDLE" \in Phases
    BY <1>2 DEF StopFinish, LeaveSession, Phases
  <2>1. /\ pc1 = "stopping" /\ pc0 = "wait" /\ pc1' = "drain" /\ phase' = "IDLE"
        /\ UNCHANGED <<pc0, pend, ui, motor>>
        /\ InitEventInv'
    BY <1>2, <2>0, SwitchFacts DEF StopFinish, Inv, CoresInv, uiVars, TypeOK
  <2>2. DecidedPhase = "IDLE" /\ DecidedPhase' = "IDLE"
    BY <2>1 DEF DecidedPhase
  <2>3. MotorFits(DecidedPhase)' /\ CoresInv' /\ ReadyInv' /\ StoppedInv' /\ LiveInv'
    BY <2>1, <2>2 DEF Inv, MotorFits, CoresInv, ReadyInv, StoppedInv, LiveInv, Live,
       Setup, Grinding
  <2> QED
    BY <2>1, <2>3 DEF Inv
<1> QED
  BY <1>1, <1>2

(* Steps that leave phase, screen, acknowledgement and queue as they are.   *)
LEMMA StillInv ==
    ASSUME TypeOK, Inv,
           UNCHANGED <<phase, pc0, pend, ui, ui_event_queue, ui_ready_for_setup>>,
           \/ pc1' = pc1
           \/ pc1 # "stopping" /\ pc1' = "drain"
           \/ pc1 = "drain" /\ pc1' = "act" /\ ui_event_queue = <<>>,
           motor' = motor \/ (motor = "pulse" /\ motor' = "spent")
    PROVE  Inv'
<1>1. /\ \A f \in Events : Queued(f)' => Queued(f)
      /\ InitEventInv'
  BY QueueFrame DEF Inv
<1>2. DecidedPhase' = DecidedPhase /\ Live' = Live
  BY DEF DecidedPhase, Live
<1>3. MotorFits(DecidedPhase)' /\ CoresInv'
  BY <1>2 DEF Inv, MotorFits, CoresInv
<1>4. ui_event_queue = <<>> => ~Queued("STOPPED")
  BY DEF Queued
<1>5. StoppedInv' /\ ReadyInv'
  BY <1>1, <1>2, <1>4 DEF Inv, StoppedInv, ReadyInv, Events
<1>6. LiveInv'
  BY <1>1, <1>2 DEF Inv, LiveInv, Events
<1> QED
  BY <1>1, <1>3, <1>5, <1>6 DEF Inv

(* return_to_idle(), a press of CONTINUE and a press of PULSE.              *)
LEMMA ButtonInv ==
    ASSUME TypeOK, ~Preemptive, Inv,
           \/ OkButton \/ AutoReturn \/ CompleteTimer \/ TimeoutTimer
           \/ ContinueFromPurge \/ AdditionalPulse
    PROVE  Inv'
<1>0. pc0 = "wait" /\ pc1 = "act" /\ pc1' = "drain" /\ UNCHANGED <<pc0, pend>>
  BY DEF OkButton, AutoReturn, CompleteTimer, TimeoutTimer, ContinueFromPurge, AdditionalPulse,
     UiActs, Core1Free, NextRound
<1>1. /\ DecidedPhase = phase /\ DecidedPhase' = phase'
      /\ ~Queued("STOPPED")
  BY <1>0 DEF DecidedPhase, Inv, StoppedInv
<1>2. CASE OkButton \/ AutoReturn \/ CompleteTimer \/ TimeoutTimer
  <2>1. ReturnToIdle /\ UNCHANGED <<ui, motor>>
    BY <1>2 DEF OkButton, AutoReturn, CompleteTimer, TimeoutTimer, uiVars
  <2>2. CASE phase \in {"COMPLETED", "TIMEOUT"}
    <3>0. SwitchPhase("IDLE", last_session_result) /\ "IDLE" \in Phases
      BY <2>1, <2>2 DEF ReturnToIdle, LeaveSession, Phases
    <3>1. phase' = "IDLE" /\ InitEventInv'
      BY <2>1, <3>0, SwitchFacts DEF Inv, TypeOK
    <3>2. MotorFits(DecidedPhase)' /\ CoresInv' /\ ReadyInv' /\ StoppedInv' /\ LiveInv'
      BY <1>0, <1>1, <2>1, <2>2, <3>1 DEF Inv, MotorFits, CoresInv, ReadyInv, StoppedInv,
         LiveInv, Live, Setup, Grinding
    <3> QED
      BY <3>1, <3>2 DEF Inv
  <2>3. CASE phase \notin {"COMPLETED", "TIMEOUT"}
    BY <1>0, <2>1, <2>3, StillInv DEF ReturnToIdle, ctlVars, swVars
  <2> QED
    BY <2>2, <2>3
<1>3. CASE ContinueFromPurge
  <2>1. ui = "PURGE_CONFIRM" /\ ui' = "GRINDING" /\ ui_ready_for_setup' = ui_ready_for_setup
    BY <1>3 DEF ContinueFromPurge, ShowScreen, ctlVars
  <2>2. CASE phase = "PURGE_CONFIRM"
    <3>0. /\ SwitchPhase("PREDICTIVE", last_session_result) /\ "PREDICTIVE" \in Phases
          /\ motor' \in AfterStart
      BY <1>3, <2>2 DEF ContinueFromPurge, Phases, Grinding
    <3>1. /\ phase' = "PREDICTIVE" /\ InitEventInv'
          /\ \A f \in Events : Queued(f)' => Queued(f) \/ f = EventOf("PREDICTIVE")
      BY <2>1, <3>0, SwitchFacts DEF Inv, TypeOK
    <3>2. motor' \in {"off", "run"}
      BY <1>1, <2>2, <3>0 DEF Inv, MotorFits, TypeOK, MotorTypes, AfterStart
    <3>3. MotorFits(DecidedPhase)' /\ CoresInv'
      BY <1>0, <1>1, <3>1, <3>2 DEF MotorFits, CoresInv
    <3>4. Live /\ ~Queued("COMPLETED") /\ ~Queued("TIMEOUT")
      BY <1>1, <2>2 DEF Inv, LiveInv, Live
    <3>5. ReadyInv' /\ StoppedInv' /\ LiveInv'
      BY <1>0, <1>1, <2>1, <3>1, <3>4 DEF ReadyInv, StoppedInv, LiveInv, EventOf, Events
    <3> QED
      BY <3>1, <3>3, <3>5 DEF Inv
  <2>3. CASE phase # "PURGE_CONFIRM"
    <3>1. UNCHANGED <<phase, motor, ui_event_queue>>
      BY <1>3, <2>3 DEF ContinueFromPurge, swVars
    <3>2. /\ InitEventInv'
          /\ \A f \in Events : Queued(f)' => Queued(f)
      BY <2>1, <3>1, QueueFrame DEF Inv
    <3>3. MotorFits(DecidedPhase)' /\ CoresInv' /\ ReadyInv' /\ StoppedInv'
      BY <1>0, <1>1, <2>1, <3>1, <3>2 DEF Inv, MotorFits, CoresInv, ReadyInv, StoppedInv, Events
    <3>4. Live' = Live
      BY <1>1, <2>1, <3>1 DEF Live
    <3>5. LiveInv'
      BY <2>1, <3>2, <3>4 DEF Inv, LiveInv, Events
    <3> QED
      BY <3>2, <3>3, <3>5 DEF Inv
  <2> QED
    BY <2>2, <2>3
<1>4. CASE AdditionalPulse
  <2>0. SwitchPhase("TIME_ADDITIONAL_PULSE", last_session_result)
        /\ "TIME_ADDITIONAL_PULSE" \in Phases
    BY <1>4 DEF AdditionalPulse, Phases
  <2>1. ui = "GRIND_COMPLETE" /\ ui' = ui /\ motor' = "pulse"
    BY <1>4 DEF AdditionalPulse, uiVars
  <2>2. /\ phase' = "TIME_ADDITIONAL_PULSE" /\ InitEventInv'
        /\ \A f \in Events : Queued(f)' => Queued(f) \/ f = EventOf("TIME_ADDITIONAL_PULSE")
    BY <2>0, <2>1, SwitchFacts DEF Inv, TypeOK
  <2>3. MotorFits(DecidedPhase)' /\ CoresInv' /\ ReadyInv'
    BY <1>0, <1>1, <2>1, <2>2 DEF MotorFits, CoresInv, ReadyInv
  <2>4. StoppedInv' /\ LiveInv'
    BY <1>0, <1>1, <2>1, <2>2 DEF StoppedInv, LiveInv, Live, EventOf, Events, Setup, Grinding
  <2> QED
    BY <2>2, <2>3, <2>4 DEF Inv
<1> QED
  BY <1>2, <1>3, <1>4

-----------------------------------------------------------------------------
(* The theorems *)

LEMMA InvStep ==
    ASSUME TypeOK, ~Preemptive, Inv, [Next]_vars
    PROVE  Inv'
<1>1. CASE \/ UNCHANGED vars \/ RunIdle \/ UiRound \/ UiDrained
           \/ FlashBegin \/ FlashFinish \/ PulseDoneIsr \/ ApplyTare \/ Elapse
  <2>1. UNCHANGED <<phase, pc0, pend, ui, ui_event_queue, ui_ready_for_setup>>
    BY <1>1 DEF vars, RunIdle, UiRound, UiDrained, FlashBegin, FlashFinish, PulseDoneIsr,
       ApplyTare, Elapse, NextRound, ctlVars, swVars, uiVars, pcVars
  <2>2. /\ \/ pc1' = pc1
           \/ pc1 # "stopping" /\ pc1' = "drain"
           \/ pc1 = "drain" /\ pc1' = "act" /\ ui_event_queue = <<>>
        /\ motor' = motor \/ (motor = "pulse" /\ motor' = "spent")
    BY <1>1 DEF vars, RunIdle, UiRound, UiDrained, FlashBegin, FlashFinish, PulseDoneIsr,
       ApplyTare, Elapse, NextRound, pcVars
  <2> QED
    BY <2>1, <2>2, StillInv
<1>2. CASE Handler \/ RunSetup \/ RunEnded
  BY <1>2, HandlerInv
<1>3. CASE TickSwitch \/ TickCheck \/ TickAbort \/ RunPaused
  BY <1>3, TickInv
<1>4. CASE UiEvent
  BY <1>4, UiEventInv
<1>5. CASE StartGrind
  BY <1>5, StartInv
<1>6. CASE StopBegin \/ StopFinish
  BY <1>6, StopInv
<1>7. CASE \/ OkButton \/ AutoReturn \/ CompleteTimer \/ TimeoutTimer
           \/ ContinueFromPurge \/ AdditionalPulse
  BY <1>7, ButtonInv
<1> QED
  BY <1>1, <1>2, <1>3, <1>4, <1>5, <1>6, <1>7 DEF Next, Core0, User, Handler

(* The inductive invariant holds in every reachable state.                  *)
THEOREM Invariance ==
    ASSUME ~Preemptive
    PROVE  Spec => []Inv
<1>1. Init => Inv
  <2>1. Init => CoresInv /\ StoppedInv /\ ReadyInv /\ InitEventInv
    BY DEF Init, CoresInv, StoppedInv, ReadyInv, InitEventInv, Queued
  <2>2. Init => LiveInv /\ MotorFits(DecidedPhase)
    BY DEF Init, LiveInv, Live, MotorFits, DecidedPhase, Setup, Grinding
  <2> QED
    BY <2>1, <2>2 DEF Inv
<1>2. TypeOK /\ Inv /\ [Next]_vars => Inv'
  BY InvStep
<1> QED
  BY <1>1, <1>2, TypeCorrect, PTL DEF Spec

(* Between two passes the motor runs only in a phase that runs it: no way   *)
(* out of a grind (failsafe, STOP, completion, refused pulse) leaves it on. *)
THEOREM MotorIsSafe ==
    ASSUME ~Preemptive
    PROVE  Spec => []MotorSafe
<1>1. Inv => MotorSafe
  BY DEF Inv, MotorSafe, AtRest, MotorFits, DecidedPhase
<1> QED
  BY <1>1, Invariance, PTL

(* With the controller in IDLE the motor is off: only a handler cut by      *)
(* stop_grind() on the other core (IdleMotorOff fails there) leaves it on.  *)
THEOREM IdleMotorIsOff ==
    ASSUME ~Preemptive
    PROVE  Spec => []IdleMotorOff
<1>1. Inv /\ TypeOK => IdleMotorOff
  BY DEF Inv, IdleMotorOff, AtRest, MotorFits, DecidedPhase, TypeOK, MotorTypes
<1> QED
  BY <1>1, Invariance, TypeCorrect, PTL

(* Whenever the motor runs continuously the screen has a STOP button,       *)
(* whatever the event queue has dropped.                                    *)
THEOREM StopIsAvailable ==
    ASSUME ~Preemptive
    PROVE  Spec => []StopAvailable
<1>1. Inv => StopAvailable
  BY DEF Inv, StopAvailable, MotorFits, LiveInv, Live, Setup, Grinding
<1> QED
  BY <1>1, Invariance, PTL

-----------------------------------------------------------------------------
(* Refinement: the controller implements GrindSession.  Every step moves    *)
(* the decided phase and the drive as one of GrindSession's steps does, or  *)
(* not at all.                                                              *)

Turning == motor \in {"run", "pulse"}

\* What a step may do to the decided phase and the drive.
SessionMove ==
    \/ DecidedPhase' = DecidedPhase /\ (Turning' <=> Turning)
    \/ DecidedPhase \in Setup /\ DecidedPhase' \in Setup /\ (Turning' <=> Turning)
    \/ DecidedPhase \in Setup \cup Grinding \cup {"PURGE_CONFIRM"} /\ DecidedPhase' \in Grinding
    \/ DecidedPhase \in Grinding /\ DecidedPhase' = "PURGE_CONFIRM" /\ ~Turning'
    \/ /\ DecidedPhase \in Grinding \cup {"TIME_ADDITIONAL_PULSE"}
       /\ DecidedPhase' = "COMPLETED" /\ ~Turning /\ ~Turning'
    \/ /\ DecidedPhase \notin {"IDLE", "COMPLETED", "TIMEOUT"}
       /\ DecidedPhase' = "TIMEOUT" /\ ~Turning'
    \/ DecidedPhase = "COMPLETED" /\ DecidedPhase' = "TIME_ADDITIONAL_PULSE" /\ Turning'
    \/ /\ DecidedPhase = "TIME_ADDITIONAL_PULSE"
       /\ DecidedPhase' = "TIME_ADDITIONAL_PULSE" /\ ~Turning'
    \/ DecidedPhase # "IDLE" /\ DecidedPhase' = "IDLE" /\ ~Turning'
    \/ DecidedPhase = "IDLE" /\ DecidedPhase' = "INITIALIZING" /\ ~Turning'

(* The stage of each decided phase.                                         *)
LEMMA StageFacts ==
    ASSUME DecidedPhase \in Phases
    PROVE  /\ DecidedPhase = "IDLE" => Stage = "idle"
           /\ DecidedPhase \in Setup => Stage = "prepare"
           /\ DecidedPhase \in Grinding => Stage = "grind"
           /\ DecidedPhase = "PURGE_CONFIRM" => Stage = "confirm"
           /\ DecidedPhase = "COMPLETED" => Stage = "completed"
           /\ DecidedPhase = "TIMEOUT" => Stage = "failed"
           /\ DecidedPhase = "TIME_ADDITIONAL_PULSE" => Stage = "topup"
BY DEF Stage, Setup, Grinding, Phases

LEMMA DecidedType ==
    ASSUME TypeOK
    PROVE  DecidedPhase \in Phases
BY DEF TypeOK, SwTypes, PcTypes, DecidedPhase, Phases

(* Such a move is a step of GrindSession, or none.                          *)
LEMMA MoveRefines ==
    ASSUME TypeOK, TypeOK', SessionMove
    PROVE  [Session!Next]_(Session!vars)
<1>0. DecidedPhase \in Phases /\ DecidedPhase' \in Phases
  BY DecidedType DEF TypeOK, SwTypes, PcTypes, DecidedPhase, Phases
<1>1. /\ DecidedPhase = "IDLE" => Stage = "idle"
      /\ DecidedPhase \in Setup => Stage = "prepare"
      /\ DecidedPhase \in Grinding => Stage = "grind"
      /\ DecidedPhase = "PURGE_CONFIRM" => Stage = "confirm"
      /\ DecidedPhase = "COMPLETED" => Stage = "completed"
      /\ DecidedPhase = "TIMEOUT" => Stage = "failed"
      /\ DecidedPhase = "TIME_ADDITIONAL_PULSE" => Stage = "topup"
  BY <1>0, StageFacts
<1>2. /\ DecidedPhase' = "IDLE" => Stage' = "idle"
      /\ DecidedPhase' \in Setup => Stage' = "prepare"
      /\ DecidedPhase' \in Grinding => Stage' = "grind"
      /\ DecidedPhase' = "PURGE_CONFIRM" => Stage' = "confirm"
      /\ DecidedPhase' = "COMPLETED" => Stage' = "completed"
      /\ DecidedPhase' = "TIMEOUT" => Stage' = "failed"
      /\ DecidedPhase' = "TIME_ADDITIONAL_PULSE" => Stage' = "topup"
  BY <1>0 DEF Stage, Setup, Grinding, Phases
<1> USE DEF Turning
<1>3. CASE DecidedPhase' = DecidedPhase /\ (Turning' <=> Turning)
  <2>1. Stage' = Stage
    BY <1>3 DEF Stage
  <2> QED
    BY <1>3, <2>1 DEF Session!vars
<1>4. CASE DecidedPhase \in Setup /\ DecidedPhase' \in Setup /\ (Turning' <=> Turning)
  BY <1>1, <1>2, <1>4 DEF Session!vars
<1>5. CASE DecidedPhase \in Setup \cup Grinding \cup {"PURGE_CONFIRM"} /\ DecidedPhase' \in Grinding
  <2>1. Stage \in {"prepare", "grind", "confirm"} /\ Stage' = "grind"
    BY <1>1, <1>2, <1>5
  <2>2. Session!Grind \/ Session!Dose \/ Session!Continue
    BY <2>1 DEF Session!Grind, Session!Dose, Session!Continue
  <2> QED
    BY <2>2 DEF Session!Next
<1>6. CASE DecidedPhase \in Grinding /\ DecidedPhase' = "PURGE_CONFIRM" /\ ~Turning'
  BY <1>1, <1>2, <1>6 DEF Session!Next, Session!AskPurge
<1>7. CASE /\ DecidedPhase \in Grinding \cup {"TIME_ADDITIONAL_PULSE"}
           /\ DecidedPhase' = "COMPLETED" /\ ~Turning /\ ~Turning'
  BY <1>1, <1>2, <1>7 DEF Session!Next, Session!Complete
<1>8. CASE /\ DecidedPhase \notin {"IDLE", "COMPLETED", "TIMEOUT"}
           /\ DecidedPhase' = "TIMEOUT" /\ ~Turning'
  <2>1. Stage \in {"prepare", "grind", "confirm", "topup"} /\ Stage' = "failed"
    BY <1>0, <1>1, <1>2, <1>8 DEF Phases
  <2> QED
    BY <1>8, <2>1 DEF Session!Next, Session!Fail, Session!Active
<1>9. CASE DecidedPhase = "COMPLETED" /\ DecidedPhase' = "TIME_ADDITIONAL_PULSE" /\ Turning'
  BY <1>1, <1>2, <1>9 DEF Session!Next, Session!TopUp
<1>10. CASE /\ DecidedPhase = "TIME_ADDITIONAL_PULSE"
            /\ DecidedPhase' = "TIME_ADDITIONAL_PULSE" /\ ~Turning'
  BY <1>1, <1>2, <1>10 DEF Session!Next, Session!TopUpEnd
<1>11. CASE DecidedPhase # "IDLE" /\ DecidedPhase' = "IDLE" /\ ~Turning'
  <2>1. Stage \in Session!Active /\ Stage' = "idle"
    BY <1>0, <1>1, <1>2, <1>11 DEF Phases, Session!Active
  <2> QED
    BY <1>11, <2>1 DEF Session!Next, Session!Leave
<1>12. CASE DecidedPhase = "IDLE" /\ DecidedPhase' = "INITIALIZING" /\ ~Turning'
  <2>1. Stage = "idle" /\ Stage' = "prepare"
    BY <1>1, <1>2, <1>12 DEF Setup
  <2> QED
    BY <1>12, <2>1 DEF Session!Next, Session!Start
<1> QED
  BY <1>3, <1>4, <1>5, <1>6, <1>7, <1>8, <1>9, <1>10, <1>11, <1>12 DEF SessionMove

(* A handler decides the next phase and drives the motor in one step.       *)
LEMMA HandlerMoves ==
    ASSUME TypeOK, ~Preemptive, Inv, Handler \/ RunSetup \/ RunEnded
    PROVE  SessionMove
<1>0. pc0 = "wait" /\ pc1 # "stopping" /\ phase' = phase /\ pc1' = pc1 /\ DecidedPhase = phase
  BY HandlerFacts DEF DecidedPhase
<1>1. MotorFits(phase) /\ motor \in {"off", "run", "pulse", "spent"}
  BY <1>0 DEF Inv, TypeOK, MotorTypes
<1> USE <1>0, <1>1 DEF DecidedPhase, MotorFits, Tick, Turning
<1>2. CASE RunInitializing \/ RunSetup \/ RunTaring \/ RunFinalSettling \/ RunPulseSettling
  BY <1>2 DEF RunInitializing, RunSetup, RunTaring, RunFinalSettling, RunPulseSettling,
     Proceed, Hold, SessionMove, Setup, Grinding
<1>3. CASE RunTareConfirm
  BY <1>3 DEF RunTareConfirm, Proceed, Hold, AfterStart, MotorOn, SessionMove, Setup, Grinding
<1>4. CASE RunPrime \/ RunPrimeSettling
  BY <1>4 DEF RunPrime, RunPrimeSettling, Proceed, Hold, AfterStart, MotorOn, SessionMove,
     Setup, Grinding
<1>5. CASE RunPredictive \/ RunPulseDecision \/ RunTimeGrinding
  BY <1>5 DEF RunPredictive, RunPulseDecision, RunTimeGrinding, Proceed, Hold, SessionMove,
     Setup, Grinding
<1>6. CASE RunPulseExecute \/ RunAdditionalPulse
  BY <1>6 DEF RunPulseExecute, RunAdditionalPulse, Proceed, Hold, PulseComplete, AfterPulsePoll,
     SessionMove, Setup, Grinding
<1>7. CASE RunEnded
  BY <1>7 DEF RunEnded, Hold, SessionMove
<1> QED
  BY <1>2, <1>3, <1>4, <1>5, <1>6, <1>7 DEF Handler

(* The rest of a pass: the switch was decided before, a failsafe decides.   *)
LEMMA TickMoves ==
    ASSUME TypeOK, ~Preemptive, Inv, TickSwitch \/ TickCheck \/ TickAbort \/ RunPaused
    PROVE  SessionMove
<1>1. CASE TickSwitch
  <2>1. /\ pc0 = "switch" /\ pc1 # "stopping" /\ pc0' = "check" /\ phase' = pend
        /\ pc1' = pc1 /\ motor' = motor
    BY <1>1, SwitchFacts DEF TickSwitch, PcTypes, Core0Free, TypeOK
  <2> QED
    BY <2>1 DEF SessionMove, DecidedPhase, Turning
<1>2. CASE TickCheck
  <2>1. /\ pc0 = "check" /\ pc1 # "stopping" /\ pc1' = pc1 /\ phase' = phase
        /\ \/ pc0' = "wait" /\ motor' = motor
           \/ /\ pc0' = "abort" /\ motor' = "off"
              /\ phase \notin {"IDLE", "COMPLETED", "TIMEOUT"}
    BY <1>2 DEF TickCheck, Inv, CoresInv, MayReadNegative, MayReadStale, TimedOut, Grinding,
       Core0Free
  <2>2. /\ DecidedPhase = phase
        /\ \/ DecidedPhase' = phase /\ motor' = motor
           \/ DecidedPhase' = "TIMEOUT" /\ motor' = "off"
              /\ phase \notin {"IDLE", "COMPLETED", "TIMEOUT"}
    BY <2>1 DEF DecidedPhase
  <2> QED
    BY <2>2 DEF SessionMove, Turning
<1>3. CASE TickAbort
  <2>1. /\ pc0 = "abort" /\ pc1 # "stopping" /\ pc0' = "wait" /\ phase' = "TIMEOUT"
        /\ pc1' = pc1 /\ motor' = motor
    BY <1>3, SwitchFacts DEF TickAbort, Phases, Core0Free, TypeOK
  <2> QED
    BY <2>1 DEF SessionMove, DecidedPhase, Turning
<1>4. CASE RunPaused
  BY <1>4 DEF RunPaused, pcVars, SessionMove, DecidedPhase, Turning
<1> QED
  BY <1>1, <1>2, <1>3, <1>4

(* Buttons, timers and stop_grind(): what the user does to a session.       *)
LEMMA UserMoves ==
    ASSUME TypeOK, ~Preemptive, Inv, User \/ StopFinish \/ CompleteTimer \/ TimeoutTimer
    PROVE  SessionMove
<1> USE DEF UiActs, Core1Free, NextRound
<1>1. CASE StartGrind
  <2>1. /\ pc0 = "wait" /\ pc1 = "act" /\ pc0' = pc0 /\ pc1' = "drain" /\ ui = "READY"
        /\ motor' = motor /\ SwitchPhase("INITIALIZING", "UNKNOWN")
    BY <1>1 DEF StartGrind
  <2>2. phase = "IDLE" /\ phase' = "INITIALIZING"
    BY <2>1 DEF Inv, ReadyInv, SwitchPhase
  <2>3. DecidedPhase = "IDLE" /\ DecidedPhase' = "INITIALIZING"
    BY <2>1, <2>2 DEF DecidedPhase
  <2> QED
    BY <2>1, <2>3 DEF Inv, MotorFits, SessionMove, Turning
<1>2. CASE StopBegin
  <2>1. /\ pc0 = "wait" /\ pc1 = "act" /\ pc1' = "stopping" /\ motor' = "off"
    BY <1>2 DEF StopBegin
  <2>2. DecidedPhase' = "IDLE"
    BY <2>1 DEF DecidedPhase
  <2> QED
    BY <2>1, <2>2 DEF Inv, MotorFits, SessionMove, Turning
<1>3. CASE StopFinish
  <2>1. /\ pc1 = "stopping" /\ pc0 = "wait" /\ pc0' = pc0 /\ pc1' = "drain" /\ motor' = motor
        /\ SwitchPhase("IDLE", last_session_result)
    BY <1>3 DEF StopFinish, LeaveSession, Inv, CoresInv
  <2>2. phase' = "IDLE"
    BY <2>1 DEF SwitchPhase
  <2> QED
    BY <2>1, <2>2 DEF SessionMove, DecidedPhase, Turning
<1>4. CASE OkButton \/ AutoReturn \/ CompleteTimer \/ TimeoutTimer
  <2>1. /\ pc0 = "wait" /\ pc1 = "act" /\ pc0' = pc0 /\ pc1' = "drain" /\ motor' = motor
        /\ ReturnToIdle
    BY <1>4 DEF OkButton, AutoReturn, CompleteTimer, TimeoutTimer
  <2>2. \/ phase' = phase
        \/ phase \in {"COMPLETED", "TIMEOUT"} /\ phase' = "IDLE"
    BY <2>1 DEF ReturnToIdle, LeaveSession, SwitchPhase, swVars
  <2>3. DecidedPhase = phase /\ DecidedPhase' = phase'
    BY <2>1 DEF DecidedPhase
  <2> QED
    BY <2>1, <2>2, <2>3 DEF Inv, MotorFits, SessionMove, Turning
<1>5. CASE ContinueFromPurge
  <2>1. /\ pc0 = "wait" /\ pc1 = "act" /\ pc0' = pc0 /\ pc1' = "drain"
        /\ \/ phase' = phase /\ motor' = motor
           \/ phase = "PURGE_CONFIRM" /\ phase' = "PREDICTIVE"
    BY <1>5 DEF ContinueFromPurge, SwitchPhase, swVars
  <2>2. DecidedPhase = phase /\ DecidedPhase' = phase'
    BY <2>1 DEF DecidedPhase
  <2> QED
    BY <2>1, <2>2 DEF SessionMove, Turning, Grinding
<1>6. CASE AdditionalPulse
  <2>1. /\ pc0 = "wait" /\ pc1 = "act" /\ pc0' = pc0 /\ pc1' = "drain" /\ motor' = "pulse"
        /\ phase = "COMPLETED" /\ phase' = "TIME_ADDITIONAL_PULSE"
    BY <1>6 DEF AdditionalPulse, SwitchPhase
  <2> QED
    BY <2>1 DEF SessionMove, DecidedPhase, Turning
<1> QED
  BY <1>1, <1>2, <1>3, <1>4, <1>5, <1>6 DEF User

LEMMA StepMoves ==
    ASSUME TypeOK, ~Preemptive, Inv, [Next]_vars
    PROVE  SessionMove
<1>1. CASE \/ UNCHANGED vars \/ RunIdle \/ UiRound \/ UiDrained \/ UiEvent
           \/ FlashBegin \/ FlashFinish \/ ApplyTare \/ Elapse
  <2>1. /\ UNCHANGED <<phase, pc0, pend, motor>>
        /\ pc1' = pc1 \/ (pc1 # "stopping" /\ pc1' # "stopping")
    BY <1>1 DEF vars, RunIdle, UiRound, UiDrained, UiEvent, FlashBegin, FlashFinish,
       ApplyTare, Elapse, NextRound, swVars, pcVars
  <2> QED
    BY <2>1 DEF SessionMove, DecidedPhase, Turning
<1>2. CASE PulseDoneIsr
  <2>1. motor = "pulse" /\ motor' = "spent" /\ DecidedPhase' = DecidedPhase
    BY <1>2 DEF PulseDoneIsr, swVars, pcVars, DecidedPhase
  <2> QED
    BY <2>1 DEF Inv, MotorFits, SessionMove, Turning, Grinding
<1>3. CASE Handler \/ RunSetup \/ RunEnded
  BY <1>3, HandlerMoves
<1>4. CASE TickSwitch \/ TickCheck \/ TickAbort \/ RunPaused
  BY <1>4, TickMoves
<1>5. CASE User \/ StopFinish \/ CompleteTimer \/ TimeoutTimer
  BY <1>5, UserMoves
<1> QED
  BY <1>1, <1>2, <1>3, <1>4, <1>5 DEF Next, Core0, Handler

(* The controller, with its queues, its two tasks and its failsafes,        *)
(* implements GrindSession: to the user, stage and drive change together,   *)
(* a grind completes only with the motor off, and every way out stops it.   *)
THEOREM Refinement ==
    ASSUME ~Preemptive
    PROVE  Spec => ImplementsSession
<1>1. Init => Session!Init
  <2>1. Init => DecidedPhase = "IDLE"
    BY DEF Init, DecidedPhase
  <2>2. DecidedPhase = "IDLE" => Stage = "idle"
    BY StageFacts DEF Phases
  <2>3. Init => ~Turning
    BY DEF Init, Turning
  <2> QED
    BY <2>1, <2>2, <2>3 DEF Session!Init, Turning
<1>2. TypeOK /\ TypeOK' /\ Inv /\ [Next]_vars => [Session!Next]_(Session!vars)
  BY StepMoves, MoveRefines
<1> QED
  BY <1>1, <1>2, TypeCorrect, Invariance, PTL DEF Spec, ImplementsSession, Session!Spec

-----------------------------------------------------------------------------
(* What becomes of a session's record.  START is accepted once the file I/O *)
(* task is idle, and a finished grind has asked for its flush before it is  *)
(* left; then the logger, its one request and the phase stay together.     *)

\* START was pressed and start_grind_session() has not been called yet.
Unopened == phase = "INITIALIZING" \/ (phase = "SETUP" /\ pc0 # "switch")

\* The grind under way is the session being logged.
Open == /\ phase \in Setup \cup Grinding \cup {"PURGE_CONFIRM"}
        /\ ~Unopened
        /\ pc1 # "stopping"

\* Where a pending switch comes from.
PendInv ==
    pc0 = "switch" =>
        /\ phase \notin {"IDLE", "PURGE_CONFIRM", "COMPLETED", "TIMEOUT"}
        /\ pend \notin {"IDLE", "INITIALIZING", "TIME_ADDITIONAL_PULSE"}
        /\ phase = "INITIALIZING" <=> pend = "SETUP"
        /\ phase = "TIME_ADDITIONAL_PULSE" => pend = "COMPLETED"

\* The flush of this session need not be asked for any more.
Asked == ~logging_active \/ session_end_flash_queued

LogInv ==
    /\ Unopened => /\ ~logging_active /\ ~session_end_flash_queued
                   /\ fate[session_id] # "running"
    /\ Open => /\ logging_active /\ ~session_end_flash_queued
               /\ fate[session_id] = "running"
    /\ phase \in {"COMPLETED", "TIME_ADDITIONAL_PULSE"} => fate[session_id] = "completed"
    /\ phase = "TIMEOUT" => /\ fate[session_id] # "running"
                            /\ Asked \/ fate[session_id] = "timedout"
    /\ phase = "IDLE" => fate[session_id] # "running"
    /\ phase \in {"IDLE", "TIME_ADDITIONAL_PULSE"} => Asked
    /\ pc1 = "stopping" => ~logging_active /\ fate[session_id] # "running"

\* A request that says of the current session what became of it.
Tells(r) == /\ r.session = session_id
            /\ fate[session_id] \in {"completed", "timedout"}
            /\ r.result = "TIMEOUT" <=> fate[session_id] = "timedout"

FlushInv ==
    /\ ~session_end_flash_queued => flash_op_queue = <<>> /\ io = <<>>
    /\ logging_active /\ session_end_flash_queued => flash_op_queue # <<>> \/ io # <<>>
    /\ \A i \in 1 .. Len(flash_op_queue) : Tells(flash_op_queue[i])

RecordInv == PendInv /\ LogInv /\ FlushInv /\ SavedOnlyWhenFinished

\* What the record of a session is made of.
recVars == <<logging_active, session_id, session_end_flash_queued, fate,
             flash_op_queue, io, saved>>

(* Steps that leave the record alone, and the phase with it.                *)
LEMMA RecordStill ==
    ASSUME RecordInv, UNCHANGED recVars, phase' = phase,
           pc1' = "stopping" <=> pc1 = "stopping",
           phase = "SETUP" => (pc0' = "switch" <=> pc0 = "switch"),
           PendInv'
    PROVE  RecordInv'
<1>1. UNCHANGED <<logging_active, session_id, session_end_flash_queued, fate,
                  flash_op_queue, io, saved>>
  BY DEF recVars
<1>2. LogInv'
  BY <1>1 DEF RecordInv, LogInv, Unopened, Open, Asked
<1>3. FlushInv'
  BY <1>1 DEF RecordInv, FlushInv, Tells
<1>4. SavedOnlyWhenFinished'
  BY <1>1 DEF RecordInv, SavedOnlyWhenFinished
<1> QED
  BY <1>2, <1>3, <1>4 DEF RecordInv

(* A handler decides where to switch from the phase it handles.             *)
LEMMA HandlerPend ==
    ASSUME TypeOK, ~Preemptive, Handler
    PROVE  /\ UNCHANGED recVars /\ PendInv'
           /\ phase' = phase /\ phase # "SETUP" /\ pc1' = pc1
<1> USE DEF Tick, HandlerFrame, MotorHandler, ctlVars, ioVars, logVars, recVars, PendInv
<1>1. CASE RunInitializing
  BY <1>1 DEF RunInitializing, Proceed, Hold
<1>2. CASE RunTaring
  BY <1>2 DEF RunTaring, Proceed, Hold
<1>3. CASE RunTareConfirm \/ RunPrime \/ RunPrimeSettling
  BY <1>3 DEF RunTareConfirm, RunPrime, RunPrimeSettling, Proceed, Hold
<1>4. CASE RunPredictive \/ RunPulseSettling \/ RunPulseDecision \/ RunPulseExecute
  BY <1>4 DEF RunPredictive, RunPulseSettling, RunPulseDecision, RunPulseExecute,
     Proceed, Hold
<1>5. CASE RunTimeGrinding \/ RunFinalSettling \/ RunAdditionalPulse
  BY <1>5 DEF RunTimeGrinding, RunFinalSettling, RunAdditionalPulse, Proceed, Hold
<1> QED
  BY <1>1, <1>2, <1>3, <1>4, <1>5 DEF Handler

(* start_grind_session() opens the record of a new session.                 *)
LEMMA SetupRecord ==
    ASSUME TypeOK, ~Preemptive, RecordInv, RunSetup
    PROVE  RecordInv'
<1>1. /\ phase = "SETUP" /\ pc0 = "wait" /\ phase' = phase /\ pc1' = pc1 /\ pc1 # "stopping"
      /\ pc0' = "switch" /\ pend' = "TARING"
      /\ session_id' = session_id + 1 /\ session_id < MaxSessions /\ logging_active'
      /\ fate' = [fate EXCEPT ![session_id + 1] = "running"]
      /\ UNCHANGED <<session_end_flash_queued, flash_op_queue, io, saved>>
  BY DEF RunSetup, Tick, Core0Free, Proceed, HandlerFrame, ctlVars, ioVars
<1>2. ~session_end_flash_queued /\ flash_op_queue = <<>> /\ io = <<>>
  BY <1>1 DEF RecordInv, LogInv, FlushInv, Unopened
<1>3. session_id + 1 \in SessionIds
  BY <1>1, ConstantsAssumption DEF TypeOK, LogTypes, SessionIds
<1>4. fate'[session_id'] = "running"
  BY <1>1, <1>3 DEF TypeOK
<1>5. PendInv'
  BY <1>1 DEF PendInv
<1>6. LogInv'
  BY <1>1, <1>2, <1>4 DEF LogInv, Unopened, Open, Setup
<1>7. FlushInv'
  BY <1>1, <1>2 DEF FlushInv
<1>8. SavedOnlyWhenFinished'
  BY <1>1 DEF RecordInv, SavedOnlyWhenFinished
<1> QED
  BY <1>5, <1>6, <1>7, <1>8 DEF RecordInv

(* The end of a session is asked for once, of an empty queue.               *)
LEMMA EndedRecord ==
    ASSUME TypeOK, ~Preemptive, RecordInv, RunEnded
    PROVE  RecordInv'
<1>1. /\ phase \in {"COMPLETED", "TIMEOUT"} /\ pc0 = "wait" /\ pc0' = "check"
      /\ pc1 # "stopping" /\ pc1' = pc1
      /\ UNCHANGED <<phase, logging_active, session_id, fate, io, saved>>
  BY DEF RunEnded, Tick, Core0Free, Hold, swVars, logVars
<1>2. PendInv'
  BY <1>1 DEF PendInv
<1>3. SavedOnlyWhenFinished'
  BY <1>1 DEF RecordInv, SavedOnlyWhenFinished
<1>4. CASE logging_active /\ ~session_end_flash_queued
  <2> DEFINE r == [session |-> session_id, result |-> ResultString]
  <2>1. session_end_flash_queued' /\ flash_op_queue' = QueueFlashOperation(r)
    BY <1>4 DEF RunEnded
  <2>2. flash_op_queue = <<>> /\ io = <<>>
    BY <1>4 DEF RecordInv, FlushInv
  <2>3. Len(<<>>) < FlashQueueSize
    BY ConstantsAssumption
  <2>4. flash_op_queue' = <<r>>
    BY <2>1, <2>2, <2>3 DEF QueueFlashOperation
  <2>5. ResultString = "TIMEOUT" <=> phase = "TIMEOUT"
    BY DEF ResultString
  <2>6. /\ phase = "TIMEOUT" => fate[session_id] = "timedout"
        /\ phase = "COMPLETED" => fate[session_id] = "completed"
    BY <1>4 DEF RecordInv, LogInv, Asked
  <2>7. r.session = session_id /\ r.result = ResultString
    OBVIOUS
  <2>8. Len(flash_op_queue') = 1 /\ flash_op_queue'[1] = r /\ flash_op_queue' # <<>>
    BY <2>4
  <2>9. Tells(flash_op_queue[1])'
    BY <1>1, <2>5, <2>6, <2>7, <2>8 DEF Tells
  <2>10. FlushInv'
    BY <1>1, <2>1, <2>8, <2>9 DEF FlushInv
  <2>11. LogInv'
    BY <1>1, <2>1 DEF RecordInv, LogInv, Unopened, Open, Asked, Setup, Grinding
  <2> QED
    BY <1>2, <1>3, <2>10, <2>11 DEF RecordInv
<1>5. CASE ~(logging_active /\ ~session_end_flash_queued)
  <2>1. UNCHANGED recVars
    BY <1>1, <1>5 DEF RunEnded, recVars
  <2> QED
    BY <1>1, <1>2, <2>1, RecordStill
<1> QED
  BY <1>4, <1>5

(* What switch_phase() records: the session that runs ends when it comes to *)
(* COMPLETED or TIMEOUT.                                                    *)
LEMMA SwitchRecord ==
    ASSUME TypeOK, NEW new \in Phases, NEW result, new # phase, SwitchPhase(new, result)
    PROVE  /\ phase' = new
           /\ fate[session_id] # "running" \/ new \notin {"COMPLETED", "TIMEOUT"} => fate' = fate
           /\ fate[session_id] = "running" /\ new = "COMPLETED" =>
                 fate' = [fate EXCEPT ![session_id] = "completed"]
           /\ fate[session_id] = "running" /\ new = "TIMEOUT" =>
                 fate' = [fate EXCEPT ![session_id] = "timedout"]
BY DEF SwitchPhase, FateAfter

(* Steps that change the phase, and the session's fate with it, and no more. *)
LEMMA FlushStill ==
    ASSUME TypeOK, RecordInv,
           UNCHANGED <<logging_active, session_id, session_end_flash_queued,
                       flash_op_queue, io, saved>>,
           fate' = fate \/ fate[session_id] = "running"
    PROVE  FlushInv' /\ SavedOnlyWhenFinished'
<1>0. UNCHANGED <<logging_active, session_id, session_end_flash_queued,
                  flash_op_queue, io, saved>>
  OBVIOUS
<1>1. SavedOnlyWhenFinished'
  BY DEF RecordInv, SavedOnlyWhenFinished
<1>2. CASE fate' = fate
  BY <1>0, <1>1, <1>2 DEF RecordInv, FlushInv, Tells
<1>3. CASE fate[session_id] = "running"
  <2>1. \A i \in 1 .. Len(flash_op_queue) : FALSE
    BY <1>3 DEF RecordInv, FlushInv, Tells
  <2> QED
    BY <1>0, <1>1, <2>1 DEF RecordInv, FlushInv
<1> QED
  BY <1>1, <1>2, <1>3

LEMMA SwitchTickRecord ==
    ASSUME TypeOK, ~Preemptive, RecordInv, TickSwitch
    PROVE  RecordInv'
<1>1. /\ pc0 = "switch" /\ pc0' = "check" /\ pc1' = pc1 /\ pc1 # "stopping"
      /\ UNCHANGED <<logging_active, session_id, session_end_flash_queued,
                     flash_op_queue, io, saved>>
  BY DEF TickSwitch, Core0Free, logVars, ioVars
<1>2. /\ phase \in Phases \ {"IDLE", "PURGE_CONFIRM", "COMPLETED", "TIMEOUT"}
      /\ pend \in Phases \ {"IDLE", "INITIALIZING", "TIME_ADDITIONAL_PULSE"}
      /\ phase = "INITIALIZING" <=> pend = "SETUP"
      /\ phase = "TIME_ADDITIONAL_PULSE" => pend = "COMPLETED"
  BY <1>1 DEF RecordInv, PendInv, TypeOK, SwTypes, PcTypes
<1>3. SwitchPhase(pend, last_session_result)
  BY DEF TickSwitch
<1>4. session_id \in SessionIds /\ fate \in [SessionIds -> Fates]
  BY DEF TypeOK, LogTypes
<1>5. phase' = pend
  BY <1>3 DEF SwitchPhase
<1>6. PendInv'
  BY <1>1 DEF PendInv
<1>7. /\ phase = "INITIALIZING" => /\ ~logging_active /\ ~session_end_flash_queued
                                   /\ fate[session_id] # "running"
      /\ phase \in Grinding \cup (Setup \ {"INITIALIZING"}) =>
            /\ logging_active /\ ~session_end_flash_queued /\ fate[session_id] = "running"
      /\ phase = "TIME_ADDITIONAL_PULSE" => Asked /\ fate[session_id] = "completed"
  BY <1>1, <1>2 DEF RecordInv, LogInv, Unopened, Open, Setup, Grinding
<1>8. CASE pend = phase
  <2>1. fate' = fate
    BY <1>3, <1>8 DEF SwitchPhase
  <2>2. LogInv'
    BY <1>1, <1>2, <1>5, <1>7, <1>8, <2>1 DEF LogInv, Unopened, Open, Asked, Setup, Grinding, Phases
  <2> QED
    BY <1>1, <1>6, <2>1, <2>2, FlushStill DEF RecordInv
<1>9. CASE phase = "INITIALIZING"
  <2>1. phase' = "SETUP" /\ fate' = fate
    BY <1>2, <1>3, <1>5, <1>7, <1>9, SwitchRecord
  <2>2. LogInv'
    BY <1>1, <1>7, <1>9, <2>1 DEF LogInv, Unopened, Open, Setup, Grinding
  <2> QED
    BY <1>1, <1>6, <2>1, <2>2, FlushStill DEF RecordInv
<1>10. CASE phase = "TIME_ADDITIONAL_PULSE"
  <2>1. phase' = "COMPLETED" /\ fate' = fate
    BY <1>2, <1>3, <1>5, <1>7, <1>10, SwitchRecord
  <2>2. LogInv'
    BY <1>1, <1>7, <1>10, <2>1 DEF LogInv, Unopened, Open, Setup, Grinding
  <2> QED
    BY <1>1, <1>6, <2>1, <2>2, FlushStill DEF RecordInv
<1>11. CASE pend # phase /\ phase \in Grinding \cup (Setup \ {"INITIALIZING"})
  <2>1. fate[session_id] = "running" /\ logging_active /\ ~session_end_flash_queued
    BY <1>7, <1>11
  <2>2. /\ pend \notin {"COMPLETED", "TIMEOUT"} => fate'[session_id] = "running"
        /\ pend = "COMPLETED" => fate'[session_id] = "completed"
        /\ pend = "TIMEOUT" => fate'[session_id] = "timedout"
    BY <1>2, <1>3, <1>4, <1>11, <2>1, SwitchRecord
  <2>3. phase' \notin {"IDLE", "INITIALIZING", "SETUP", "TIME_ADDITIONAL_PULSE"}
    BY <1>2, <1>5, <1>11 DEF Grinding
  <2>4. LogInv'
    BY <1>1, <1>5, <2>1, <2>2, <2>3 DEF LogInv, Unopened, Open, Asked, Setup, Grinding
  <2> QED
    BY <1>1, <1>6, <2>1, <2>4, FlushStill DEF RecordInv
<1> QED
  BY <1>2, <1>8, <1>9, <1>10, <1>11 DEF Phases

LEMMA AbortRecord ==
    ASSUME TypeOK, ~Preemptive, Inv, RecordInv, TickAbort
    PROVE  RecordInv'
<1>1. /\ pc0 = "abort" /\ pc0' = "wait" /\ pc1' = pc1 /\ pc1 # "stopping"
      /\ UNCHANGED <<logging_active, session_id, session_end_flash_queued,
                     flash_op_queue, io, saved>>
  BY DEF TickAbort, Core0Free, logVars, ioVars, ctlVars
<1>2. phase \in Phases \ {"IDLE", "COMPLETED", "TIMEOUT"}
  BY <1>1 DEF Inv, CoresInv, TypeOK, SwTypes
<1>3. SwitchPhase("TIMEOUT", last_session_result) /\ "TIMEOUT" \in Phases
  BY DEF TickAbort, Phases
<1>4. session_id \in SessionIds /\ fate \in [SessionIds -> Fates]
  BY DEF TypeOK, LogTypes
<1>5. PendInv'
  BY <1>1 DEF PendInv
<1>6. /\ phase' = "TIMEOUT"
      /\ fate[session_id] # "running" => fate' = fate
      /\ fate[session_id] = "running" =>
            fate' = [fate EXCEPT ![session_id] = "timedout"]
  BY <1>2, <1>3, SwitchRecord
<1>7. /\ fate'[session_id] # "running"
      /\ fate[session_id] = "running" => fate'[session_id] = "timedout"
  BY <1>4, <1>6
<1>8. fate[session_id] # "running" => Asked
  BY <1>1, <1>2 DEF RecordInv, LogInv, Unopened, Open, Asked, Phases
<1>9. LogInv'
  BY <1>1, <1>6, <1>7, <1>8 DEF LogInv, Unopened, Open, Asked, Setup, Grinding
<1> QED
  BY <1>1, <1>5, <1>6, <1>9, FlushStill DEF RecordInv

(* START finds the logger closed: what it logged was flushed or discarded.  *)
LEMMA StartRecord ==
    ASSUME TypeOK, ~Preemptive, "fileio" \in Prompt, Inv, RecordInv, StartGrind
    PROVE  RecordInv'
<1>1. /\ pc0 = "wait" /\ pc1 = "act" /\ pc1' = "drain" /\ pc0' = "wait" /\ ui = "READY"
      /\ flash_op_queue = <<>> /\ io = <<>> /\ ~session_end_flash_queued'
      /\ SwitchPhase("INITIALIZING", "UNKNOWN")
      /\ UNCHANGED <<logging_active, session_id, flash_op_queue, io, saved>>
  BY DEF StartGrind, UiActs, Core1Free, NextRound, logVars, ioVars
<1>2. phase = "IDLE"
  BY <1>1 DEF Inv, ReadyInv
<1>3. ~logging_active /\ fate[session_id] # "running"
  BY <1>1, <1>2 DEF RecordInv, LogInv, FlushInv, Asked
<1>4. phase' = "INITIALIZING" /\ fate' = fate
  BY <1>1, <1>2, <1>3 DEF SwitchPhase, FateAfter
<1>5. PendInv'
  BY <1>1 DEF PendInv
<1>6. LogInv'
  BY <1>1, <1>3, <1>4 DEF LogInv, Unopened, Open
<1>7. FlushInv'
  BY <1>1, <1>3 DEF FlushInv
<1>8. SavedOnlyWhenFinished'
  BY <1>1 DEF RecordInv, SavedOnlyWhenFinished
<1> QED
  BY <1>5, <1>6, <1>7, <1>8 DEF RecordInv

LEMMA StopRecord ==
    ASSUME TypeOK, ~Preemptive, Inv, RecordInv, StopBegin \/ StopFinish
    PROVE  RecordInv'
<1>0. session_id \in SessionIds /\ fate \in [SessionIds -> Fates]
  BY DEF TypeOK, LogTypes
<1>1. CASE StopBegin
  <2>1. /\ pc0 = "wait" /\ pc0' = "wait" /\ pc1' = "stopping" /\ ~logging_active' /\ Discard
        /\ UNCHANGED <<phase, session_id, session_end_flash_queued, flash_op_queue, io, saved>>
    BY <1>1 DEF StopBegin, UiActs, Core1Free, Discard, ctlVars, swVars, ioVars
  <2>2. /\ fate[session_id] # "running" => fate' = fate
        /\ fate'[session_id] # "running"
    BY <1>0, <2>1 DEF Discard
  <2>3. PendInv'
    BY <2>1 DEF PendInv
  <2>4. LogInv'
    <3>1. Unopened' => Unopened
      BY <2>1 DEF Unopened
    <3>2. phase \in {"COMPLETED", "TIME_ADDITIONAL_PULSE"} => fate' = fate
      BY <2>2 DEF RecordInv, LogInv
    <3>3. ~Open' /\ Asked'
      BY <2>1 DEF Open, Asked
    <3> QED
      BY <2>1, <2>2, <3>1, <3>2, <3>3 DEF RecordInv, LogInv
  <2>5. FlushInv'
    <3>1. CASE fate' = fate
      BY <2>1, <3>1 DEF RecordInv, FlushInv, Tells
    <3>2. CASE fate[session_id] = "running"
      <4>1. \A i \in 1 .. Len(flash_op_queue) : FALSE
        BY <3>2 DEF RecordInv, FlushInv, Tells
      <4> QED
        BY <2>1, <4>1 DEF RecordInv, FlushInv
    <3> QED
      BY <2>2, <3>1, <3>2
  <2>6. SavedOnlyWhenFinished'
    BY <2>1 DEF RecordInv, SavedOnlyWhenFinished
  <2> QED
    BY <2>3, <2>4, <2>5, <2>6 DEF RecordInv
<1>2. CASE StopFinish
  <2>1. /\ pc0 = "wait" /\ pc0' = "wait" /\ pc1 = "stopping" /\ pc1' = "drain"
        /\ SwitchPhase("IDLE", last_session_result)
        /\ UNCHANGED <<logging_active, session_id, session_end_flash_queued,
                       flash_op_queue, io, saved>>
    BY <1>2 DEF StopFinish, LeaveSession, Inv, CoresInv, logVars, ioVars
  <2>2. phase' = "IDLE" /\ fate' = fate
    BY <2>1 DEF SwitchPhase, FateAfter
  <2>3. ~logging_active /\ fate[session_id] # "running"
    BY <2>1 DEF RecordInv, LogInv
  <2>4. PendInv'
    BY <2>1 DEF PendInv
  <2>5. LogInv'
    BY <2>1, <2>2, <2>3 DEF LogInv, Unopened, Open, Asked, Setup, Grinding
  <2> QED
    BY <2>1, <2>2, <2>4, <2>5, FlushStill DEF RecordInv
<1> QED
  BY <1>1, <1>2

(* A finished grind is left, or topped up, once its flush has been asked for. *)
LEMMA ButtonRecord ==
    ASSUME TypeOK, ~Preemptive, "control" \in Prompt, "auto" \in Prompt, RecordInv,
           \/ OkButton \/ AutoReturn \/ CompleteTimer \/ TimeoutTimer
           \/ ContinueFromPurge \/ AdditionalPulse
    PROVE  RecordInv'
<1>1. /\ pc0 = "wait" /\ pc0' = "wait" /\ pc1 = "act" /\ pc1' = "drain"
      /\ UNCHANGED <<logging_active, session_id, session_end_flash_queued,
                     flash_op_queue, io, saved>>
  BY DEF OkButton, AutoReturn, CompleteTimer, TimeoutTimer, ContinueFromPurge, AdditionalPulse,
     UiActs, Core1Free, NextRound, ReturnToIdle, LeaveSession, ctlVars, logVars, ioVars
<1>2. PendInv'
  BY <1>1 DEF PendInv
<1>3. CASE UNCHANGED <<phase, fate>>
  BY <1>1, <1>2, <1>3, RecordStill DEF recVars
<1>4. CASE OkButton \/ AutoReturn \/ CompleteTimer \/ TimeoutTimer
  <2>1. ReturnToIdle /\ (phase \in {"COMPLETED", "TIMEOUT"} => Asked)
    BY <1>4 DEF OkButton, AutoReturn, CompleteTimer, TimeoutTimer, EndAsked, Asked
  <2>2. CASE phase \in {"COMPLETED", "TIMEOUT"}
    <3>1. phase' = "IDLE" /\ fate' = fate /\ Asked
      BY <2>1, <2>2 DEF ReturnToIdle, LeaveSession, SwitchPhase, FateAfter
    <3>2. fate[session_id] # "running"
      BY <2>2 DEF RecordInv, LogInv
    <3>3. LogInv'
      BY <1>1, <3>1, <3>2 DEF LogInv, Unopened, Open, Asked, Setup, Grinding
    <3> QED
      BY <1>1, <1>2, <3>1, <3>3, FlushStill DEF RecordInv
  <2>3. CASE phase \notin {"COMPLETED", "TIMEOUT"}
    BY <1>3, <2>1, <2>3 DEF ReturnToIdle, swVars
  <2> QED
    BY <2>2, <2>3
<1>5. CASE ContinueFromPurge
  <2>1. CASE phase = "PURGE_CONFIRM"
    <3>1. phase' = "PREDICTIVE" /\ fate' = fate
      BY <1>5, <2>1 DEF ContinueFromPurge, SwitchPhase, FateAfter
    <3>2. logging_active /\ ~session_end_flash_queued /\ fate[session_id] = "running"
      BY <1>1, <2>1 DEF RecordInv, LogInv, Open, Unopened
    <3>3. LogInv'
      BY <1>1, <3>1, <3>2 DEF LogInv, Unopened, Open, Setup, Grinding
    <3> QED
      BY <1>1, <1>2, <3>1, <3>3, FlushStill DEF RecordInv
  <2>2. CASE phase # "PURGE_CONFIRM"
    BY <1>3, <1>5, <2>2 DEF ContinueFromPurge, swVars
  <2> QED
    BY <2>1, <2>2
<1>6. CASE AdditionalPulse
  <2>1. phase = "COMPLETED" /\ phase' = "TIME_ADDITIONAL_PULSE" /\ fate' = fate /\ Asked
    BY <1>6 DEF AdditionalPulse, SwitchPhase, FateAfter, EndAsked, Asked
  <2>2. fate[session_id] = "completed"
    BY <2>1 DEF RecordInv, LogInv
  <2>3. LogInv'
    BY <1>1, <2>1, <2>2 DEF LogInv, Unopened, Open, Asked, Setup, Grinding
  <2> QED
    BY <1>1, <1>2, <2>1, <2>3, FlushStill DEF RecordInv
<1> QED
  BY <1>4, <1>5, <1>6

(* The file is written under the id its request was made for, and clearing  *)
(* the buffers afterwards closes the logger.                                *)
LEMMA FlashRecord ==
    ASSUME TypeOK, RecordInv, FlashBegin \/ FlashFinish
    PROVE  RecordInv'
<1>1. /\ UNCHANGED <<phase, pc0, pend, pc1, session_id, session_end_flash_queued, fate>>
      /\ logging_active' => logging_active
  BY DEF FlashBegin, FlashFinish, ctlVars, swVars, logVars, pcVars
<1>2. session_end_flash_queued
  BY DEF FlashBegin, FlashFinish, RecordInv, FlushInv
<1>3. PendInv'
  BY <1>1 DEF RecordInv, PendInv
<1>4. LogInv'
  BY <1>1, <1>2 DEF RecordInv, LogInv, Unopened, Open, Asked
<1>5. CASE FlashBegin
  <2> DEFINE r == Head(flash_op_queue)
             file == [id |-> session_id, session |-> r.session,
                      result |-> r.result, fate |-> fate[session_id]]
  <2>1. /\ io = <<>> /\ flash_op_queue # <<>> /\ flash_op_queue' = Tail(flash_op_queue)
        /\ logging_active' = logging_active
        /\ \/ logging_active /\ io' = <<r>> /\ saved' = saved \cup {file}
           \/ ~logging_active /\ UNCHANGED <<io, saved>>
    BY <1>5 DEF FlashBegin, logVars
  <2>2. /\ Len(flash_op_queue) \in Nat \ {0}
        /\ Len(flash_op_queue') = Len(flash_op_queue) - 1
        /\ \A i \in 1 .. Len(flash_op_queue') : flash_op_queue'[i] = flash_op_queue[i + 1]
        /\ r = flash_op_queue[1]
    BY <2>1 DEF TypeOK, IoTypes
  <2>3. Tells(r)
    BY <2>2 DEF RecordInv, FlushInv
  <2>4. \A i \in 1 .. Len(flash_op_queue') : Tells(flash_op_queue'[i])
    <3>1. \A i \in 1 .. Len(flash_op_queue') : i + 1 \in 1 .. Len(flash_op_queue)
      BY <2>2
    <3> QED
      BY <2>2, <3>1 DEF RecordInv, FlushInv
  <2>5. \A i \in 1 .. Len(flash_op_queue') : Tells(flash_op_queue[i])'
    BY <1>1, <2>4 DEF Tells
  <2>6. logging_active' => io' # <<>>
    BY <2>1
  <2>7. FlushInv'
    BY <1>1, <1>2, <2>5, <2>6 DEF FlushInv
  <2>8. /\ file.id = file.session
        /\ file.fate \in {"completed", "timedout"}
        /\ file.result = "TIMEOUT" <=> file.fate = "timedout"
    BY <2>3 DEF Tells
  <2>9. SavedOnlyWhenFinished'
    BY <2>1, <2>8 DEF RecordInv, SavedOnlyWhenFinished
  <2> QED
    BY <1>3, <1>4, <2>7, <2>9 DEF RecordInv
<1>6. CASE FlashFinish
  <2>1. ~logging_active' /\ io' = <<>> /\ UNCHANGED <<flash_op_queue, saved>>
    BY <1>6 DEF FlashFinish
  <2>2. FlushInv'
    BY <1>1, <1>2, <2>1 DEF RecordInv, FlushInv, Tells
  <2>3. SavedOnlyWhenFinished'
    BY <2>1 DEF RecordInv, SavedOnlyWhenFinished
  <2> QED
    BY <1>3, <1>4, <2>2, <2>3 DEF RecordInv
<1> QED
  BY <1>5, <1>6

LEMMA RecordStep ==
    ASSUME TypeOK, ~Preemptive, {"control", "auto", "fileio"} \subseteq Prompt,
           Inv, RecordInv, [Next]_vars
    PROVE  RecordInv'
<1>1. CASE \/ UNCHANGED vars \/ RunIdle \/ RunPaused \/ UiRound \/ UiDrained \/ UiEvent
           \/ PulseDoneIsr \/ ApplyTare \/ Elapse
  <2>1. UNCHANGED <<logging_active, session_id, session_end_flash_queued, fate,
                    flash_op_queue, io, saved, phase, pc0, pend>>
    BY <1>1 DEF vars, RunIdle, RunPaused, UiRound, UiDrained, UiEvent, PulseDoneIsr, ApplyTare,
       Elapse, NextRound, ctlVars, swVars, logVars, ioVars, pcVars
  <2>2. pc1' = "stopping" <=> pc1 = "stopping"
    BY <1>1 DEF vars, RunIdle, RunPaused, UiRound, UiDrained, UiEvent, PulseDoneIsr, ApplyTare,
       Elapse, NextRound, pcVars
  <2>3. PendInv'
    BY <2>1 DEF RecordInv, PendInv
  <2> QED
    BY <2>1, <2>2, <2>3, RecordStill DEF recVars
<1>2. CASE Handler
  BY <1>2, HandlerPend, RecordStill
<1>3. CASE TickCheck
  <2>1. /\ UNCHANGED recVars /\ phase' = phase /\ pc1' = pc1
        /\ pc0 # "switch" /\ pc0' # "switch"
    BY <1>3 DEF TickCheck, recVars, ctlVars, logVars, ioVars
  <2>2. PendInv'
    BY <2>1 DEF PendInv
  <2> QED
    BY <2>1, <2>2, RecordStill
<1>4. CASE RunSetup
  BY <1>4, SetupRecord
<1>5. CASE RunEnded
  BY <1>5, EndedRecord
<1>6. CASE TickSwitch
  BY <1>6, SwitchTickRecord
<1>7. CASE TickAbort
  BY <1>7, AbortRecord
<1>8. CASE StartGrind
  BY <1>8, StartRecord
<1>9. CASE StopBegin \/ StopFinish
  BY <1>9, StopRecord
<1>10. CASE \/ OkButton \/ AutoReturn \/ CompleteTimer \/ TimeoutTimer
            \/ ContinueFromPurge \/ AdditionalPulse
  BY <1>10, ButtonRecord
<1>11. CASE FlashBegin \/ FlashFinish
  BY <1>11, FlashRecord
<1> QED
  BY <1>1, <1>2, <1>3, <1>4, <1>5, <1>6, <1>7, <1>8, <1>9, <1>10, <1>11
     DEF Next, Core0, User, Handler

(* The logger, its flush request and the phase stay together.               *)
THEOREM RecordInvariance ==
    ASSUME ~Preemptive, {"control", "auto", "fileio"} \subseteq Prompt
    PROVE  Spec => []RecordInv
<1>1. Init => RecordInv
  <2>1. Init => PendInv /\ SavedOnlyWhenFinished
    BY DEF Init, PendInv, SavedOnlyWhenFinished
  <2>2. Init => fate[session_id] = "none"
    BY ConstantsAssumption DEF Init, SessionIds
  <2>3. Init => LogInv
    BY <2>2 DEF Init, LogInv, Unopened, Open, Asked, Setup, Grinding
  <2>4. Init => FlushInv
    BY DEF Init, FlushInv
  <2> QED
    BY <2>1, <2>3, <2>4 DEF RecordInv
<1>2. TypeOK /\ Inv /\ RecordInv /\ [Next]_vars => RecordInv'
  BY RecordStep
<1> QED
  BY <1>1, <1>2, TypeCorrect, Invariance, PTL DEF Spec

(* A session file is written under the id of the session that asked for it, *)
(* after that session finished, and says TIMEOUT exactly when it was        *)
(* aborted, when START waits for the file I/O task and a finished grind has *)
(* asked for its flush before it is left: cancelled grinds are never saved. *)
THEOREM FilesAreTrue ==
    ASSUME ~Preemptive, {"control", "auto", "fileio"} \subseteq Prompt
    PROVE  Spec => []SavedOnlyWhenFinished
<1>1. RecordInv => SavedOnlyWhenFinished
  BY DEF RecordInv
<1> QED
  BY <1>1, RecordInvariance, PTL

-----------------------------------------------------------------------------
(* No finished grind is lost, when moreover a pass starts with the event    *)
(* queue drained and the queue holds the three events of a pass: the screen *)
(* of a finished grind has no STOP button by the time a button is pressed.  *)

\* Nothing is dropped: a pass starts with the queue empty and sends 3 events.
RoomInv ==
    /\ pc0 = "switch" => ui_event_queue = <<>>
    /\ pc0 = "check" => Len(ui_event_queue) <= 1
    /\ pc0 = "abort" => Len(ui_event_queue) <= 2
    /\ pc1 = "stopping" => ui_event_queue = <<>>

\* Events that bring up a screen with a STOP button, and those that take it away.
Raising == {"INITIALIZING", "PHASE_CHANGED", "PURGE_CONFIRM"}
Closing == {"COMPLETED", "TIMEOUT", "STOPPED"}

\* No STOP button once the queue is drained.
ClosedAfter(i) == \A j \in i + 1 .. Len(ui_event_queue) : ui_event_queue[j] \notin Raising
StopGoes ==
    \/ ui \notin {"GRINDING", "PURGE_CONFIRM"} /\ ClosedAfter(0)
    \/ \E i \in 1 .. Len(ui_event_queue) : ui_event_queue[i] \in Closing /\ ClosedAfter(i)

ScreenInv ==
    phase \in {"IDLE", "COMPLETED", "TIMEOUT", "TIME_ADDITIONAL_PULSE"}
        => StopGoes /\ pc1 # "stopping"

\* What is being flushed has its file already.
WrittenInv == io # <<>> => \E f \in saved : f.id = session_id

KeptInv == RoomInv /\ ScreenInv /\ WrittenInv /\ CompletedGrindRecorded

(* An event that raises no STOP button, sent or dropped, brings none back.  *)
LEMMA EmitGoes ==
    ASSUME SwTypes, NEW e \in Events \ Raising, ui_event_queue' = EmitUiEvent(e), ui' = ui,
           StopGoes
    PROVE  StopGoes'
<1>1. CASE Len(ui_event_queue) < UiQueueSize
  <2>1. /\ Len(ui_event_queue') = Len(ui_event_queue) + 1
        /\ Len(ui_event_queue) \in Nat
        /\ \A i \in 1 .. Len(ui_event_queue) : ui_event_queue'[i] = ui_event_queue[i]
        /\ ui_event_queue'[Len(ui_event_queue) + 1] = e
    BY <1>1 DEF EmitUiEvent, SwTypes
  <2>2. \A i \in 0 .. Len(ui_event_queue) : ClosedAfter(i) => ClosedAfter(i)'
    <3> SUFFICES ASSUME NEW i \in 0 .. Len(ui_event_queue), ClosedAfter(i),
                        NEW j \in i + 1 .. Len(ui_event_queue')
                 PROVE  ui_event_queue'[j] \notin Raising
      BY DEF ClosedAfter, Raising
    <3>1. j \in i + 1 .. Len(ui_event_queue) \/ j = Len(ui_event_queue) + 1
      BY <2>1
    <3>2. CASE j = Len(ui_event_queue) + 1
      BY <2>1, <3>2
    <3>3. CASE j \in i + 1 .. Len(ui_event_queue)
      <4>1. j \in 1 .. Len(ui_event_queue)
        BY <2>1, <3>3
      <4> QED
        BY <2>1, <3>3, <4>1 DEF ClosedAfter
    <3> QED
      BY <3>1, <3>2, <3>3
  <2>3. 0 \in 0 .. Len(ui_event_queue)
    BY <2>1
  <2>4. \A i \in 1 .. Len(ui_event_queue) :
           i \in 0 .. Len(ui_event_queue) /\ i \in 1 .. Len(ui_event_queue')
    BY <2>1
  <2>5. CASE ui \notin {"GRINDING", "PURGE_CONFIRM"} /\ ClosedAfter(0)
    BY <2>2, <2>3, <2>5 DEF StopGoes
  <2>6. ASSUME NEW i \in 1 .. Len(ui_event_queue), ui_event_queue[i] \in Closing, ClosedAfter(i)
        PROVE  StopGoes'
    BY <2>1, <2>2, <2>4, <2>6 DEF StopGoes, Closing
  <2> QED
    BY <2>5, <2>6 DEF StopGoes
<1>2. CASE ~(Len(ui_event_queue) < UiQueueSize)
  BY <1>2 DEF EmitUiEvent, StopGoes, ClosedAfter, Raising, Closing
<1> QED
  BY <1>1, <1>2

(* A closing event that is sent takes the STOP button away, in its turn.    *)
LEMMA CloseGoes ==
    ASSUME SwTypes, NEW e \in Closing, ui_event_queue' = EmitUiEvent(e),
           Len(ui_event_queue) < UiQueueSize
    PROVE  StopGoes'
<1> DEFINE n == Len(ui_event_queue')
<1>1. /\ n = Len(ui_event_queue) + 1 /\ Len(ui_event_queue) \in Nat
      /\ ui_event_queue'[n] = e
  BY DEF EmitUiEvent, SwTypes, Closing, Events
<1>2. n \in 1 .. n /\ n + 1 .. n = {}
  BY <1>1
<1> QED
  BY <1>1, <1>2 DEF StopGoes, ClosedAfter, Closing

(* Handling the event at the head keeps the end of the queue's promise.     *)
LEMMA PopGoes ==
    ASSUME SwTypes, ui_event_queue # <<>>, ui_event_queue' = Tail(ui_event_queue),
           HandleGrindEvent(Head(ui_event_queue)), StopGoes
    PROVE  StopGoes'
<1> DEFINE e == Head(ui_event_queue)
<1>1. /\ Len(ui_event_queue) \in Nat \ {0}
      /\ Len(ui_event_queue') = Len(ui_event_queue) - 1
      /\ \A i \in 1 .. Len(ui_event_queue') : ui_event_queue'[i] = ui_event_queue[i + 1]
      /\ e = ui_event_queue[1] /\ e \in Events
  BY DEF SwTypes
<1>2. \A i \in 1 .. Len(ui_event_queue) : ClosedAfter(i) =>
          \A j \in i .. Len(ui_event_queue') : ui_event_queue'[j] \notin Raising
  <2> SUFFICES ASSUME NEW i \in 1 .. Len(ui_event_queue), ClosedAfter(i),
                      NEW j \in i .. Len(ui_event_queue')
               PROVE  ui_event_queue'[j] \notin Raising
    OBVIOUS
  <2>1. j \in 1 .. Len(ui_event_queue') /\ j + 1 \in i + 1 .. Len(ui_event_queue)
    BY <1>1
  <2> QED
    BY <1>1, <2>1 DEF ClosedAfter
<1>3. /\ e \in Closing => ui' \notin {"GRINDING", "PURGE_CONFIRM"}
      /\ e \notin Raising => ui' = ui \/ ui' \notin {"GRINDING", "PURGE_CONFIRM"}
  BY <1>1 DEF HandleGrindEvent, ShowScreen, ScreenOf, ScreenEvents, uiVars, Events, Raising,
     Closing
<1>4. CASE ui \notin {"GRINDING", "PURGE_CONFIRM"} /\ ClosedAfter(0)
  <2>1. 1 \in 0 + 1 .. Len(ui_event_queue)
    BY <1>1
  <2>2. e \notin Raising /\ ClosedAfter(1)
    <3>1. \A j \in 1 + 1 .. Len(ui_event_queue) : j \in 0 + 1 .. Len(ui_event_queue)
      BY <1>1
    <3> QED
      BY <1>1, <1>4, <2>1, <3>1 DEF ClosedAfter
  <2>3. 1 \in 1 .. Len(ui_event_queue)
    BY <1>1
  <2>4. ClosedAfter(0)'
    BY <1>2, <2>2, <2>3 DEF ClosedAfter, Raising
  <2> QED
    BY <1>3, <1>4, <2>2, <2>4 DEF StopGoes
<1>5. ASSUME NEW i \in 1 .. Len(ui_event_queue), ui_event_queue[i] \in Closing, ClosedAfter(i)
      PROVE  StopGoes'
  <2>1. CASE i = 1
    <3>1. ClosedAfter(0)'
      BY <1>2, <1>5, <2>1 DEF ClosedAfter, Raising
    <3> QED
      BY <1>1, <1>3, <1>5, <2>1, <3>1 DEF StopGoes
  <2>2. CASE i # 1
    <3> DEFINE k == i - 1
    <3>1. k \in 1 .. Len(ui_event_queue') /\ k + 1 = i
      BY <1>1, <2>2
    <3>2. ui_event_queue'[k] \in Closing
      BY <1>1, <1>5, <3>1
    <3>3. \A j \in k + 1 .. Len(ui_event_queue') : ui_event_queue'[j] \notin Raising
      BY <1>2, <1>5, <3>1
    <3> QED
      BY <3>1, <3>2, <3>3 DEF StopGoes, ClosedAfter, Raising, Closing
  <2> QED
    BY <2>1, <2>2
<1> QED
  BY <1>4, <1>5 DEF StopGoes

LEMMA EmitLength ==
    ASSUME SwTypes, NEW e \in Events, ui_event_queue' = EmitUiEvent(e)
    PROVE  /\ Len(ui_event_queue) \in Nat /\ Len(ui_event_queue') \in Nat
           /\ Len(ui_event_queue') <= Len(ui_event_queue) + 1
BY DEF SwTypes, EmitUiEvent

(* A pass sends at most three events, into an empty queue.                  *)
LEMMA RoomStep ==
    ASSUME TypeOK, ~Preemptive, "ui" \in Prompt, Inv, RecordInv, RoomInv, [Next]_vars
    PROVE  RoomInv'
<1> USE DEF RoomInv
<1>0. Len(<<>>) = 0
  OBVIOUS
<1>1. CASE Handler \/ RunSetup \/ RunEnded
  <2>1. ui_event_queue = <<>>
    BY <1>1 DEF Handler, RunInitializing, RunSetup, RunTaring, RunTareConfirm, RunPrime,
       RunPrimeSettling, RunPredictive, RunPulseSettling, RunPulseDecision, RunPulseExecute,
       RunTimeGrinding, RunFinalSettling, RunAdditionalPulse, RunEnded, Tick
  <2> QED
    BY <1>0, <1>1, <2>1, HandlerFacts
<1>2. CASE TickSwitch
  <2>1. /\ pc0 = "switch" /\ pc0' = "check" /\ pc1' = pc1 /\ pc1 # "stopping"
        /\ SwitchPhase(pend, last_session_result)
    BY <1>2 DEF TickSwitch, Core0Free
  <2>2. EventOf(pend) \in Events
    BY DEF EventOf, Events
  <2>3. ui_event_queue' = ui_event_queue \/ ui_event_queue' = EmitUiEvent(EventOf(pend))
    BY <2>1 DEF SwitchPhase
  <2>4. Len(ui_event_queue') <= 1
    BY <1>0, <2>1, <2>2, <2>3, EmitLength DEF TypeOK
  <2> QED
    BY <2>1, <2>4
<1>3. CASE TickCheck
  <2>1. /\ pc0 = "check" /\ pc0' \in {"wait", "abort"} /\ pc1' = pc1 /\ pc1 # "stopping"
        /\ ui_event_queue' = EmitUiEvent("PROGRESS_UPDATED")
    BY <1>3 DEF TickCheck, Core0Free
  <2>2. /\ Len(ui_event_queue) \in Nat /\ Len(ui_event_queue') \in Nat
        /\ Len(ui_event_queue') <= Len(ui_event_queue) + 1
    BY <2>1, EmitLength DEF Events, TypeOK
  <2>3. Len(ui_event_queue') <= 2
    BY <2>1, <2>2
  <2> QED
    BY <2>1, <2>3
<1>4. CASE TickAbort \/ RunPaused
  BY <1>4 DEF TickAbort, RunPaused, Tick, Core0Free, pcVars
<1>5. CASE StopBegin
  BY <1>5 DEF StopBegin, UiActs, Core1Free, swVars
<1>6. CASE StopFinish
  BY <1>6 DEF StopFinish, Inv, CoresInv
<1>7. CASE \/ StartGrind \/ OkButton \/ AutoReturn \/ CompleteTimer \/ TimeoutTimer
           \/ ContinueFromPurge \/ AdditionalPulse
  BY <1>7 DEF StartGrind, OkButton, AutoReturn, CompleteTimer, TimeoutTimer,
     ContinueFromPurge, AdditionalPulse, UiActs, Core1Free, NextRound
<1>8. CASE UiEvent \/ UiRound \/ UiDrained
  BY <1>8 DEF UiEvent, UiRound, UiDrained, Core1Free, NextRound, pcVars
<1>9. CASE UNCHANGED vars \/ RunIdle \/ PulseDoneIsr \/ ApplyTare \/ Elapse
           \/ FlashBegin \/ FlashFinish
  BY <1>9 DEF vars, RunIdle, PulseDoneIsr, ApplyTare, Elapse, FlashBegin, FlashFinish,
     swVars, pcVars
<1> QED
  BY <1>1, <1>2, <1>3, <1>4, <1>5, <1>6, <1>7, <1>8, <1>9 DEF Next, Core0, User, Handler

(* By the time a button is pressed, a finished grind has no STOP button.    *)
LEMMA ScreenStep ==
    ASSUME TypeOK, ~Preemptive, "ui" \in Prompt, UiQueueSize >= 3,
           Inv, RecordInv, RoomInv, ScreenInv, [Next]_vars
    PROVE  ScreenInv'
<1>0. /\ Len(<<>>) = 0 /\ UiQueueSize \in Nat /\ Len(ui_event_queue) \in Nat
      /\ {"COMPLETED", "TIMEOUT", "STOPPED"} \subseteq Closing
      /\ {"PROGRESS_UPDATED", "PULSE"} \subseteq Events \ Raising
  BY ConstantsAssumption DEF TypeOK, SwTypes, Closing, Raising, Events
<1>1. CASE /\ UNCHANGED <<phase, ui, ui_event_queue>>
           /\ pc1' = pc1 \/ pc1' # "stopping"
  <2>1. StopGoes => StopGoes'
    BY <1>1 DEF StopGoes, ClosedAfter
  <2> QED
    BY <1>1, <2>1 DEF ScreenInv
<1>2. CASE phase' \notin {"IDLE", "COMPLETED", "TIMEOUT", "TIME_ADDITIONAL_PULSE"}
  BY <1>2 DEF ScreenInv
<1>3. CASE Handler \/ RunSetup \/ RunEnded
  BY <1>1, <1>3, HandlerFacts
<1>4. CASE TickSwitch
  <2>1. /\ phase' = pend /\ pc0 = "switch" /\ pc1' = pc1 /\ pc1 # "stopping"
        /\ SwitchPhase(pend, last_session_result)
    BY <1>4 DEF TickSwitch, SwitchPhase, Core0Free
  <2>2. /\ pend \notin {"IDLE", "TIME_ADDITIONAL_PULSE"}
        /\ phase \notin {"COMPLETED", "TIMEOUT"}
        /\ ui_event_queue = <<>>
    BY <2>1 DEF RecordInv, PendInv, RoomInv
  <2>3. CASE pend \in {"COMPLETED", "TIMEOUT"}
    <3>1. ui_event_queue' = EmitUiEvent(pend)
      BY <2>1, <2>2, <2>3 DEF SwitchPhase, EventOf
    <3>2. StopGoes'
      BY <1>0, <2>2, <2>3, <3>1, CloseGoes DEF TypeOK
    <3> QED
      BY <2>1, <3>2 DEF ScreenInv
  <2> QED
    BY <1>2, <2>1, <2>2, <2>3
<1>5. CASE TickCheck
  <2>1. /\ UNCHANGED <<phase, pc1, ui>> /\ ui_event_queue' = EmitUiEvent("PROGRESS_UPDATED")
    BY <1>5 DEF TickCheck, uiVars
  <2>2. StopGoes => StopGoes'
    BY <1>0, <2>1, EmitGoes DEF TypeOK
  <2> QED
    BY <2>1, <2>2 DEF ScreenInv
<1>6. CASE TickAbort
  <2>1. /\ pc0 = "abort" /\ pc1' = pc1 /\ pc1 # "stopping"
        /\ SwitchPhase("TIMEOUT", last_session_result)
    BY <1>6 DEF TickAbort, Core0Free
  <2>2. phase # "TIMEOUT" /\ Len(ui_event_queue) < UiQueueSize
    BY <1>0, <2>1 DEF Inv, CoresInv, RoomInv
  <2>3. ui_event_queue' = EmitUiEvent("TIMEOUT")
    BY <2>1, <2>2 DEF SwitchPhase, EventOf
  <2>4. StopGoes'
    BY <1>0, <2>2, <2>3, CloseGoes DEF TypeOK
  <2> QED
    BY <2>1, <2>4 DEF ScreenInv
<1>7. CASE RunPaused
  BY <1>2, <1>7 DEF RunPaused, Tick
<1>8. CASE UiEvent
  <2>1. /\ UNCHANGED <<phase, pc1>> /\ ui_event_queue # <<>>
        /\ ui_event_queue' = Tail(ui_event_queue) /\ HandleGrindEvent(Head(ui_event_queue))
    BY <1>8 DEF UiEvent, pcVars
  <2>2. StopGoes => StopGoes'
    BY <2>1, PopGoes DEF TypeOK
  <2> QED
    BY <2>1, <2>2 DEF ScreenInv
<1>9. CASE StartGrind
  <2>1. phase' = "INITIALIZING"
    BY <1>9 DEF StartGrind, SwitchPhase
  <2> QED
    BY <1>2, <2>1
<1>10. ui_event_queue = <<>> /\ StopGoes => ui \notin {"GRINDING", "PURGE_CONFIRM"}
  BY <1>0 DEF StopGoes
<1>11. CASE StopBegin
  <2>1. /\ ui \in {"GRINDING", "PURGE_CONFIRM"} /\ ui_event_queue = <<>> /\ phase' = phase
    BY <1>11 DEF StopBegin, UiActs, swVars
  <2> QED
    BY <1>2, <1>10, <2>1 DEF ScreenInv
<1>12. CASE StopFinish
  <2>1. /\ pc1 = "stopping" /\ pc1' = "drain" /\ SwitchPhase("IDLE", last_session_result)
    BY <1>12 DEF StopFinish, LeaveSession
  <2>2. phase # "IDLE" /\ ui_event_queue = <<>>
    BY <2>1 DEF ScreenInv, RoomInv
  <2>3. ui_event_queue' = EmitUiEvent("STOPPED")
    BY <2>1, <2>2 DEF SwitchPhase, EventOf
  <2>4. StopGoes'
    BY <1>0, <2>2, <2>3, CloseGoes DEF TypeOK
  <2> QED
    BY <2>1, <2>4 DEF ScreenInv
<1>13. CASE OkButton \/ AutoReturn \/ CompleteTimer \/ TimeoutTimer
  <2>1. pc1' = "drain" /\ ui_event_queue = <<>> /\ ui' = ui /\ ReturnToIdle
    BY <1>13 DEF OkButton, AutoReturn, CompleteTimer, TimeoutTimer, UiActs, NextRound, uiVars
  <2>2. CASE phase \in {"COMPLETED", "TIMEOUT"}
    <3>1. ui_event_queue' = EmitUiEvent("STOPPED")
      BY <2>1, <2>2 DEF ReturnToIdle, LeaveSession, SwitchPhase, EventOf
    <3>2. StopGoes'
      BY <1>0, <2>1, <3>1, CloseGoes DEF TypeOK
    <3> QED
      BY <2>1, <3>2 DEF ScreenInv
  <2>3. CASE phase \notin {"COMPLETED", "TIMEOUT"}
    BY <1>1, <2>1, <2>3 DEF ReturnToIdle, swVars
  <2> QED
    BY <2>2, <2>3
<1>14. CASE ContinueFromPurge
  <2>1. /\ ui = "PURGE_CONFIRM" /\ ui_event_queue = <<>>
        /\ phase' = "PREDICTIVE" \/ phase' = phase
    BY <1>14 DEF ContinueFromPurge, UiActs, SwitchPhase, swVars
  <2> QED
    BY <1>2, <1>10, <2>1 DEF ScreenInv
<1>15. CASE AdditionalPulse
  <2>1. /\ phase = "COMPLETED" /\ pc1' = "drain" /\ ui' = ui
        /\ ui_event_queue' = EmitUiEvent("PULSE")
    BY <1>15 DEF AdditionalPulse, NextRound, SwitchPhase, EventOf, uiVars
  <2>2. StopGoes'
    BY <1>0, <2>1, EmitGoes DEF ScreenInv, TypeOK
  <2> QED
    BY <2>1, <2>2 DEF ScreenInv
<1>16. CASE UNCHANGED vars \/ RunIdle \/ UiRound \/ UiDrained \/ PulseDoneIsr \/ ApplyTare
            \/ Elapse \/ FlashBegin \/ FlashFinish
  <2>1. UNCHANGED <<phase, ui, ui_event_queue>> /\ (pc1' = pc1 \/ pc1' # "stopping")
    BY <1>16 DEF vars, RunIdle, UiRound, UiDrained, PulseDoneIsr, ApplyTare, Elapse,
       FlashBegin, FlashFinish, NextRound, swVars, uiVars, pcVars
  <2> QED
    BY <1>1, <2>1
<1> QED
  BY <1>3, <1>4, <1>5, <1>6, <1>7, <1>8, <1>9, <1>11, <1>12, <1>13, <1>14, <1>15, <1>16
     DEF Next, Core0, User, Handler

(* A session runs only while it is being logged.                            *)
LEMMA RunningIsLogged ==
    ASSUME TypeOK, RecordInv, fate[session_id] = "running"
    PROVE  logging_active
BY DEF TypeOK, SwTypes, Phases, RecordInv, LogInv, Open

(* Steps that change no more of the record than the fate of a session that  *)
(* was running, or the files, by one more.                                  *)
LEMMA KeptStill ==
    ASSUME TypeOK, RecordInv, WrittenInv, CompletedGrindRecorded,
           session_id' = session_id, saved \subseteq saved',
           logging_active => logging_active' \/ \E f \in saved' : f.id = session_id,
           fate' = fate \/ (/\ fate[session_id] = "running"
                            /\ \E x \in Fates : fate' = [fate EXCEPT ![session_id] = x]
                            /\ logging_active')
    PROVE  CompletedGrindRecorded'
<1> SUFFICES ASSUME NEW s \in SessionIds, fate'[s] \in {"completed", "timedout"}
             PROVE  (\E f \in saved' : f.id = s) \/ (s = session_id' /\ logging_active')
  BY DEF CompletedGrindRecorded
<1>1. CASE fate'[s] = fate[s]
  BY <1>1 DEF CompletedGrindRecorded
<1>2. CASE fate'[s] # fate[s]
  <2>1. s = session_id /\ logging_active'
    BY <1>2 DEF TypeOK
  <2> QED
    BY <2>1
<1> QED
  BY <1>1, <1>2

LEMMA SwitchFate ==
    ASSUME NEW new, NEW result, SwitchPhase(new, result)
    PROVE  fate' = fate \/ (/\ fate[session_id] = "running"
                            /\ \E x \in Fates : fate' = [fate EXCEPT ![session_id] = x])
BY DEF SwitchPhase, FateAfter, Fates

(* A finished session is on flash or still in the logger, whatever happens. *)
LEMMA KeptStep ==
    ASSUME TypeOK, ~Preemptive, Inv, RecordInv, ScreenInv, RoomInv, "ui" \in Prompt,
           WrittenInv, CompletedGrindRecorded, [Next]_vars
    PROVE  WrittenInv' /\ CompletedGrindRecorded'
<1>1. CASE UNCHANGED <<logging_active, session_id, io, saved, fate>>
  BY <1>1 DEF WrittenInv, CompletedGrindRecorded
<1>2. CASE RunSetup
  <2>1. /\ phase = "SETUP" /\ pc0 = "wait" /\ session_id' = session_id + 1
        /\ session_id < MaxSessions
        /\ fate' = [fate EXCEPT ![session_id + 1] = "running"]
        /\ UNCHANGED <<io, saved>>
    BY <1>2 DEF RunSetup, Tick, HandlerFrame, ioVars
  <2>2. io = <<>> /\ ~logging_active
    BY <2>1 DEF RecordInv, LogInv, FlushInv, Unopened
  <2>3. session_id + 1 \in SessionIds
    BY <2>1, ConstantsAssumption DEF TypeOK, LogTypes, SessionIds
  <2>4. \A s \in SessionIds : fate'[s] \in {"completed", "timedout"} => fate'[s] = fate[s]
    BY <2>1, <2>3 DEF TypeOK
  <2> QED
    BY <2>1, <2>2, <2>4 DEF WrittenInv, CompletedGrindRecorded
<1>3. CASE TickSwitch \/ TickAbort \/ StopFinish \/ ContinueFromPurge \/ AdditionalPulse
           \/ StartGrind \/ OkButton \/ AutoReturn \/ CompleteTimer \/ TimeoutTimer
  <2>1. UNCHANGED <<logging_active, session_id, io, saved>>
    BY <1>3 DEF TickSwitch, TickAbort, StopFinish, ContinueFromPurge, AdditionalPulse, StartGrind,
       OkButton, AutoReturn, CompleteTimer, TimeoutTimer, logVars, ioVars
  <2>2. \/ fate' = fate
        \/ \E new \in Phases, result \in Results \cup {last_session_result} :
              SwitchPhase(new, result)
    BY <1>3 DEF TickSwitch, TickAbort, StopFinish, ContinueFromPurge, AdditionalPulse, StartGrind,
       OkButton, AutoReturn, CompleteTimer, TimeoutTimer, ReturnToIdle, LeaveSession, Phases,
       Setup, Grinding, Results, TypeOK, PcTypes
  <2>3. fate' = fate \/ (/\ fate[session_id] = "running"
                         /\ \E x \in Fates : fate' = [fate EXCEPT ![session_id] = x])
    BY <2>2, SwitchFate
  <2>4. fate[session_id] = "running" => logging_active'
    BY <2>1, RunningIsLogged
  <2>5. CompletedGrindRecorded'
    BY <2>1, <2>3, <2>4, KeptStill
  <2> QED
    BY <2>1, <2>5 DEF WrittenInv
<1>4. CASE StopBegin
  <2>1. /\ ui \in {"GRINDING", "PURGE_CONFIRM"} /\ ui_event_queue = <<>> /\ pc0 = "wait"
        /\ pc1 # "stopping" /\ Discard /\ UNCHANGED <<session_id, io, saved>>
    BY <1>4 DEF StopBegin, UiActs, Core1Free, ioVars
  <2>2. ~StopGoes
    <3>1. Len(<<>>) = 0
      OBVIOUS
    <3> QED
      BY <2>1, <3>1 DEF StopGoes
  <2>3. phase \notin {"IDLE", "COMPLETED", "TIMEOUT", "TIME_ADDITIONAL_PULSE"}
    BY <2>2 DEF ScreenInv
  <2>4. Unopened \/ Open
    BY <2>1, <2>3 DEF Unopened, Open, TypeOK, SwTypes, Phases
  <2>5. fate[session_id] # "running" => ~logging_active
    BY <2>4 DEF RecordInv, LogInv
  <2>6. \A s \in SessionIds : fate'[s] \in {"completed", "timedout"} =>
            fate'[s] = fate[s] /\ ~(s = session_id /\ logging_active)
    BY <2>1, <2>5 DEF Discard, TypeOK
  <2> QED
    BY <2>1, <2>6 DEF WrittenInv, CompletedGrindRecorded
<1>5. CASE FlashBegin
  <2> DEFINE r == Head(flash_op_queue)
             file == [id |-> session_id, session |-> r.session,
                      result |-> r.result, fate |-> fate[session_id]]
  <2>1. /\ UNCHANGED <<logging_active, session_id, fate>> /\ io = <<>>
        /\ \/ saved' = saved \cup {file}
           \/ UNCHANGED <<io, saved>>
    BY <1>5 DEF FlashBegin, logVars
  <2>2. file.id = session_id
    OBVIOUS
  <2> QED
    BY <2>1, <2>2 DEF WrittenInv, CompletedGrindRecorded
<1>6. CASE FlashFinish
  <2>1. /\ UNCHANGED <<session_id, fate, saved>> /\ io # <<>> /\ io' = <<>>
    BY <1>6 DEF FlashFinish
  <2> QED
    BY <2>1 DEF WrittenInv, CompletedGrindRecorded
<1>7. CASE Handler \/ RunEnded \/ TickCheck
  <2>1. CASE Handler
    BY <1>1, <2>1, HandlerPend DEF recVars
  <2>2. CASE RunEnded \/ TickCheck
    BY <1>1, <2>2 DEF RunEnded, TickCheck, logVars, ioVars
  <2> QED
    BY <1>7, <2>1, <2>2
<1>8. CASE UNCHANGED vars \/ RunIdle \/ RunPaused \/ UiEvent \/ UiRound \/ UiDrained
           \/ PulseDoneIsr \/ ApplyTare \/ Elapse
  BY <1>1, <1>8 DEF vars, RunIdle, RunPaused, UiEvent, UiRound, UiDrained, PulseDoneIsr,
     ApplyTare, Elapse, logVars, ioVars
<1> QED
  BY <1>2, <1>3, <1>4, <1>5, <1>6, <1>7, <1>8 DEF Next, Core0, User, Handler

(* "Every completed grind is ready to analyze": a finished session is on    *)
(* flash, or still open in the logger, when moreover the event queue is     *)
(* drained between passes and has room for the events of one.               *)
THEOREM NoGrindIsLost ==
    ASSUME ~Preemptive, {"ui", "control", "auto", "fileio"} \subseteq Prompt, UiQueueSize >= 3
    PROVE  Spec => []CompletedGrindRecorded
<1>1. Init => KeptInv
  <2>1. Init => RoomInv /\ WrittenInv
    BY DEF Init, RoomInv, WrittenInv
  <2>2. Init => CompletedGrindRecorded
    BY DEF Init, CompletedGrindRecorded
  <2>3. Init => ScreenInv
    <3>1. Len(<<>>) = 0
      OBVIOUS
    <3>2. Init => ClosedAfter(0)
      BY <3>1 DEF Init, ClosedAfter
    <3> QED
      BY <3>2 DEF Init, ScreenInv, StopGoes
  <2> QED
    BY <2>1, <2>2, <2>3 DEF KeptInv
<1>2. TypeOK /\ Inv /\ RecordInv /\ KeptInv /\ [Next]_vars => KeptInv'
  BY RoomStep, ScreenStep, KeptStep DEF KeptInv
<1>3. KeptInv => CompletedGrindRecorded
  BY DEF KeptInv
<1>4. {"control", "auto", "fileio"} \subseteq Prompt
  OBVIOUS
<1>5. Spec => []RecordInv
  BY <1>4, RecordInvariance
<1> QED
  BY <1>1, <1>2, <1>3, <1>5, TypeCorrect, Invariance, PTL DEF Spec

=============================================================================
