-------------------------- MODULE OtaUpdateProofs --------------------------
(***************************************************************************)
(* Nothing that reaches an update while its patch is applied - a command,  *)
(* a disconnect, the stall check, the radio switch, loop() - ends it or    *)
(* wakes the hardware tasks.  Proved for a claim that no callback cuts in   *)
(* two (Preemptive = FALSE), for patches of any number of chunks and any    *)
(* number of attempts.                                                     *)
(***************************************************************************)
EXTENDS OtaUpdate, TLAPS

LEMMA InitOta == Init => OtaInv
<1> SUFFICES ASSUME Init PROVE OtaInv
  OBVIOUS
<1>1. Modes
  BY DEF Init, Modes
<1>2. Sizes
  BY OtaAssumption DEF Init, Sizes
<1>3. Order
  BY DEF Init, Order, Begun, Applying, FallbackKept
<1> QED BY <1>1, <1>2, <1>3 DEF OtaInv

(* The states of the handlers, the slot and the screen keep their ranges.   *)
LEMMA ModesStep ==
  ASSUME Modes, [Next]_vars PROVE Modes'
<1> USE OtaAssumption DEF Modes
<1> USE DEF AbortOta, Suspend, Resume, Linked, HostFree, HostFrame, BtFrame, UiFrame, UiOnly,
         Stalled, Checked, CompleteFailed, SwitchBoot, radio, transfer, flags, tasks, flash,
         screen, grind
<1>1. CASE Connect \/ Disconnect \/ Start \/ Started
  BY <1>1 DEF Connect, Disconnect, Start, Started
<1>2. CASE Chunk \/ End \/ Abort \/ Quiet
  <2>1. CASE Chunk
    <3>1. UNCHANGED <<host, bt, slot, boot, ui, motor, event>>
      BY <2>1 DEF Chunk
    <3>2. current_status' \in {current_status, "ERROR"}
      BY <2>1 DEF Chunk
    <3> QED BY <3>1, <3>2
  <2>2. CASE End
    BY <2>2 DEF End
  <2>3. CASE Abort
    BY <2>3 DEF Abort
  <2>4. CASE Quiet
    BY <2>4 DEF Quiet
  <2> QED BY <1>2, <2>1, <2>2, <2>3, <2>4
<1>3. CASE StallCheck \/ TakeEnd \/ Claim \/ Flush
  BY <1>3 DEF StallCheck, TakeEnd, Claim, Flush
<1>4. CASE ApplyWrites \/ ApplyFails \/ ApplySucceeds \/ Restart
  BY <1>4 DEF ApplyWrites, ApplyFails, ApplySucceeds, Restart
<1>8. CASE CloseUpdate \/ Unclaim
  BY <1>8 DEF CloseUpdate, Unclaim
<1>5. CASE Loop \/ UiSeesStart \/ UiSeesEnd \/ FailureOk
  BY <1>5 DEF Loop, UiSeesStart, UiSeesEnd, FailureOk
<1>6. CASE Disable \/ Enable \/ UiGrindEvent \/ StopButton
  BY <1>6 DEF Disable, Enable, UiGrindEvent, StopButton
<1>7. CASE GrindStarts \/ GrindGoesOn \/ UNCHANGED vars
  BY <1>7 DEF GrindStarts, GrindGoesOn, vars
<1> QED BY <1>1, <1>2, <1>3, <1>4, <1>5, <1>6, <1>7, <1>8 DEF Next, Handle

(* So do the sizes: process_data_chunk() stays within the patch.            *)
LEMMA SizesStep ==
  ASSUME Sizes, [Next]_vars PROVE Sizes'
<1> USE OtaAssumption DEF Sizes
<1> USE DEF AbortOta, Suspend, Resume, Linked, HostFree, HostFrame, BtFrame, UiFrame, UiOnly,
         Stalled, Checked, CompleteFailed, SwitchBoot, radio, transfer, flags, tasks, flash,
         screen, grind
<1>1. CASE Connect \/ Disconnect \/ Start \/ Started
  BY <1>1 DEF Connect, Disconnect, Start, Started
<1>2. CASE Chunk \/ End \/ Abort \/ Quiet
  <2>1. CASE Chunk
    <3>1. UNCHANGED <<patch_size, starts>>
      BY <2>1 DEF Chunk
    <3>2. \/ received_size' = received_size + 1 /\ received_size < patch_size
          \/ received_size' = received_size
      BY <2>1 DEF Chunk
    <3> QED BY <3>1, <3>2
  <2>2. CASE End
    BY <2>2 DEF End
  <2>3. CASE Abort
    BY <2>3 DEF Abort
  <2>4. CASE Quiet
    BY <2>4 DEF Quiet
  <2> QED BY <1>2, <2>1, <2>2, <2>3, <2>4
<1>3. CASE StallCheck \/ TakeEnd \/ Claim \/ Flush
  BY <1>3 DEF StallCheck, TakeEnd, Claim, Flush
<1>4. CASE ApplyWrites \/ ApplyFails \/ ApplySucceeds \/ Restart
  BY <1>4 DEF ApplyWrites, ApplyFails, ApplySucceeds, Restart
<1>8. CASE CloseUpdate \/ Unclaim
  BY <1>8 DEF CloseUpdate, Unclaim
<1>5. CASE Loop \/ UiSeesStart \/ UiSeesEnd \/ FailureOk
  BY <1>5 DEF Loop, UiSeesStart, UiSeesEnd, FailureOk
<1>6. CASE Disable \/ Enable \/ UiGrindEvent \/ StopButton
  BY <1>6 DEF Disable, Enable, UiGrindEvent, StopButton
<1>7. CASE GrindStarts \/ GrindGoesOn \/ UNCHANGED vars
  BY <1>7 DEF GrindStarts, GrindGoesOn, vars
<1> QED BY <1>1, <1>2, <1>3, <1>4, <1>5, <1>6, <1>7, <1>8 DEF Next, Handle

(* Every step of every task preserves the invariant: one leaf per action.  *)
LEMMA NextOta ==
  ASSUME ~Preemptive, OtaInv, [Next]_vars
  PROVE  OtaInv'
<1>t. Modes' /\ Sizes'
  BY ModesStep, SizesStep DEF OtaInv
<1> SUFFICES Order'
  BY <1>t DEF OtaInv
<1>i. Modes /\ Sizes /\ Order
  BY DEF OtaInv
<1> USE DEF Order, Modes, Begun, Applying, FallbackKept
<1> USE DEF AbortOta, Suspend, Resume, Linked, HostFree, HostFrame, BtFrame, UiFrame, UiOnly,
         Stalled, Checked, CompleteFailed, SwitchBoot, radio, transfer, flags, tasks, flash,
         screen, grind
<1>1. CASE Connect
  BY <1>1, <1>t, <1>i, OtaAssumption DEF Connect
<1>2. CASE Disconnect
  BY <1>2, <1>t, <1>i, OtaAssumption DEF Disconnect
<1>3. CASE Start
  BY <1>3, <1>t, <1>i, OtaAssumption DEF Start
<1>4. CASE Started
  BY <1>4, <1>t, <1>i, OtaAssumption DEF Started
<1>5. CASE Chunk
  BY <1>5, <1>t, <1>i, OtaAssumption DEF Chunk
<1>6. CASE End
  BY <1>6, <1>t, <1>i, OtaAssumption DEF End
<1>7. CASE Abort
  BY <1>7, <1>t, <1>i, OtaAssumption DEF Abort
<1>8. CASE Quiet
  BY <1>8, <1>t, <1>i, OtaAssumption DEF Quiet
<1>9. CASE StallCheck
  BY <1>9, <1>t, <1>i, OtaAssumption DEF StallCheck
<1>10. CASE TakeEnd
  BY <1>10, <1>t, <1>i, OtaAssumption DEF TakeEnd
<1>11. CASE Claim
  BY <1>11, <1>t, <1>i, OtaAssumption DEF Claim
<1>12. CASE Flush
  BY <1>12, <1>t, <1>i, OtaAssumption DEF Flush
<1>13. CASE ApplyWrites
  BY <1>13, <1>t, <1>i, OtaAssumption DEF ApplyWrites
<1>14. CASE ApplyFails
  BY <1>14, <1>t, <1>i, OtaAssumption DEF ApplyFails
<1>15. CASE ApplySucceeds
  BY <1>15, <1>t, <1>i, OtaAssumption DEF ApplySucceeds
<1>16. CASE Restart
  BY <1>16, <1>t, <1>i, OtaAssumption DEF Restart
<1>17. CASE Loop
  BY <1>17, <1>t, <1>i, OtaAssumption DEF Loop
<1>18. CASE UiSeesStart
  BY <1>18, <1>t, <1>i, OtaAssumption DEF UiSeesStart
<1>19. CASE UiSeesEnd
  BY <1>19, <1>t, <1>i, OtaAssumption DEF UiSeesEnd
<1>20. CASE FailureOk
  BY <1>20, <1>t, <1>i, OtaAssumption DEF FailureOk
<1>21. CASE Disable
  BY <1>21, <1>t, <1>i, OtaAssumption DEF Disable
<1>22. CASE Enable
  BY <1>22, <1>t, <1>i, OtaAssumption DEF Enable
<1>23. CASE UiGrindEvent
  BY <1>23, <1>t, <1>i, OtaAssumption DEF UiGrindEvent
<1>24. CASE StopButton
  BY <1>24, <1>t, <1>i, OtaAssumption DEF StopButton
<1>25. CASE GrindStarts
  BY <1>25, <1>t, <1>i, OtaAssumption DEF GrindStarts
<1>26. CASE GrindGoesOn
  BY <1>26, <1>t, <1>i, OtaAssumption DEF GrindGoesOn
<1>27. CASE UNCHANGED vars
  BY <1>27, <1>i DEF vars
<1>28. CASE CloseUpdate
  BY <1>28, <1>t, <1>i, OtaAssumption DEF CloseUpdate
<1>29. CASE Unclaim
  BY <1>29, <1>t, <1>i, OtaAssumption DEF Unclaim
<1> QED
  BY <1>1, <1>2, <1>3, <1>4, <1>5, <1>6, <1>7, <1>8, <1>9, <1>10, <1>11, <1>12, <1>13,
     <1>14, <1>15, <1>16, <1>17, <1>18, <1>19, <1>20, <1>21, <1>22, <1>23, <1>24, <1>25, <1>26, <1>27,
     <1>28, <1>29 DEF Next, Handle

(* The inductive invariant of an update holds in every reachable state.    *)
THEOREM OtaInvariance ==
  ASSUME ~Preemptive PROVE Spec => []OtaInv
<1>1. OtaInv /\ [Next]_vars => OtaInv'
  BY NextOta
<1> QED BY InitOta, <1>1, PTL DEF Spec

(* complete_ota(): the hardware tasks stay suspended for the whole apply.  *)
THEOREM ApplyIsFrozen ==
  ASSUME ~Preemptive PROVE Spec => []FrozenDuringApply
<1>1. OtaInv => FrozenDuringApply
  BY DEF OtaInv, Order, FrozenDuringApply, Begun, Applying
<1> QED BY OtaInvariance, <1>1, PTL

(* The other slot's image is given up only for a patch that passed every    *)
(* check finalize_update() makes.                                          *)
THEOREM FallbackIsKept ==
  ASSUME ~Preemptive PROVE Spec => []FallbackKept
<1>1. OtaInv => FallbackKept
  BY DEF OtaInv, Order
<1> QED BY OtaInvariance, <1>1, PTL

(* complete_ota() reports success of an unaltered patch only after the boot *)
(* partition was switched.                                                 *)
THEOREM WholePatchIsSwitched ==
  ASSUME ~Preemptive PROVE Spec => WholePatchSwitches
<1> DEFINE Switches == current_status # "SUCCESS" /\ current_status' = "SUCCESS" /\ intact
                       => boot' = "new"
<1>1. OtaInv /\ [Next]_vars => [Switches]_vars
  <2> SUFFICES ASSUME OtaInv, Next, current_status # "SUCCESS",
                      current_status' = "SUCCESS", intact
               PROVE  boot' = "new"
    OBVIOUS
  <2>1. ApplySucceeds
    <3>1. AbortOta => current_status' # "SUCCESS"
      BY DEF AbortOta, flags
    <3>2. ~(Connect \/ Disconnect \/ Start \/ Started \/ Chunk \/ End \/ Abort \/ Quiet)
      BY <3>1 DEF Connect, Disconnect, Start, Started, Chunk, End, Abort, Quiet, flags
    <3>3. ~(StallCheck \/ TakeEnd \/ Claim \/ Flush \/ ApplyWrites \/ ApplyFails
            \/ CloseUpdate \/ Unclaim \/ Restart)
      BY <3>1 DEF StallCheck, TakeEnd, Claim, Flush, ApplyWrites, ApplyFails,
                  CloseUpdate, Unclaim, Restart,
                  CompleteFailed, flags
    <3>4. ~(Loop \/ UiSeesStart \/ UiSeesEnd \/ FailureOk \/ Disable \/ Enable
            \/ UiGrindEvent \/ StopButton \/ GrindStarts \/ GrindGoesOn)
      BY <3>1 DEF Loop, UiSeesStart, UiSeesEnd, FailureOk, Disable, Enable, UiGrindEvent,
                  StopButton, GrindStarts, GrindGoesOn, UiOnly, flags
    <3> QED BY <3>2, <3>3, <3>4 DEF Next, Handle
  <2>2. patch_size > 0
    BY <2>1, OtaAssumption DEF ApplySucceeds, OtaInv, Order, Begun, Applying
  <2> QED BY <2>1, <2>2, OtaAssumption DEF ApplySucceeds, SwitchBoot
<1> QED BY OtaInvariance, <1>1, PTL DEF Spec, WholePatchSwitches

=============================================================================
