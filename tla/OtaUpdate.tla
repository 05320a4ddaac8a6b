----------------------------- MODULE OtaUpdate -----------------------------
(***************************************************************************)
(* A firmware update over Bluetooth: src/bluetooth/ota_handler.cpp with    *)
(* its callers in bluetooth/manager.cpp, the patch staging of              *)
(* components/delta/delta.c, the hardware tasks it suspends                *)
(* (tasks/task_manager.cpp, main.cpp) and its screens                      *)
(* (ui/controllers/ota_data_export_controller.cpp).                        *)
(*                                                                         *)
(* Five tasks take part: the BLE host task (commands, chunks, disconnect), *)
(* the bluetooth task (stall check, apply), the main loop, the UI task and *)
(* the control task, of which only the motor is kept here.  No lock orders *)
(* them.  The client and the flash are outside the firmware: the client    *)
(* sends no chunk after END, the flash may fail at any write.              *)
(***************************************************************************)
EXTENDS Integers

CONSTANTS
    PatchSize,       \* chunks of a patch
    MaxStarts,       \* bound: START commands between two restarts
    Preemptive       \* may a callback run between complete_ota()'s check and its
                     \* claim, an apply begin before loop() has run (10 ms), and a
                     \* client start anew before handle() has (20 ms)?

ASSUME OtaAssumption ==
    PatchSize \in Nat \ {0} /\ MaxStarts \in Nat \ {0} /\ Preemptive \in BOOLEAN

VARIABLES
    connected, ble_enabled,
    host,                \* BLE host task: "idle", or "starting" inside start_ota()
    ota_in_progress, apply_in_progress,
    patch_size, received_size, patch_crc_present,
    current_status,      \* BLEOTAStatus of the handler
    intact,              \* what was staged is what the client sent
    fresh,               \* less than BLE_OTA_STALL_TIMEOUT_MS since the last chunk
    ended,               \* the client has sent END
    ota_finalize_pending,
    bt,                  \* where the bluetooth task is inside handle()
    ota_suspended,       \* TaskManager: the hardware tasks are suspended
    hardware_suspended,  \* loop()'s own flag
    slot,                \* the other slot: "image", "partial", "new"
    boot,                \* the next boot runs the "old" image or the "new" one
    unchecked,           \* history: the slot was rewritten from a patch not whole
    ota_active,          \* the UI controller's flag
    ui,                  \* the screen
    touch,               \* TouchDriver enabled
    motor,               \* "off" or "run"
    event,               \* what the grind last queued for the UI
    starts

radio    == <<connected, ble_enabled>>
transfer == <<patch_size, received_size, patch_crc_present, intact, fresh, ended>>
flags    == <<ota_in_progress, apply_in_progress, current_status>>
tasks    == <<ota_suspended, hardware_suspended>>
flash    == <<slot, boot, unchecked>>
screen   == <<ota_active, ui>>
grind    == <<motor, event>>
vars     == <<radio, host, transfer, flags, ota_finalize_pending, bt, tasks, flash,
              screen, touch, grind, starts>>

\* After a restart the image that runs is the old one and the slot holds an image.
Init ==
    /\ connected = FALSE /\ ble_enabled = TRUE
    /\ host = "idle" /\ bt = "idle"
    /\ ota_in_progress = FALSE /\ apply_in_progress = FALSE /\ current_status = "IDLE"
    /\ patch_size = 0 /\ received_size = 0 /\ patch_crc_present = FALSE
    /\ intact = TRUE /\ fresh = FALSE /\ ended = FALSE /\ ota_finalize_pending = FALSE
    /\ ota_suspended = FALSE /\ hardware_suspended = FALSE
    /\ slot = "image" /\ boot = "old" /\ unchecked = FALSE
    /\ ota_active = FALSE /\ ui = "READY" /\ touch = TRUE
    /\ motor = "off" /\ event = "none"
    /\ starts = 0

-----------------------------------------------------------------------------
(* suspend_hardware_tasks(), resume_hardware_tasks(), abort_ota().         *)

Suspend == ota_suspended' = TRUE
Resume  == ota_suspended' = FALSE

\* Faulty variant: an abort does not look whether the patch is being applied.
AbortAnyTime ==
    IF ota_in_progress
    THEN /\ ota_in_progress' = FALSE /\ current_status' = "ERROR"
         /\ received_size' = 0 /\ patch_size' = 0
         /\ Resume
         /\ UNCHANGED <<apply_in_progress, patch_crc_present, intact, fresh>>
    ELSE UNCHANGED <<flags, patch_size, received_size, patch_crc_present, intact,
                     fresh, ota_suspended>>

AbortOta ==
    IF ota_in_progress /\ ~apply_in_progress
    THEN /\ ota_in_progress' = FALSE /\ current_status' = "ERROR"
         /\ received_size' = 0 /\ patch_size' = 0
         /\ Resume
         /\ UNCHANGED <<apply_in_progress, patch_crc_present, intact, fresh>>
    ELSE UNCHANGED <<flags, patch_size, received_size, patch_crc_present, intact,
                     fresh, ota_suspended>>

-----------------------------------------------------------------------------
(* BLE host task.                                                          *)

HostFree == host = "idle" /\ (Preemptive \/ bt # "claim")
Linked   == HostFree /\ connected
HostFrame == UNCHANGED <<ble_enabled, bt, hardware_suspended, flash, screen, touch, grind>>

\* Clients connect to a radio that advertises.
Connect ==
    /\ HostFree /\ ~connected /\ ble_enabled
    /\ connected' = TRUE
    /\ UNCHANGED <<host, transfer, flags, ota_finalize_pending, ota_suspended, starts>>
    /\ HostFrame

Disconnect ==
    /\ Linked
    /\ connected' = FALSE /\ ota_finalize_pending' = FALSE
    /\ AbortOta
    /\ UNCHANGED <<host, ended, starts>>
    /\ HostFrame

\* START: start_ota() up to the suspension; an update in progress refuses it.
Start ==
    /\ Linked /\ starts < MaxStarts /\ starts' = starts + 1
    /\ Preemptive \/ ~ota_finalize_pending
    /\ IF ota_in_progress
       THEN UNCHANGED <<host, patch_size, received_size, patch_crc_present, intact,
                        ended, ota_suspended>>
       ELSE /\ patch_size' = PatchSize /\ received_size' = 0
            /\ patch_crc_present' = FALSE /\ intact' = TRUE
            /\ ended' = FALSE
            /\ Suspend
            /\ host' = "starting"
    /\ UNCHANGED <<connected, fresh, flags, ota_finalize_pending>>
    /\ HostFrame

\* start_update() prepares the staging buffer, or cannot.
Started ==
    /\ host = "starting" /\ host' = "idle"
    /\ \/ /\ ota_in_progress' = TRUE /\ current_status' = "RECEIVING" /\ fresh' = TRUE
          /\ UNCHANGED ota_suspended
       \/ /\ current_status' = "ERROR" /\ Resume
          /\ UNCHANGED <<ota_in_progress, fresh>>
    /\ UNCHANGED <<connected, apply_in_progress, patch_size, received_size,
                   patch_crc_present, intact, ended, ota_finalize_pending, starts>>
    /\ HostFrame

\* A chunk is staged, intact or not, or cannot be written.
Chunk ==
    /\ Linked /\ ~ended /\ ota_in_progress
    /\ \/ /\ received_size < patch_size
          /\ received_size' = received_size + 1 /\ fresh' = TRUE
          /\ intact' \in {intact, FALSE}
          /\ UNCHANGED current_status
       \/ /\ current_status' = "ERROR"
          /\ UNCHANGED <<received_size, fresh, intact>>
    /\ UNCHANGED <<connected, host, ota_in_progress, apply_in_progress, patch_size,
                   patch_crc_present, ended, ota_finalize_pending, ota_suspended, starts>>
    /\ HostFrame

\* END, with or without the CRC of the patch: the apply is left to handle().
End ==
    /\ Linked /\ ~ended /\ ota_in_progress
    /\ ended' = TRUE
    /\ patch_crc_present' \in {patch_crc_present, TRUE}
    /\ ota_finalize_pending' = TRUE
    /\ UNCHANGED <<connected, host, flags, patch_size, received_size, intact, fresh,
                   ota_suspended, starts>>
    /\ HostFrame

Abort ==
    /\ Linked
    /\ AbortOta
    /\ UNCHANGED <<connected, host, ended, ota_finalize_pending, starts>>
    /\ HostFrame

\* 30 s without a chunk; handle() runs every 20 ms.
Quiet ==
    /\ ota_in_progress /\ fresh /\ ~(ota_finalize_pending /\ ble_enabled)
    /\ fresh' = FALSE
    /\ UNCHANGED <<radio, host, patch_size, received_size, patch_crc_present, intact,
                   ended, flags, ota_finalize_pending, bt, tasks, flash, screen, touch,
                   grind, starts>>

-----------------------------------------------------------------------------
(* Bluetooth task: BluetoothManager::handle().                             *)

BtFrame == UNCHANGED <<radio, host, ended, hardware_suspended, screen, grind, starts>>

\* Faulty variant: the stall check overlooks a client that has failed a write.
StalledReceiving == ota_in_progress /\ ~apply_in_progress /\ ~fresh
                    /\ current_status = "RECEIVING"

Stalled == ota_in_progress /\ ~apply_in_progress /\ ~fresh

StallCheck ==
    /\ bt = "idle" /\ ble_enabled
    /\ Stalled
    /\ AbortOta
    /\ UNCHANGED <<ota_finalize_pending, bt, flash, touch>>
    /\ BtFrame

\* handle() takes the deferred END; complete_ota() has not claimed it yet.
TakeEnd ==
    /\ bt = "idle" /\ ble_enabled /\ ~Stalled
    /\ ota_finalize_pending
    /\ Preemptive \/ hardware_suspended \/ ~ota_in_progress
    /\ ota_finalize_pending' = FALSE
    /\ bt' = IF ota_in_progress THEN "claim" ELSE "idle"
    /\ UNCHANGED <<patch_size, received_size, patch_crc_present, intact, fresh, flags,
                   ota_suspended, flash, touch>>
    /\ BtFrame

\* From here on the update is no longer abortable, and the touch driver is off.
Claim ==
    /\ bt = "claim"
    /\ bt' = "flush"
    /\ apply_in_progress' = TRUE /\ touch' = FALSE
    /\ UNCHANGED <<patch_size, received_size, patch_crc_present, intact, fresh,
                   ota_in_progress, current_status, ota_finalize_pending,
                   ota_suspended, flash>>
    /\ BtFrame

\* complete_ota() after finalize_update(), whose result it keeps: the status
\* (and the tasks, if it failed), then the two flags, each a store that any other
\* task may follow.
CompleteFailed ==
    /\ bt' = "failed"
    /\ current_status' = "ERROR" /\ Resume
    /\ UNCHANGED <<ota_in_progress, apply_in_progress>>

CloseUpdate ==
    /\ bt \in {"failed", "applied"}
    /\ bt' = IF bt = "failed" THEN "failed_closed" ELSE "applied_closed"
    /\ ota_in_progress' = FALSE
    /\ UNCHANGED <<patch_size, received_size, patch_crc_present, intact, fresh,
                   apply_in_progress, current_status, ota_finalize_pending,
                   ota_suspended, flash, touch>>
    /\ BtFrame

\* Faulty variant: the claim outlives the apply.
UnclaimLeft ==
    /\ bt \in {"failed_closed", "applied_closed"}
    /\ bt' = IF bt = "failed_closed" THEN "idle" ELSE "restart"
    /\ UNCHANGED <<patch_size, received_size, patch_crc_present, intact, fresh, flags,
                   ota_finalize_pending, ota_suspended, flash, touch>>
    /\ BtFrame

Unclaim ==
    /\ bt \in {"failed_closed", "applied_closed"}
    /\ bt' = IF bt = "failed_closed" THEN "idle" ELSE "restart"
    /\ apply_in_progress' = FALSE
    /\ UNCHANGED <<patch_size, received_size, patch_crc_present, intact, fresh,
                   ota_in_progress, current_status, ota_finalize_pending,
                   ota_suspended, flash, touch>>
    /\ BtFrame

\* Faulty variant: the size is compared with what the client announced only
\* when the client sent no checksum.
CheckedByEither == IF patch_crc_present THEN intact ELSE received_size = patch_size

\* The sizes agree, and the CRC of the flashed patch if the client sent one.
\* (The CRC of no bytes is not the one the client sent.)
Checked == /\ received_size = patch_size
           /\ patch_crc_present => intact /\ patch_size > 0

\* Flush to flash, and the checks.
Flush ==
    /\ bt = "flush"
    /\ \/ Checked /\ bt' = "apply" /\ UNCHANGED <<flags, ota_suspended>>
       \/ CompleteFailed
    /\ UNCHANGED <<patch_size, received_size, patch_crc_present, intact, fresh,
                   ota_finalize_pending, flash, touch>>
    /\ BtFrame

\* esp_ota_begin() and the writes destroy the image of the other slot.
ApplyWrites ==
    /\ bt = "apply" /\ slot # "partial" /\ patch_size > 0
    /\ slot' = "partial"
    /\ unchecked' = (unchecked \/ received_size < PatchSize \/ (patch_crc_present /\ ~intact))
    /\ UNCHANGED <<patch_size, received_size, patch_crc_present, intact, fresh, flags,
                   ota_finalize_pending, bt, ota_suspended, boot, touch>>
    /\ BtFrame

ApplyFails ==
    /\ bt = "apply" /\ patch_size > 0
    /\ CompleteFailed
    /\ UNCHANGED <<patch_size, received_size, patch_crc_present, intact, fresh,
                   ota_finalize_pending, flash, touch>>
    /\ BtFrame

\* Faulty variant: esp_ota_set_boot_partition() is not called.
SwitchNothing == UNCHANGED <<slot, boot, unchecked>>

\* esp_ota_end() accepts the image and the boot partition is switched.  A patch
\* of no bytes, or one so damaged that it decodes to an empty image, switches
\* nothing and is no error either: the result is 0.
SwitchBoot ==
    \/ /\ patch_size > 0 /\ slot = "partial" /\ intact
       /\ slot' = "new" /\ boot' = "new" /\ UNCHANGED unchecked
    \/ /\ patch_size = 0 \/ (slot = "partial" /\ ~intact)
       /\ UNCHANGED <<slot, boot, unchecked>>

ApplySucceeds ==
    /\ bt = "apply"
    /\ SwitchBoot
    /\ bt' = "applied"
    /\ current_status' = "SUCCESS"
    /\ UNCHANGED <<patch_size, received_size, patch_crc_present, intact, fresh,
                   ota_in_progress, apply_in_progress,
                   ota_finalize_pending, ota_suspended, touch>>
    /\ BtFrame

\* esp_restart(), 300 ms later: everything but the slot is as at Init.
Restart ==
    /\ bt = "restart"
    /\ connected' = FALSE /\ ble_enabled' = TRUE
    /\ host' = "idle" /\ bt' = "idle"
    /\ ota_in_progress' = FALSE /\ apply_in_progress' = FALSE /\ current_status' = "IDLE"
    /\ patch_size' = 0 /\ received_size' = 0 /\ patch_crc_present' = FALSE
    /\ intact' = TRUE /\ fresh' = FALSE /\ ended' = FALSE /\ ota_finalize_pending' = FALSE
    /\ ota_suspended' = FALSE /\ hardware_suspended' = FALSE
    /\ slot' = IF boot = "new" THEN "image" ELSE slot
    /\ boot' = "old" /\ UNCHANGED unchecked
    /\ ota_active' = FALSE /\ ui' = "READY" /\ touch' = TRUE
    /\ motor' = "off" /\ event' = "none"
    /\ starts' = 0

-----------------------------------------------------------------------------
(* Main loop: it follows is_updating() with a flag of its own.             *)

Loop ==
    /\ hardware_suspended # ota_in_progress
    /\ hardware_suspended' = ota_in_progress
    /\ ota_suspended' = ota_in_progress
    /\ UNCHANGED <<radio, host, transfer, flags, ota_finalize_pending, bt, flash,
                   screen, touch, grind, starts>>

-----------------------------------------------------------------------------
(* UI task.                                                                *)

UiFrame == UNCHANGED <<connected, host, ended, ota_finalize_pending, bt,
                       hardware_suspended, flash, touch, starts>>
UiOnly  == UNCHANGED <<ble_enabled, patch_size, received_size, patch_crc_present,
                       intact, fresh, flags, ota_suspended>>

UiSeesStart ==
    /\ ota_in_progress /\ ~ota_active
    /\ ota_active' = TRUE /\ ui' = "OTA_UPDATE"
    /\ UNCHANGED grind /\ UiOnly /\ UiFrame

\* Faulty variant: an update that ends without a restart leaves its screen up.
UiSeesEndOnly ==
    /\ ~ota_in_progress /\ ota_active
    /\ ota_active' = FALSE
    /\ UNCHANGED <<ui, grind>> /\ UiOnly /\ UiFrame

\* Success keeps the progress screen up for the restart; otherwise
\* end_ota_ui() replaces it, if it is still the one shown.
UiSeesEnd ==
    /\ ~ota_in_progress /\ ota_active
    /\ ota_active' = FALSE
    /\ ui' = IF current_status # "SUCCESS" /\ ui = "OTA_UPDATE"
             THEN "OTA_UPDATE_FAILED" ELSE ui
    /\ UNCHANGED grind /\ UiOnly /\ UiFrame

FailureOk ==
    /\ touch /\ ui = "OTA_UPDATE_FAILED"
    /\ ui' = "READY"
    /\ UNCHANGED <<ota_active, grind>> /\ UiOnly /\ UiFrame

\* BluetoothManager::disable() from the menu; the link drops later.
Disable ==
    /\ touch /\ ui = "READY" /\ ble_enabled
    /\ Preemptive \/ bt # "claim"
    /\ AbortOta
    /\ ble_enabled' = FALSE
    /\ UNCHANGED <<screen, grind>> /\ UiFrame

Enable ==
    /\ touch /\ ui = "READY" /\ ~ble_enabled
    /\ ble_enabled' = TRUE
    /\ UNCHANGED <<screen, grind, patch_size, received_size, patch_crc_present, intact,
                   fresh, flags, ota_suspended>>
    /\ UiFrame

\* A queued event of the grind brings up its screen.
UiGrindEvent ==
    /\ event # "none" /\ event' = "none"
    /\ ui' = IF event = "over" THEN "READY" ELSE "GRINDING"
    /\ UNCHANGED <<ota_active, motor>> /\ UiOnly /\ UiFrame

StopButton ==
    /\ touch /\ ui = "GRINDING" /\ motor = "run"
    /\ motor' = "off" /\ event' = "over"
    /\ UNCHANGED screen /\ UiOnly /\ UiFrame

-----------------------------------------------------------------------------
(* Control task: a grind, while the task is not suspended.  It starts from  *)
(* READY and shows its own screen before the motor runs.                   *)

GrindStarts ==
    /\ ~ota_suspended /\ motor = "off" /\ ui = "READY" /\ touch /\ event = "none"
    /\ motor' = "run" /\ ui' = "GRINDING"
    /\ UNCHANGED <<ota_active, event>> /\ UiOnly /\ UiFrame

\* A phase change, or the end: completion, a failsafe or the time limit.
GrindGoesOn ==
    /\ ~ota_suspended /\ motor = "run"
    /\ \/ motor' = motor /\ event = "none" /\ event' = "phase"
       \/ motor' = "off" /\ event' = "over"
    /\ UNCHANGED screen /\ UiOnly /\ UiFrame

-----------------------------------------------------------------------------
Handle == StallCheck \/ TakeEnd \/ Claim \/ Flush \/ ApplyWrites \/ ApplyFails
          \/ ApplySucceeds \/ CloseUpdate \/ Unclaim \/ Restart

Next ==
    \/ Connect \/ Disconnect \/ Start \/ Started \/ Chunk \/ End \/ Abort \/ Quiet
    \/ Handle \/ Loop
    \/ UiSeesStart \/ UiSeesEnd \/ FailureOk \/ Disable \/ Enable \/ UiGrindEvent \/ StopButton
    \/ GrindStarts \/ GrindGoesOn

Spec == Init /\ [][Next]_vars

(* The tasks of the firmware run on their periods, time passes, and a link  *)
(* whose radio was switched off drops (disable() asks for it).  Nothing is  *)
(* assumed of the client, the user or the grind.                           *)
FairSpec ==
    /\ Spec
    /\ WF_vars(Started) /\ WF_vars(Quiet) /\ WF_vars(Handle) /\ WF_vars(Loop)
    /\ WF_vars(UiSeesStart) /\ WF_vars(UiSeesEnd) /\ WF_vars(UiGrindEvent)
    /\ WF_vars(~ble_enabled /\ Disconnect)

-----------------------------------------------------------------------------
(* Properties *)

\* the ranges of the variables: a part of OtaInv below
Modes ==
    /\ host \in {"idle", "starting"}
    /\ bt \in {"idle", "claim", "flush", "apply", "failed", "applied",
               "failed_closed", "applied_closed", "restart"}
    /\ current_status \in {"IDLE", "RECEIVING", "SUCCESS", "ERROR"}
    /\ slot \in {"image", "partial", "new"} /\ boot \in {"old", "new"}
    /\ ui \in {"READY", "GRINDING", "OTA_UPDATE", "OTA_UPDATE_FAILED"}
    /\ motor \in {"off", "run"} /\ event \in {"none", "phase", "over"}

Sizes ==
    /\ patch_size \in {0, PatchSize} /\ received_size \in 0..patch_size
    /\ starts \in 0..MaxStarts

(* "True if the patch applied and the boot partition was switched", of a     *)
(* patch that arrived unaltered: the client and the screen are told of       *)
(* success only when the next boot runs the new image, whatever the client,  *)
(* the radio and the user did to the transfer while it was being applied.    *)
WholePatchSwitches ==
    [][current_status # "SUCCESS" /\ current_status' = "SUCCESS" /\ intact
       => boot' = "new"]_vars

(* While a patch is applied the hardware tasks are suspended, whatever      *)
(* commands, disconnects and switches of the radio arrive meanwhile: "which *)
(* is exactly what suspension prevents".                                   *)
FrozenDuringApply == bt \in {"flush", "apply", "applied"} => ota_suspended

(* The image of the other slot, to which a crash loop falls back, is given  *)
(* up only for a patch that arrived whole, and unaltered if the client sent *)
(* a checksum.                                                             *)
FallbackKept == ~unchecked

(* No update leaves the hardware tasks suspended for good: it ends, by its  *)
(* client, by the stall check, or in a restart.                            *)
TasksComeBack == ota_suspended ~> ~ota_suspended

(* The progress screen never stays.                                        *)
ProgressScreenLeft == ui = "OTA_UPDATE" ~> ui # "OTA_UPDATE"

(* "Grind timeout protection": a running motor is under the control task,   *)
(* with its failsafes and its time limit, or at least under a STOP button.  *)
MotorGuarded == motor = "run" => ~ota_suspended \/ ui = "GRINDING"

-----------------------------------------------------------------------------
(* The inductive invariant behind the three, for Preemptive = FALSE.       *)

Begun    == ota_in_progress \/ host = "starting"
Applying == bt \in {"claim", "flush", "apply", "failed", "applied"}

Order ==
    /\ apply_in_progress <=>
         bt \in {"flush", "apply", "failed", "applied", "failed_closed", "applied_closed"}
    /\ ~(ota_in_progress /\ host = "starting")
    /\ Begun => patch_size = PatchSize
    \* loop() and start_ota() agree on the tasks of an update loop() has seen
    /\ Begun /\ hardware_suspended /\ bt # "failed" => ota_suspended
    \* an END waits only for the update it closed
    /\ Begun /\ ota_finalize_pending => ended
    \* nobody ends, extends or restarts an update that is being applied
    /\ Applying => ota_in_progress /\ hardware_suspended /\ ended
    /\ bt = "apply" => received_size = patch_size /\ (patch_crc_present => intact)
    /\ FallbackKept
    /\ boot = "new" => bt \in {"applied", "applied_closed", "restart"}

OtaInv == Modes /\ Sizes /\ Order

=============================================================================
