----------------------------- MODULE BootGuard -----------------------------
(***************************************************************************)
(* The boot-loop guard and the two application slots it switches between:  *)
(* src/system/boot_guard.cpp, boot_guard_logic.h and the part of an update *)
(* that writes a slot, components/delta/delta.c.                           *)
(*                                                                         *)
(* A boot runs check_on_boot(), whose writes to flash are steps of their   *)
(* own because a reset may fall between them, and is then up.  Loss of     *)
(* power, a restart or a crash may end it at any time.  Ghost variables    *)
(* count what the guard is meant to react to.                              *)
(***************************************************************************)
EXTENDS Integers

CONSTANTS
    Threshold,      \* crash resets in a row that make a loop: 3 in the code
    MaxStreak       \* bound on the ghost counter of crash resets

ASSUME BootGuardAssumption ==
    /\ Threshold \in 1..255
    /\ MaxStreak \in Nat
    /\ MaxStreak > Threshold

Slots == {"app0", "app1"}
Other(s) == IF s = "app0" THEN "app1" ELSE "app0"
NoSlot == "none"

(* What a slot holds.  The header of a partial image already reads as one. *)
Contents == {"erased", "partial", "image"}

VARIABLES
    slot,            \* flash: contents of each slot
    boot,            \* flash: the slot the next boot runs
    crash_count,     \* flash: kCountKey
    rollback,        \* flash: kRollbackKey, the slot reverted to, or none
    running,         \* the slot this boot runs
    crash_reset,     \* RAM: this boot began with a panic or a watchdog
    count_at_boot,   \* RAM
    healthy_marked,  \* RAM
    rollback_info,   \* RAM: the record the diagnostics report shows
    pc,              \* where this boot is
    update,          \* RAM: how far an update of the other slot has come
    streak,          \* ghost: crash resets in a row, none of them after 30 s
    loop,            \* ghost: those of this image, since the other slot has one
    reverted,        \* ghost: the slots a rollback has really switched to
    faulted          \* ghost: NVS has failed to open, or the guard to finish

flash == <<slot, boot, crash_count, rollback>>
ram == <<crash_reset, count_at_boot, healthy_marked, rollback_info>>
ghost == <<streak, loop, reverted, faulted>>
vars == <<flash, ram, running, pc, update, ghost>>

Init ==
    /\ slot \in [Slots -> Contents] /\ boot \in Slots /\ slot[boot] = "image"
    /\ crash_count = 0 /\ rollback = NoSlot
    /\ running = boot
    /\ crash_reset = FALSE /\ count_at_boot = 0 /\ healthy_marked = FALSE
    /\ rollback_info = NoSlot
    /\ pc = "check" /\ update = "none"
    /\ streak = 0 /\ loop = 0 /\ reverted = {} /\ faulted = FALSE

(* fallback_partition_valid() looks only at the header of the other slot.  *)
FallbackValid == slot[Other(running)] # "erased"

(* A plausible bug: the threshold tested before the crash is counted.      *)
DecideLate(crashed, prior, fallback) ==
    IF ~crashed THEN [action |-> "CLEAR", count |-> 0]
    ELSE IF prior < Threshold THEN [action |-> "COUNT", count |-> prior + 1]
    ELSE IF fallback THEN [action |-> "ROLLBACK", count |-> 0]
    ELSE [action |-> "GIVE_UP", count |-> 0]

(* boot_guard_decide(): the action and the counter value to persist.       *)
Decide(crashed, prior, fallback) ==
    LET count == IF prior < 255 THEN prior + 1 ELSE 255
    IN  IF ~crashed THEN [action |-> "CLEAR", count |-> 0]
        ELSE IF count < Threshold THEN [action |-> "COUNT", count |-> count]
        ELSE IF fallback THEN [action |-> "ROLLBACK", count |-> 0]
        ELSE [action |-> "GIVE_UP", count |-> 0]

(* esp_ota_set_boot_partition(): verifies the whole image first.           *)
SetBootPartition(s) == slot[s] = "image" /\ boot' = s

-----------------------------------------------------------------------------
(* check_on_boot().                                                        *)

NvsUnavailable ==
    /\ pc = "check"
    /\ pc' = "up" /\ faulted' = TRUE
    /\ UNCHANGED <<flash, ram, running, update, streak, loop, reverted>>

Verdict == Decide(crash_reset, crash_count, FallbackValid)

(* A plausible bug: the new count kept in RAM only.                        *)
CheckCountsInRam ==
    /\ pc = "check" /\ Verdict.action # "ROLLBACK"
    /\ crash_count' = IF Verdict.action = "COUNT" THEN crash_count ELSE Verdict.count
    /\ count_at_boot' = Verdict.count
    /\ rollback_info' = rollback
    /\ pc' = "up"
    /\ UNCHANGED <<slot, boot, rollback, crash_reset, healthy_marked, running, update, ghost>>

(* CLEAR, COUNT and GIVE_UP: one write of the counter, and the boot goes on. *)
CheckCounts ==
    /\ pc = "check" /\ Verdict.action # "ROLLBACK"
    /\ crash_count' = Verdict.count
    /\ count_at_boot' = Verdict.count
    /\ rollback_info' = rollback
    /\ pc' = "up"
    /\ UNCHANGED <<slot, boot, rollback, crash_reset, healthy_marked, running, update, ghost>>

(* ROLLBACK: the counter is cleared, the record written, the slot switched. *)
RollbackClears ==
    /\ pc = "check" /\ Verdict.action = "ROLLBACK"
    /\ count_at_boot' = crash_count
    /\ crash_count' = 0
    /\ rollback_info' = Other(running)
    /\ pc' = "record"
    /\ UNCHANGED <<slot, boot, rollback, crash_reset, healthy_marked, running, update, ghost>>

(* A plausible bug: the record shown, but not stored before the switch.    *)
RollbackRecordsInRam ==
    /\ pc = "record"
    /\ pc' = "switch"
    /\ UNCHANGED <<flash, ram, running, update, ghost>>

RollbackRecords ==
    /\ pc = "record"
    /\ rollback' = rollback_info
    /\ pc' = "switch"
    /\ UNCHANGED <<slot, boot, crash_count, ram, running, update, ghost>>

RollbackSwitches ==
    /\ pc = "switch"
    /\ SetBootPartition(Other(running))
    /\ pc' = "restart"
    /\ reverted' = reverted \cup {Other(running)}
    /\ loop' = 0
    /\ UNCHANGED <<slot, crash_count, rollback, ram, running, update, streak, faulted>>

(* The switch fails, for an image that does not verify or for any other    *)
(* error of the storage: this image goes on booting.                       *)
RollbackFails ==
    /\ pc = "switch"
    /\ pc' = "up"
    /\ faulted' = (faulted \/ slot[Other(running)] = "image")
    /\ UNCHANGED <<flash, ram, running, update, streak, loop, reverted>>

-----------------------------------------------------------------------------
(* A plausible bug: the mark is kept in RAM and the stored counter left.   *)
MarkHealthyInRam ==
    /\ pc = "up" /\ ~healthy_marked
    /\ healthy_marked' = TRUE
    /\ count_at_boot' = 0
    /\ streak' = 0 /\ loop' = 0
    /\ UNCHANGED <<flash, crash_reset, rollback_info, running, pc, update, reverted, faulted>>

(* mark_healthy_if_due(), called by loop(), once 30 s have passed.         *)
MarkHealthy ==
    /\ pc = "up" /\ ~healthy_marked
    /\ healthy_marked' = TRUE
    /\ count_at_boot' = 0
    /\ \/ count_at_boot # 0 /\ crash_count' = 0 /\ UNCHANGED faulted
       \/ count_at_boot # 0 /\ faulted' = TRUE /\ UNCHANGED crash_count
       \/ count_at_boot = 0 /\ UNCHANGED <<crash_count, faulted>>
    /\ streak' = 0 /\ loop' = 0
    /\ UNCHANGED <<slot, boot, rollback, crash_reset, rollback_info, running, pc, update, reverted>>

-----------------------------------------------------------------------------
(* An update of the other slot, delta_check_and_apply(): its handle erases  *)
(* the slot, the patch fills it, the result is verified, and only then is   *)
(* it selected.  The guard's 30 s may pass at any point of it.              *)

UpdateBegins ==
    /\ pc = "up" /\ update = "none"
    /\ update' = "writing"
    /\ slot' = [slot EXCEPT ![Other(running)] = "erased"]
    /\ loop' = 0
    /\ UNCHANGED <<boot, crash_count, rollback, ram, running, pc, streak, reverted, faulted>>

UpdateWrites ==
    /\ pc = "up" /\ update = "writing" /\ slot[Other(running)] = "erased"
    /\ slot' = [slot EXCEPT ![Other(running)] = "partial"]
    /\ UNCHANGED <<boot, crash_count, rollback, ram, running, pc, update, ghost>>

(* The patch does not apply, or its result does not verify.                *)
UpdateFails ==
    /\ pc = "up" /\ update = "writing"
    /\ update' = "none"
    /\ UNCHANGED <<flash, ram, running, pc, ghost>>

ImageCompletes ==
    /\ pc = "up" /\ update = "writing" /\ slot[Other(running)] = "partial"
    /\ update' = "verified"
    /\ slot' = [slot EXCEPT ![Other(running)] = "image"]
    /\ UNCHANGED <<boot, crash_count, rollback, ram, running, pc, ghost>>

UpdateSwitches ==
    /\ pc = "up" /\ update = "verified"
    /\ SetBootPartition(Other(running))
    /\ update' = "switched"
    /\ UNCHANGED <<slot, crash_count, rollback, ram, running, pc, ghost>>

(* A complete image that is not selected: the device goes on as it was.    *)
UpdateSwitchFails ==
    /\ pc = "up" /\ update = "verified"
    /\ update' = "none"
    /\ UNCHANGED <<flash, ram, running, pc, ghost>>

-----------------------------------------------------------------------------
(* A reset: RAM starts over and the bootloader runs the selected slot.     *)
Boot(crashed) ==
    /\ running' = boot
    /\ crash_reset' = crashed
    /\ count_at_boot' = 0 /\ healthy_marked' = FALSE /\ rollback_info' = NoSlot
    /\ pc' = "check" /\ update' = "none"
    /\ UNCHANGED <<flash, reverted>>

(* esp_restart(), power-on, reset button: none of them counts as a crash.  *)
NormalReset == Boot(FALSE) /\ streak' = 0 /\ loop' = 0 /\ UNCHANGED faulted

Crash ==
    /\ streak < MaxStreak
    /\ Boot(TRUE)
    /\ streak' = streak + 1
    /\ loop' = IF slot[Other(boot)] = "image" THEN loop + 1 ELSE 0
    /\ faulted' = (faulted \/ pc \in {"check", "record", "switch"})

Next ==
    \/ NvsUnavailable \/ CheckCounts
    \/ RollbackClears \/ RollbackRecords \/ RollbackSwitches \/ RollbackFails
    \/ MarkHealthy
    \/ UpdateBegins \/ UpdateWrites \/ UpdateFails
    \/ ImageCompletes \/ UpdateSwitches \/ UpdateSwitchFails
    \/ NormalReset \/ Crash

Spec == Init /\ [][Next]_vars

-----------------------------------------------------------------------------
(* The stored counter stays below the threshold: no sequence of crashes,    *)
(* failed rollbacks and lost power wedges it there (boot_guard_logic.h,     *)
(* GIVE_UP).                                                                *)
TypeOK ==
    /\ slot \in [Slots -> Contents] /\ boot \in Slots /\ running \in Slots
    /\ crash_count \in 0..Threshold - 1
    /\ count_at_boot \in 0..Threshold - 1
    /\ rollback \in Slots \cup {NoSlot} /\ rollback_info \in Slots \cup {NoSlot}
    /\ crash_reset \in BOOLEAN /\ healthy_marked \in BOOLEAN
    /\ pc \in {"check", "record", "switch", "restart", "up"}
    /\ update \in {"none", "writing", "verified", "switched"}
    /\ streak \in 0..MaxStreak /\ loop \in 0..MaxStreak /\ reverted \subseteq Slots /\ faulted \in BOOLEAN

(* The device always boots a complete image, whatever an interrupted        *)
(* update left in the other slot and whatever the guard decided.            *)
BootsImage == slot[boot] = "image" /\ slot[running] = "image"

(* A rollback needs Threshold crash resets in a row, none of them after 30  *)
(* healthy seconds: a restart, a power cycle, a rollback cut short or an    *)
(* update in between starts the count again (boot_guard.h).  Claimed until  *)
(* NVS fails, or the guard itself crashes.                                  *)
ThreeInARow == ~faulted /\ pc \in {"record", "switch"} => streak >= Threshold

(* The other half: no image starts up again after that many crash resets in *)
(* a row, counted from when there is an image to go back to.  A guard that  *)
(* gave up for want of one, or an update that completed one without         *)
(* selecting it, starts the count again.                                    *)
CrashLoopEscapes == ~faulted /\ pc = "up" => loop < Threshold

(* A device that has gone back to the other image says so, on that boot and *)
(* on every later one: the record is in flash before the switch, since the  *)
(* restart follows it at once (boot_guard.h, "Human-readable record of the  *)
(* last crash rollback").                                                  *)
RollbackReported == ~faulted /\ pc = "up" /\ reverted # {} => rollback_info # NoSlot

\* inductive: it is in flash when the slots are switched, and never leaves
ReportInv ==
    ~faulted =>
        /\ pc \in {"record", "switch"} => rollback_info # NoSlot
        /\ pc = "switch" \/ reverted # {} => rollback # NoSlot
        /\ RollbackReported

(* Why the first two hold: the stored counter never counts a crash too many, *)
(* and none too few while there is an image to go back to.                  *)
CountBacked ==
  /\ boot # running => pc = "restart" \/ update = "switched"
  /\ update # "none" => pc = "up"
  /\ update \in {"verified", "switched"} => slot[Other(running)] = "image"
  /\ ~faulted =>
    /\ pc = "check" /\ crash_reset => crash_count < streak
    /\ pc = "up" => crash_count <= streak /\ crash_count \in {0, count_at_boot}
    /\ pc \in {"record", "switch", "restart"} => crash_count = 0

CountComplete ==
  /\ loop <= streak
  /\ loop > 0 => slot[Other(running)] = "image"
  /\ update # "none" \/ pc = "restart" => loop = 0
  /\ ~faulted =>
    /\ pc = "check" => loop <= IF crash_reset THEN crash_count + 1 ELSE 0
    /\ pc = "up" => loop <= crash_count

(* The inductive invariant of the guard: the counter and the crash resets   *)
(* agree at every step of a boot (boot_guard.cpp, check_on_boot).           *)
GuardInv == TypeOK /\ BootsImage /\ CountBacked /\ CountComplete /\ ThreeInARow

=============================================================================
