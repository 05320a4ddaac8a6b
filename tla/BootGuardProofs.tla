--------------------------- MODULE BootGuardProofs ---------------------------
(***************************************************************************)
(* The boot guard reacts to crash loops and to nothing else, for every     *)
(* threshold: its stored counter and the crash resets agree for as long as *)
(* its storage opens and the guard itself does not crash.                  *)
(***************************************************************************)
EXTENDS BootGuard, TLAPS

LEMMA OtherSlot == \A s \in Slots : Other(s) \in Slots /\ Other(s) # s /\ Other(Other(s)) = s
  BY DEF Slots, Other

(* boot_guard_decide(): what each verdict says of the counter.             *)
LEMMA DecideFacts ==
  ASSUME NEW crashed \in BOOLEAN, NEW fallback \in BOOLEAN, NEW prior \in 0..Threshold - 1
  PROVE  LET d == Decide(crashed, prior, fallback)
         IN  /\ d.count \in 0..Threshold - 1
             /\ d.action = "COUNT" => crashed /\ d.count = prior + 1
             /\ d.action # "COUNT" => d.count = 0
             /\ d.action = "CLEAR" <=> ~crashed
             /\ d.action = "ROLLBACK" => prior + 1 = Threshold /\ fallback
             /\ d.action = "GIVE_UP" => ~fallback
             /\ d.action \in {"CLEAR", "COUNT", "ROLLBACK", "GIVE_UP"}
  BY BootGuardAssumption DEF Decide

LEMMA InitGuard == Init => GuardInv
<1> SUFFICES ASSUME Init PROVE GuardInv
  OBVIOUS
<1> USE BootGuardAssumption DEF Init
<1>1. TypeOK
  <2>1. slot \in [Slots -> Contents] /\ boot \in Slots /\ running \in Slots
    OBVIOUS
  <2>2. crash_count \in 0..Threshold - 1 /\ count_at_boot \in 0..Threshold - 1
    OBVIOUS
  <2>3. rollback \in Slots \cup {NoSlot} /\ rollback_info \in Slots \cup {NoSlot}
    OBVIOUS
  <2>4. crash_reset \in BOOLEAN /\ healthy_marked \in BOOLEAN
    OBVIOUS
  <2>5. pc \in {"check", "record", "switch", "restart", "up"}
    OBVIOUS
  <2>6. streak \in 0..MaxStreak /\ reverted \subseteq Slots
    OBVIOUS
  <2>8. loop \in 0..MaxStreak /\ update \in {"none", "writing", "verified", "switched"}
    OBVIOUS
  <2>7. faulted \in BOOLEAN
    OBVIOUS
  <2> QED BY <2>1, <2>2, <2>3, <2>4, <2>5, <2>6, <2>7, <2>8 DEF TypeOK
<1>2. BootsImage /\ CountBacked /\ CountComplete /\ ThreeInARow
  BY DEF BootsImage, CountBacked, CountComplete, ThreeInARow
<1> QED BY <1>1, <1>2 DEF GuardInv

(* A step of a boot, or the reset that ends it, preserves the invariant.   *)
LEMMA NextGuard ==
  ASSUME GuardInv, [Next]_vars
  PROVE  GuardInv'
<1> USE BootGuardAssumption
<1> USE DEF GuardInv, TypeOK, BootsImage, CountBacked, CountComplete, ThreeInARow
<1>o. Other(running) \in Slots /\ Other(running) # running /\ Other(Other(running)) = running
  BY OtherSlot
<1>1. CASE CheckCounts
  <2>1. FallbackValid \in BOOLEAN /\ (slot[Other(running)] = "image" => FallbackValid)
    BY DEF FallbackValid
  <2>2. /\ Verdict.count \in 0..Threshold - 1
        /\ Verdict.action = "COUNT" => crash_reset /\ Verdict.count = crash_count + 1
        /\ Verdict.action # "COUNT" => Verdict.count = 0
        /\ Verdict.action = "CLEAR" <=> ~crash_reset
        /\ Verdict.action = "GIVE_UP" => ~FallbackValid
        /\ Verdict.action \in {"CLEAR", "COUNT", "ROLLBACK", "GIVE_UP"}
    BY <2>1, DecideFacts DEF Verdict
  <2>a. TypeOK'
    BY <1>1, <2>2 DEF CheckCounts, ghost
  <2>b. (BootsImage /\ CountBacked /\ CountComplete /\ ThreeInARow)'
    BY <1>1, <1>o, <2>1, <2>2 DEF CheckCounts, ghost
  <2> QED BY <2>a, <2>b
<1>2. CASE RollbackClears
  <2>1. FallbackValid \in BOOLEAN
    BY DEF FallbackValid
  <2>2. crash_reset /\ crash_count + 1 = Threshold
    BY <1>2, <2>1, DecideFacts DEF Verdict, RollbackClears
  <2>a. TypeOK'
    BY <1>2, <1>o DEF RollbackClears, ghost
  <2>b. (BootsImage /\ CountBacked /\ CountComplete /\ ThreeInARow)'
    BY <1>2, <1>o, <2>2 DEF RollbackClears, ghost
  <2> QED BY <2>a, <2>b
<1>3. CASE RollbackRecords
  BY <1>3 DEF RollbackRecords, ram, ghost
<1>4. CASE RollbackSwitches
  <2>a. TypeOK'
    BY <1>4, <1>o DEF RollbackSwitches, SetBootPartition, ram
  <2>b. (BootsImage /\ CountBacked /\ CountComplete /\ ThreeInARow)'
    BY <1>4, <1>o DEF RollbackSwitches, SetBootPartition, ram
  <2> QED BY <2>a, <2>b
<1>5. CASE RollbackFails
  <2>a. TypeOK'
    <3>1. (faulted \in BOOLEAN)'
      BY <1>5 DEF RollbackFails
    <3> QED BY <1>5, <1>o, <3>1 DEF RollbackFails, flash, ram
  <2>1. ~faulted' => ~faulted /\ loop = 0 /\ crash_count = 0
    <3>1. ~faulted' => ~faulted /\ slot[Other(running)] # "image"
      BY <1>5, Zenon DEF RollbackFails
    <3>2. loop \in 0..MaxStreak /\ ~(loop > 0) => loop = 0
      OBVIOUS
    <3>3. ~faulted => crash_count = 0
      BY <1>5 DEF RollbackFails
    <3> QED BY <3>1, <3>2, <3>3
  <2>b. (BootsImage /\ CountBacked /\ CountComplete /\ ThreeInARow)'
    BY <1>5, <1>o, <2>1 DEF RollbackFails, flash, ram
  <2> QED BY <2>a, <2>b
<1>6. CASE MarkHealthy
  <2>a. TypeOK'
    <3>1. (faulted \in BOOLEAN)'
      BY <1>6 DEF MarkHealthy
    <3>2. (crash_count \in 0..Threshold - 1 /\ count_at_boot \in 0..Threshold - 1)'
      BY <1>6 DEF MarkHealthy
    <3> QED BY <1>6, <3>1, <3>2 DEF MarkHealthy
  <2>b. (BootsImage /\ CountBacked /\ CountComplete /\ ThreeInARow)'
    BY <1>6, <1>o DEF MarkHealthy
  <2> QED BY <2>a, <2>b
<1>7. CASE UpdateBegins
  <2>a. TypeOK'
    BY <1>7, <1>o DEF UpdateBegins, Contents, ram, ghost
  <2>b. (BootsImage /\ CountBacked /\ CountComplete /\ ThreeInARow)'
    BY <1>7, <1>o DEF UpdateBegins, Contents, ram, ghost
  <2> QED BY <2>a, <2>b
<1>8. CASE UpdateWrites
  <2>a. TypeOK'
    BY <1>8, <1>o DEF UpdateWrites, Contents, ram, ghost
  <2>b. (BootsImage /\ CountBacked /\ CountComplete /\ ThreeInARow)'
    BY <1>8, <1>o DEF UpdateWrites, Contents, ram, ghost
  <2> QED BY <2>a, <2>b
<1>9. CASE ImageCompletes
  <2>a. TypeOK'
    BY <1>9, <1>o DEF ImageCompletes, Contents, ram, ghost
  <2>b. (BootsImage /\ CountBacked /\ CountComplete /\ ThreeInARow)'
    BY <1>9, <1>o DEF ImageCompletes, Contents, ram, ghost
  <2> QED BY <2>a, <2>b
<1>14. CASE UpdateFails
  <2>a. TypeOK'
    BY <1>14, <1>o DEF UpdateFails, flash, ram, ghost
  <2>b. (BootsImage /\ CountBacked /\ CountComplete /\ ThreeInARow)'
    BY <1>14, <1>o DEF UpdateFails, flash, ram, ghost
  <2> QED BY <2>a, <2>b
<1>15. CASE UpdateSwitches
  <2>a. TypeOK'
    BY <1>15, <1>o DEF UpdateSwitches, SetBootPartition, ram, ghost
  <2>b. (BootsImage /\ CountBacked /\ CountComplete /\ ThreeInARow)'
    BY <1>15, <1>o DEF UpdateSwitches, SetBootPartition, ram, ghost
  <2> QED BY <2>a, <2>b
<1>16. CASE UpdateSwitchFails
  <2>a. TypeOK'
    BY <1>16, <1>o DEF UpdateSwitchFails, flash, ram, ghost
  <2>b. (BootsImage /\ CountBacked /\ CountComplete /\ ThreeInARow)'
    BY <1>16, <1>o DEF UpdateSwitchFails, flash, ram, ghost
  <2> QED BY <2>a, <2>b
<1>10. CASE NormalReset
  <2>a. TypeOK'
    <3>1. (crash_reset \in BOOLEAN /\ healthy_marked \in BOOLEAN)'
      BY <1>10, OtherSlot DEF NormalReset, Boot, flash, NoSlot
    <3>2. (slot \in [Slots -> Contents] /\ boot \in Slots /\ running \in Slots)'
      BY <1>10, OtherSlot DEF NormalReset, Boot, flash, NoSlot
    <3>3. (crash_count \in 0..Threshold - 1 /\ count_at_boot \in 0..Threshold - 1)'
      BY <1>10, OtherSlot DEF NormalReset, Boot, flash, NoSlot
    <3>4. (rollback \in Slots \cup {NoSlot} /\ rollback_info \in Slots \cup {NoSlot})'
      BY <1>10, OtherSlot DEF NormalReset, Boot, flash, NoSlot
    <3>5. (pc \in {"check", "record", "switch", "restart", "up"} /\ streak \in 0..MaxStreak)'
      BY <1>10, OtherSlot DEF NormalReset, Boot, flash, NoSlot
    <3>6. (reverted \subseteq Slots /\ faulted \in BOOLEAN)'
      BY <1>10, OtherSlot DEF NormalReset, Boot, flash, NoSlot
    <3>7. (loop \in 0..MaxStreak /\ update \in {"none", "writing", "verified", "switched"})'
      BY <1>10 DEF NormalReset, Boot
    <3> QED BY <3>1, <3>2, <3>3, <3>4, <3>5, <3>6, <3>7 DEF TypeOK
  <2>b. (BootsImage /\ CountBacked /\ CountComplete /\ ThreeInARow)'
    BY <1>10, OtherSlot DEF NormalReset, Boot, flash, NoSlot
  <2> QED BY <2>a, <2>b
<1>11. CASE Crash
  <2>a. TypeOK'
    <3>1. (crash_reset \in BOOLEAN /\ healthy_marked \in BOOLEAN)'
      BY <1>11, OtherSlot DEF Crash, Boot, flash, NoSlot
    <3>2. (slot \in [Slots -> Contents] /\ boot \in Slots /\ running \in Slots)'
      BY <1>11, OtherSlot DEF Crash, Boot, flash, NoSlot
    <3>3. (crash_count \in 0..Threshold - 1 /\ count_at_boot \in 0..Threshold - 1)'
      BY <1>11, OtherSlot DEF Crash, Boot, flash, NoSlot
    <3>4. (rollback \in Slots \cup {NoSlot} /\ rollback_info \in Slots \cup {NoSlot})'
      BY <1>11, OtherSlot DEF Crash, Boot, flash, NoSlot
    <3>5. (pc \in {"check", "record", "switch", "restart", "up"} /\ streak \in 0..MaxStreak)'
      BY <1>11, OtherSlot DEF Crash, Boot, flash, NoSlot
    <3>6. (reverted \subseteq Slots)'
      BY <1>11, OtherSlot DEF Crash, Boot, flash, NoSlot
    <3>7. (faulted \in BOOLEAN)'
      BY <1>11 DEF Crash
    <3>8. (loop \in 0..MaxStreak /\ update \in {"none", "writing", "verified", "switched"})'
      BY <1>11 DEF Crash, Boot
    <3> QED BY <3>1, <3>2, <3>3, <3>4, <3>5, <3>6, <3>7, <3>8 DEF TypeOK
  <2>1. ~faulted' => ~faulted /\ pc \in {"up", "restart"}
    BY <1>11 DEF Crash
  <2>2. /\ running' = boot /\ boot' = boot /\ slot' = slot /\ crash_reset'
        /\ pc' = "check" /\ streak' = streak + 1 /\ crash_count' = crash_count
        /\ update' = "none" /\ loop' = IF slot[Other(boot)] = "image" THEN loop + 1 ELSE 0
    BY <1>11 DEF Crash, Boot, flash
  <2>b. (BootsImage /\ CountBacked /\ ThreeInARow)'
    BY <2>1, <2>2, OtherSlot
  <2>c. CountComplete'
    BY <2>1, <2>2, OtherSlot
  <2> QED BY <2>a, <2>b, <2>c
<1>12. CASE UNCHANGED vars
  BY <1>12 DEF vars, flash, ram, ghost
<1>13. CASE NvsUnavailable
  <2>a. TypeOK'
    <3>1. (faulted \in BOOLEAN)'
      BY <1>13 DEF NvsUnavailable
    <3> QED BY <1>13, <3>1 DEF NvsUnavailable, flash, ram
  <2>b. (BootsImage /\ CountBacked /\ CountComplete /\ ThreeInARow)'
    BY <1>13 DEF NvsUnavailable, flash, ram
  <2> QED BY <2>a, <2>b
<1> QED BY <1>1, <1>2, <1>3, <1>4, <1>5, <1>6, <1>7, <1>8, <1>9, <1>10, <1>11, <1>12, <1>13, <1>14, <1>15, <1>16 DEF Next

(* The counter and the crash resets agree at every step of every boot.     *)
THEOREM GuardInvariance == Spec => []GuardInv
<1>1. Init => GuardInv
  BY InitGuard
<1>2. GuardInv /\ [Next]_vars => GuardInv'
  BY NextGuard
<1> QED BY <1>1, <1>2, PTL DEF Spec

(* A rollback needs Threshold crash resets in a row (boot_guard.h).        *)
THEOREM RollbackNeedsLoop == Spec => []ThreeInARow
<1>1. GuardInv => ThreeInARow
  BY DEF GuardInv
<1> QED BY <1>1, GuardInvariance, PTL

(* No image starts up again after Threshold crash resets in a row, counted  *)
(* from when the other slot holds an image (boot_guard_logic.h, ROLLBACK). *)
THEOREM LoopEscapes == Spec => []CrashLoopEscapes
<1>1. GuardInv => CrashLoopEscapes
  BY BootGuardAssumption DEF GuardInv, TypeOK, CountComplete, CrashLoopEscapes
<1> QED BY <1>1, GuardInvariance, PTL

(* A rollback that happened is reported, on that boot and on every later    *)
(* one: its record was stored before the switch.                           *)
THEOREM RollbackIsReported == Spec => []RollbackReported
<1> USE DEF ReportInv, RollbackReported
<1>1. Init => ReportInv
  BY DEF Init
<1>2. GuardInv /\ ReportInv /\ [Next]_vars => ReportInv'
  <2> SUFFICES ASSUME GuardInv, ReportInv, [Next]_vars, ~faulted' PROVE ReportInv'
    OBVIOUS
  <2> USE DEF flash, ram, ghost
  <2>0. NoSlot \notin Slots /\ Other(running) # NoSlot
    BY DEF NoSlot, Slots, Other
  <2>1. CASE NvsUnavailable
    BY <2>1 DEF NvsUnavailable
  <2>2. CASE CheckCounts
    BY <2>2 DEF CheckCounts
  <2>3. CASE RollbackClears
    BY <2>3, <2>0 DEF RollbackClears
  <2>4. CASE RollbackRecords \/ RollbackSwitches \/ RollbackFails
    BY <2>4 DEF RollbackRecords, RollbackSwitches, RollbackFails
  <2>5. CASE MarkHealthy
    BY <2>5 DEF MarkHealthy
  <2>6. CASE UpdateBegins \/ UpdateWrites \/ ImageCompletes
    BY <2>6 DEF UpdateBegins, UpdateWrites, ImageCompletes
  <2>9. CASE UpdateFails \/ UpdateSwitches \/ UpdateSwitchFails
    BY <2>9 DEF UpdateFails, UpdateSwitches, UpdateSwitchFails
  <2>7. CASE NormalReset \/ Crash
    BY <2>7 DEF NormalReset, Crash, Boot
  <2>8. CASE UNCHANGED vars
    BY <2>8 DEF vars
  <2> QED BY <2>1, <2>2, <2>3, <2>4, <2>5, <2>6, <2>7, <2>8, <2>9 DEF Next
<1>3. ReportInv => RollbackReported
  OBVIOUS
<1> QED BY <1>1, <1>2, <1>3, GuardInvariance, PTL DEF Spec
=============================================================================
