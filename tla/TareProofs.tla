----------------------------- MODULE TareProofs -----------------------------
(***************************************************************************)
(* Who owns a tare request: the sampling task that claims it or the caller *)
(* that takes it back, and whose zero a caller ends up with, for every     *)
(* number of conversions and every load.                                   *)
(***************************************************************************)
EXTENDS Tare, TLAPS

LEMMA FlagsStep ==
  ASSUME Flags, [Next]_vars PROVE Flags'
<1> USE DEF Flags, sensor, sampler, ui, grind, history
<1>1. CASE Sample
  BY <1>1 DEF Sample
<1>2. CASE CheckTimes
  BY <1>2 DEF CheckTimes
<1>3. CASE CountSample
  BY <1>3 DEF CountSample
<1>4. CASE Claim
  BY <1>4 DEF Claim
<1>5. CASE ApplyOffset
  BY <1>5 DEF ApplyOffset
<1>6. CASE ReportTared
  BY <1>6 DEF ReportTared
<1>7. CASE ScaleStalls
  BY <1>7 DEF ScaleStalls
<1>8. CASE PanChanges
  BY <1>8 DEF PanChanges
<1>9. CASE \E who \in {"tare", "tune"} : UiBegins(who)
  <2>1. PICK who \in {"tare", "tune"} : UiBegins(who)
    BY <1>9
  <2> QED BY <2>1 DEF UiBegins
<1>10. CASE UiArms
  BY <1>10 DEF UiArms, ArmStore, Arming
<1>11. CASE WaitRound
  BY <1>11 DEF WaitRound
<1>12. CASE StopWaiting
  BY <1>12 DEF StopWaiting
<1>13. CASE Disarm
  BY <1>13 DEF Disarm
<1>14. CASE PollStatus
  BY <1>14 DEF PollStatus
<1>15. CASE TuneCancelled
  BY <1>15 DEF TuneCancelled
<1>16. CASE GrindBegins
  BY <1>16 DEF GrindBegins
<1>17. CASE GrindArms
  BY <1>17 DEF GrindArms, ArmStore, Arming
<1>18. CASE GrindConfirms
  BY <1>18 DEF GrindConfirms
<1>19. CASE GrindStops
  BY <1>19 DEF GrindStops
<1>20. CASE ControlNotices
  BY <1>20 DEF ControlNotices
<1>22. CASE LoadRequest
  BY <1>22 DEF LoadRequest
<1>21. CASE UNCHANGED vars
  BY <1>21 DEF vars
<1> QED
  BY <1>1, <1>2, <1>3, <1>4, <1>5, <1>6, <1>7, <1>8, <1>9, <1>10, <1>11, <1>12,
     <1>13, <1>14, <1>15, <1>16, <1>17, <1>18, <1>19, <1>20, <1>21,
     <1>22 DEF Next,
     SamplerPass, UiStep

(* Every variable keeps its range; the count never passes DATA_SET.        *)
LEMMA TypeStep ==
  ASSUME TypeOK, [Next]_vars PROVE TypeOK'
<1>f. Flags'
  BY FlagsStep DEF TypeOK
<1> USE <1>f, TareAssumption, NoneAssumption DEF TypeOK, sensor, sampler, ui, grind, history
<1>1. CASE Sample
  BY <1>1 DEF Sample
<1>2. CASE CheckTimes
  BY <1>2 DEF CheckTimes
<1>3. CASE CountSample
  BY <1>3 DEF CountSample
<1>4. CASE Claim
  BY <1>4 DEF Claim
<1>5. CASE ApplyOffset
  BY <1>5 DEF ApplyOffset
<1>6. CASE ReportTared
  BY <1>6 DEF ReportTared
<1>7. CASE ScaleStalls
  BY <1>7 DEF ScaleStalls
<1>8. CASE PanChanges
  BY <1>8 DEF PanChanges
<1>9. CASE \E who \in {"tare", "tune"} : UiBegins(who)
  <2>1. PICK who \in {"tare", "tune"} : UiBegins(who)
    BY <1>9
  <2> QED BY <2>1 DEF UiBegins, Arming
<1>10. CASE UiArms
  BY <1>10 DEF UiArms, ArmStore, Arming
<1>11. CASE WaitRound
  BY <1>11 DEF WaitRound
<1>12. CASE StopWaiting
  BY <1>12 DEF StopWaiting
<1>13. CASE Disarm
  BY <1>13 DEF Disarm
<1>14. CASE PollStatus
  BY <1>14 DEF PollStatus
<1>15. CASE TuneCancelled
  BY <1>15 DEF TuneCancelled
<1>16. CASE GrindBegins
  BY <1>16 DEF GrindBegins, Arming
<1>17. CASE GrindArms
  BY <1>17 DEF GrindArms, ArmStore, Arming
<1>18. CASE GrindConfirms
  BY <1>18 DEF GrindConfirms
<1>19. CASE GrindStops
  BY <1>19 DEF GrindStops
<1>20. CASE ControlNotices
  BY <1>20 DEF ControlNotices
<1>22. CASE LoadRequest
  BY <1>22 DEF LoadRequest
<1>21. CASE UNCHANGED vars
  BY <1>21 DEF vars
<1> QED
  BY <1>1, <1>2, <1>3, <1>4, <1>5, <1>6, <1>7, <1>8, <1>9, <1>10, <1>11, <1>12,
     <1>13, <1>14, <1>15, <1>16, <1>17, <1>18, <1>19, <1>20, <1>21,
     <1>22 DEF Next,
     SamplerPass, UiStep

(* One caller at a time on core 1, and none while a grind is on.           *)
LEMMA CallersStep ==
  ASSUME CallersInv, [Next]_vars PROVE CallersInv'
<1> USE DEF CallersInv, None, sensor, sampler, ui, grind, history
<1>1. CASE Sample
  BY <1>1 DEF Sample
<1>2. CASE CheckTimes
  BY <1>2 DEF CheckTimes
<1>3. CASE CountSample
  BY <1>3 DEF CountSample
<1>4. CASE Claim
  BY <1>4 DEF Claim
<1>5. CASE ApplyOffset
  BY <1>5 DEF ApplyOffset
<1>6. CASE ReportTared
  BY <1>6 DEF ReportTared
<1>7. CASE ScaleStalls
  BY <1>7 DEF ScaleStalls
<1>8. CASE PanChanges
  BY <1>8 DEF PanChanges
<1>9. CASE \E who \in {"tare", "tune"} : UiBegins(who)
  <2>1. PICK who \in {"tare", "tune"} : UiBegins(who)
    BY <1>9
  <2> QED BY <2>1 DEF UiBegins
<1>10. CASE UiArms
  BY <1>10 DEF UiArms, ArmStore, Arming
<1>11. CASE WaitRound
  BY <1>11 DEF WaitRound
<1>12. CASE StopWaiting
  BY <1>12 DEF StopWaiting
<1>13. CASE Disarm
  BY <1>13 DEF Disarm
<1>14. CASE PollStatus
  BY <1>14 DEF PollStatus
<1>15. CASE TuneCancelled
  BY <1>15 DEF TuneCancelled
<1>16. CASE GrindBegins
  BY <1>16 DEF GrindBegins
<1>17. CASE GrindArms
  BY <1>17 DEF GrindArms, ArmStore, Arming
<1>18. CASE GrindConfirms
  BY <1>18 DEF GrindConfirms
<1>19. CASE GrindStops
  BY <1>19 DEF GrindStops
<1>20. CASE ControlNotices
  BY <1>20 DEF ControlNotices
<1>22. CASE LoadRequest
  BY <1>22 DEF LoadRequest
<1>21. CASE UNCHANGED vars
  BY <1>21 DEF vars
<1> QED
  BY <1>1, <1>2, <1>3, <1>4, <1>5, <1>6, <1>7, <1>8, <1>9, <1>10, <1>11, <1>12,
     <1>13, <1>14, <1>15, <1>16, <1>17, <1>18, <1>19, <1>20, <1>21,
     <1>22 DEF Next,
     SamplerPass, UiStep

(* A claim and the exchange of the caller exclude each other.              *)
LEMMA ClaimStep ==
  ASSUME TypeOK, CallersInv, ClaimInv, [Next]_vars PROVE ClaimInv'
<1> USE TareAssumption, NoneAssumption DEF CallersInv, ClaimInv, sensor, sampler, ui, grind, history
<1>1. CASE Sample
  BY <1>1 DEF Sample
<1>2. CASE CheckTimes
  BY <1>2 DEF CheckTimes
<1>3. CASE CountSample
  BY <1>3 DEF CountSample
<1>4. CASE Claim
  BY <1>4 DEF Claim
<1>5. CASE ApplyOffset
  BY <1>5 DEF ApplyOffset
<1>6. CASE ReportTared
  BY <1>6 DEF ReportTared
<1>7. CASE ScaleStalls
  BY <1>7 DEF ScaleStalls
<1>8. CASE PanChanges
  BY <1>8 DEF PanChanges
<1>9. CASE \E who \in {"tare", "tune"} : UiBegins(who)
  <2>1. PICK who \in {"tare", "tune"} : UiBegins(who)
    BY <1>9
  <2> QED BY <2>1 DEF UiBegins
<1>10. CASE UiArms
  BY <1>10 DEF UiArms, ArmStore, Arming
<1>11. CASE WaitRound
  BY <1>11 DEF WaitRound
<1>12. CASE StopWaiting
  BY <1>12 DEF StopWaiting
<1>13. CASE Disarm
  BY <1>13 DEF Disarm, TypeOK
<1>14. CASE PollStatus
  BY <1>14 DEF PollStatus
<1>15. CASE TuneCancelled
  BY <1>15 DEF TuneCancelled
<1>16. CASE GrindBegins
  BY <1>16 DEF GrindBegins
<1>17. CASE GrindArms
  BY <1>17 DEF GrindArms, ArmStore, Arming
<1>18. CASE GrindConfirms
  BY <1>18 DEF GrindConfirms
<1>19. CASE GrindStops
  BY <1>19 DEF GrindStops
<1>20. CASE ControlNotices
  BY <1>20 DEF ControlNotices
<1>22. CASE LoadRequest
  BY <1>22 DEF LoadRequest
<1>21. CASE UNCHANGED vars
  BY <1>21 DEF vars
<1> QED
  BY <1>1, <1>2, <1>3, <1>4, <1>5, <1>6, <1>7, <1>8, <1>9, <1>10, <1>11, <1>12,
     <1>13, <1>14, <1>15, <1>16, <1>17, <1>18, <1>19, <1>20, <1>21,
     <1>22 DEF Next,
     SamplerPass, UiStep

(* A request made with none outstanding, from its first store to its end.  *)
LEMMA CleanStep ==
  ASSUME TypeOK, CallersInv, CleanInv, [Next]_vars PROVE CleanInv'
<1>t. tareTimes \in 0 .. DATA_SET /\ seen \in 0 .. DATA_SET /\ fresh \in 0 .. DATA_SET + 1
      /\ DATA_SET \in Nat
  BY TareAssumption DEF TypeOK
<1> USE <1>t DEF CallersInv, CleanInv, Asked, Arming, None, sensor, sampler, ui, grind, history
<1>1. CASE Sample
  BY <1>1 DEF Sample
<1>2. CASE CheckTimes
  BY <1>2 DEF CheckTimes
<1>3. CASE CountSample
  BY <1>3 DEF CountSample
<1>4. CASE Claim
  BY <1>4 DEF Claim
<1>5. CASE ApplyOffset
  BY <1>5 DEF ApplyOffset
<1>6. CASE ReportTared
  BY <1>6 DEF ReportTared
<1>7. CASE ScaleStalls
  BY <1>7 DEF ScaleStalls
<1>8. CASE PanChanges
  BY <1>8 DEF PanChanges
<1>9. CASE \E who \in {"tare", "tune"} : UiBegins(who)
  <2>1. PICK who \in {"tare", "tune"} : UiBegins(who)
    BY <1>9
  <2> QED BY <2>1 DEF UiBegins
<1>10. CASE UiArms
  BY <1>10 DEF UiArms, ArmStore, Arming
<1>11. CASE WaitRound
  BY <1>11 DEF WaitRound
<1>12. CASE StopWaiting
  BY <1>12 DEF StopWaiting
<1>13. CASE Disarm
  BY <1>13 DEF Disarm
<1>14. CASE PollStatus
  BY <1>14 DEF PollStatus
<1>15. CASE TuneCancelled
  BY <1>15 DEF TuneCancelled
<1>16. CASE GrindBegins
  BY <1>16 DEF GrindBegins
<1>17. CASE GrindArms
  BY <1>17 DEF GrindArms, ArmStore, Arming
<1>18. CASE GrindConfirms
  BY <1>18 DEF GrindConfirms
<1>19. CASE GrindStops
  BY <1>19 DEF GrindStops
<1>20. CASE ControlNotices
  BY <1>20 DEF ControlNotices
<1>22. CASE LoadRequest
  BY <1>22 DEF LoadRequest
<1>21. CASE UNCHANGED vars
  BY <1>21 DEF vars
<1> QED
  BY <1>1, <1>2, <1>3, <1>4, <1>5, <1>6, <1>7, <1>8, <1>9, <1>10, <1>11, <1>12,
     <1>13, <1>14, <1>15, <1>16, <1>17, <1>18, <1>19, <1>20, <1>21,
     <1>22 DEF Next,
     SamplerPass, UiStep

(* What a clean request leaves behind when it is over.                     *)
LEMMA FreshStep ==
  ASSUME TypeOK, CallersInv, CleanInv, FreshZero, [Next]_vars PROVE FreshZero'
<1>t. fresh \in 0 .. DATA_SET + 1 /\ DATA_SET \in Nat
  BY TareAssumption DEF TypeOK
<1> USE <1>t DEF CallersInv, FreshZero, None, sensor, sampler, ui, grind, history
<1>1. CASE Sample
  BY <1>1 DEF Sample
<1>2. CASE CheckTimes
  BY <1>2 DEF CheckTimes
<1>3. CASE CountSample
  BY <1>3 DEF CountSample
<1>4. CASE Claim
  BY <1>4 DEF Claim
<1>5. CASE ApplyOffset
  BY <1>5 DEF ApplyOffset
<1>6. CASE ReportTared
  BY <1>6 DEF ReportTared
<1>7. CASE ScaleStalls
  BY <1>7 DEF ScaleStalls
<1>8. CASE PanChanges
  BY <1>8 DEF PanChanges
<1>9. CASE \E who \in {"tare", "tune"} : UiBegins(who)
  <2>1. PICK who \in {"tare", "tune"} : UiBegins(who)
    BY <1>9
  <2> QED BY <2>1 DEF UiBegins
<1>10. CASE UiArms
  BY <1>10 DEF UiArms, ArmStore, Arming
<1>11. CASE WaitRound
  BY <1>11 DEF WaitRound
<1>12. CASE StopWaiting
  BY <1>12 DEF StopWaiting
<1>13. CASE Disarm
  BY <1>13 DEF Disarm, CleanInv, Asked
<1>14. CASE PollStatus
  BY <1>14 DEF PollStatus, CleanInv, Asked
<1>15. CASE TuneCancelled
  BY <1>15 DEF TuneCancelled
<1>16. CASE GrindBegins
  BY <1>16 DEF GrindBegins
<1>17. CASE GrindArms
  BY <1>17 DEF GrindArms, ArmStore, Arming
<1>18. CASE GrindConfirms
  BY <1>18 DEF GrindConfirms
<1>19. CASE GrindStops
  BY <1>19 DEF GrindStops
<1>20. CASE ControlNotices
  BY <1>20 DEF ControlNotices
<1>22. CASE LoadRequest
  BY <1>22 DEF LoadRequest
<1>21. CASE UNCHANGED vars
  BY <1>21 DEF vars
<1> QED
  BY <1>1, <1>2, <1>3, <1>4, <1>5, <1>6, <1>7, <1>8, <1>9, <1>10, <1>11, <1>12,
     <1>13, <1>14, <1>15, <1>16, <1>17, <1>18, <1>19, <1>20, <1>21,
     <1>22 DEF Next,
     SamplerPass, UiStep

LEMMA InitTare == Init => TareInv
<1> SUFFICES ASSUME Init PROVE TareInv
  OBVIOUS
<1> USE TareAssumption, NoneAssumption DEF Init
<1>1. TypeOK
  <2>1. Flags
    BY DEF Flags
  <2> QED BY <2>1 DEF TypeOK
<1>2. CallersInv /\ ClaimInv /\ CleanInv
  BY DEF CallersInv, ClaimInv, CleanInv, Asked, Arming, None
<1>3. TimedOutStaysPut /\ FreshZero
  BY DEF TimedOutStaysPut, FreshZero, None
<1> QED BY <1>1, <1>2, <1>3 DEF TareInv

(* The inductive invariant of the handshake holds in every reachable state. *)
THEOREM TareInvariance == Spec => []TareInv
<1>1. TareInv /\ [Next]_vars => TareInv'
  <2> SUFFICES ASSUME TareInv, [Next]_vars PROVE TareInv'
    OBVIOUS
  <2>1. TypeOK' /\ CallersInv' /\ ClaimInv'
    BY TypeStep, CallersStep, ClaimStep DEF TareInv
  <2>2. CleanInv' /\ FreshZero'
    BY CleanStep, FreshStep DEF TareInv
  <2>3. TimedOutStaysPut'
    BY <2>1 DEF ClaimInv, TimedOutStaysPut
  <2> QED BY <2>1, <2>2, <2>3 DEF TareInv
<1> QED BY InitTare, <1>1, PTL DEF Spec

(* tareTimes never counts past DATA_SET, and every variable keeps its range. *)
THEOREM TareTypes == Spec => []TypeOK
<1>1. TareInv => TypeOK
  BY DEF TareInv
<1> QED BY TareInvariance, <1>1, PTL

(* The exchange of tare() and the compare-exchange of the sampling task:    *)
(* a request that was reported as timed out never moves the zero.          *)
THEOREM TimeoutMovesNothing == Spec => []TimedOutStaysPut
<1>1. TareInv => TimedOutStaysPut
  BY DEF TareInv
<1> QED BY TareInvariance, <1>1, PTL

(* A clean request is served after DATA_SET conversions of its own.         *)
THEOREM ZeroIsFresh == Spec => []FreshZero
<1>1. TareInv => FreshZero
  BY DEF TareInv
<1> QED BY TareInvariance, <1>1, PTL

(* The status update_tare() consumes is that of its own request.            *)
THEOREM TuneHasItsZero == Spec => []TuneOnItsOwnZero
<1>1. TareInv => TuneOnItsOwnZero
  BY DEF TareInv, CleanInv, TuneOnItsOwnZero
<1> QED BY TareInvariance, <1>1, PTL

(* TARE_CONFIRM lets the motor start only on a zero moved for this grind.   *)
THEOREM GrindHasItsZero == Spec => []GrindOnItsOwnZero
<1>1. TareInv => GrindOnItsOwnZero
  BY DEF TareInv, ClaimInv, GrindOnItsOwnZero
<1> QED BY TareInvariance, <1>1, PTL
=============================================================================
