-------------------------------- MODULE Tare --------------------------------
(***************************************************************************)
(* The tare handshake of src/hardware/WeightSensor.cpp.  tareNoDelay()     *)
(* arms a request with three stores; the sampling task counts DATA_SET     *)
(* conversions, claims the request with a compare-exchange and moves the   *)
(* zero; a blocking tare() that waited too long takes the request back     *)
(* with an exchange.  The callers: tare() and auto-tune on core 1, a grind *)
(* on core 0 below the sampling task, which may be stopped and leave its   *)
(* request armed.  Time is not counted: a wait may time out at any moment. *)
(***************************************************************************)
EXTENDS Integers

CONSTANTS
    DATA_SET,  \* conversions counted before the zero moves
    Loads      \* what may lie on the scale

ASSUME TareAssumption == DATA_SET \in Nat \ {0} /\ Loads # {}

None == "none"
ASSUME NoneAssumption == None \notin Loads

VARIABLES
    \* WeightSensor
    doTare, tareTimes, tareStatus, tare_offset,
    \* the sampling task: where its pass is, and the tareTimes it has read
    spc, seen,
    alive,     \* conversions arrive
    pan,       \* what lies on the scale
    \* the UI task: where it is in a tare, for whom, and how the last one went
    upc, caller, outcome,
    \* the grind control task, and whether a grind is going on
    gpc, grinding,
    \* history: the UI's request began with none outstanding; conversions since
    \* it was armed; the zero has moved since it, and since the grind's request;
    \* the zero when a blocking tare gave up, until somebody arms again
    clean, fresh, uiZeroed, grindZeroed, gaveUp

sensor == <<doTare, tareTimes, tareStatus, tare_offset>>
sampler == <<spc, seen>>
ui == <<upc, caller, outcome>>
grind == <<gpc, grinding>>
history == <<clean, fresh, uiZeroed, grindZeroed, gaveUp>>
vars == <<sensor, sampler, alive, pan, ui, grind, history>>

Arming == {"times", "status", "go"}

Init ==
    /\ doTare = FALSE /\ tareTimes = 0 /\ tareStatus = FALSE
    /\ pan \in Loads /\ tare_offset = pan
    /\ spc = "between" /\ seen = 0 /\ alive = TRUE
    /\ upc = "idle" /\ caller = None /\ outcome = None
    /\ gpc = "idle" /\ grinding = FALSE
    /\ clean = TRUE /\ fresh = 0 /\ uiZeroed = FALSE /\ grindZeroed = FALSE
    /\ gaveUp = None

-----------------------------------------------------------------------------
(* The sampling task: one pass of sample_and_feed_filter().                *)

Sample ==
    /\ spc = "between" /\ alive
    /\ spc' = "added"
    /\ fresh' = IF fresh > DATA_SET THEN fresh ELSE fresh + 1
    /\ UNCHANGED <<sensor, seen, alive, pan, ui, grind, clean, uiZeroed, grindZeroed, gaveUp>>

LoadRequest ==
    /\ spc = "added"
    /\ spc' = IF doTare THEN "check" ELSE "between"
    /\ UNCHANGED <<sensor, seen, alive, pan, ui, grind, history>>

CheckTimes ==
    /\ spc = "check"
    /\ seen' = tareTimes
    /\ spc' = IF tareTimes < DATA_SET THEN "count" ELSE "claim"
    /\ UNCHANGED <<sensor, alive, pan, ui, grind, history>>

(* tareTimes++ is a load and a store: a reset in between is lost.          *)
CountSample ==
    /\ spc = "count"
    /\ tareTimes' = seen + 1
    /\ spc' = "between"
    /\ UNCHANGED <<doTare, tareStatus, tare_offset, seen, alive, pan, ui, grind, history>>

(* A plausible bug: the request cleared by a store, whoever took it back.  *)
ClaimByStore ==
    /\ spc = "claim"
    /\ doTare' = FALSE /\ spc' = "offset"
    /\ UNCHANGED <<tareTimes, tareStatus, tare_offset, seen, alive, pan, ui, grind, history>>

Claim ==
    /\ spc = "claim"
    /\ doTare' = FALSE
    /\ IF doTare
       THEN spc' = "offset" /\ UNCHANGED tareTimes
       ELSE spc' = "between" /\ tareTimes' = 0
    /\ UNCHANGED <<tareStatus, tare_offset, seen, alive, pan, ui, grind, history>>

ApplyOffset ==
    /\ spc = "offset"
    /\ tare_offset' = pan
    /\ tareTimes' = 0
    /\ spc' = "status"
    /\ uiZeroed' = TRUE /\ grindZeroed' = TRUE
    /\ UNCHANGED <<doTare, tareStatus, seen, alive, pan, ui, grind, clean, fresh, gaveUp>>

(* A plausible bug: the status never set.                                  *)
ReportUnset ==
    /\ spc = "status"
    /\ spc' = "between"
    /\ UNCHANGED <<sensor, seen, alive, pan, ui, grind, history>>

ReportTared ==
    /\ spc = "status"
    /\ tareStatus' = TRUE
    /\ spc' = "between"
    /\ UNCHANGED <<doTare, tareTimes, tare_offset, seen, alive, pan, ui, grind, history>>

SamplerPass == LoadRequest \/ CheckTimes \/ CountSample \/ Claim \/ ApplyOffset \/ ReportTared

(* A fault, a rejected frame or a suspension stops the conversions, and    *)
(* they may come back.                                                     *)
ScaleStalls ==
    /\ spc = "between" /\ alive' = ~alive
    /\ UNCHANGED <<sensor, sampler, pan, ui, grind, history>>

PanChanges ==
    /\ spc = "between" /\ pan' \in Loads \ {pan}
    /\ UNCHANGED <<sensor, sampler, alive, ui, grind, history>>

-----------------------------------------------------------------------------
(* tareNoDelay(): its three stores, each followed by the next.             *)

(* A plausible bug: the old status left for the next caller to find.       *)
ArmStoreKeepsStatus(at, next) ==
    \/ /\ at = "times" /\ next = "status"
       /\ tareTimes' = 0 /\ UNCHANGED <<doTare, tareStatus>>
    \/ /\ at = "status" /\ next = "go"
       /\ UNCHANGED <<doTare, tareTimes, tareStatus>>
    \/ /\ at = "go" /\ next = "armed"
       /\ doTare' = TRUE /\ UNCHANGED <<tareTimes, tareStatus>>

(* A plausible bug: the count left where a request taken back had got to.  *)
ArmStoreKeepsTimes(at, next) ==
    \/ /\ at = "times" /\ next = "status"
       /\ UNCHANGED <<doTare, tareTimes, tareStatus>>
    \/ /\ at = "status" /\ next = "go"
       /\ tareStatus' = FALSE /\ UNCHANGED <<doTare, tareTimes>>
    \/ /\ at = "go" /\ next = "armed"
       /\ doTare' = TRUE /\ UNCHANGED <<tareTimes, tareStatus>>

ArmStore(at, next) ==
    \/ /\ at = "times" /\ next = "status"
       /\ tareTimes' = 0 /\ UNCHANGED <<doTare, tareStatus>>
    \/ /\ at = "status" /\ next = "go"
       /\ tareStatus' = FALSE /\ UNCHANGED <<doTare, tareTimes>>
    \/ /\ at = "go" /\ next = "armed"
       /\ doTare' = TRUE /\ UNCHANGED <<tareTimes, tareStatus>>

-----------------------------------------------------------------------------
(* The UI task on core 1, one caller at a time: a blocking tare() behind   *)
(* its overlay, or auto-tune.  No grind is on when either begins.          *)

UiBegins(who) ==
    /\ upc = "idle" /\ ~grinding
    /\ upc' = "times" /\ caller' = who /\ outcome' = None
    /\ clean' = (~doTare /\ spc = "between" /\ gpc = "idle")
    /\ uiZeroed' = FALSE
    /\ UNCHANGED <<sensor, sampler, alive, pan, grind, fresh, grindZeroed, gaveUp>>

UiArms ==
    /\ upc \in Arming
    /\ upc' \in {"status", "go", "armed"} /\ ArmStore(upc, upc')
    /\ IF upc' = "armed"
       THEN fresh' = 0 /\ gaveUp' = None
       ELSE UNCHANGED <<fresh, gaveUp>>
    /\ UNCHANGED <<tare_offset, sampler, alive, pan, caller, outcome, grind,
                   clean, uiZeroed, grindZeroed>>

(* A round of the loop of tare(), 20 ms: a pass of the sampling task that   *)
(* was under way before it is over.                                        *)
WaitRound ==
    /\ upc = "armed" /\ caller = "tare"
    /\ doTare /\ spc = "between"
    /\ upc' = "waiting"
    /\ UNCHANGED <<sensor, sampler, alive, pan, caller, outcome, grind, history>>

(* The loop ends: the request is gone, or the time is up.                  *)
StopWaiting ==
    /\ caller = "tare"
    /\ \/ upc = "armed" /\ ~doTare
       \/ upc = "waiting"
    /\ upc' = "exchange"
    /\ UNCHANGED <<sensor, sampler, alive, pan, caller, outcome, grind, history>>

(* doTare.exchange(false): still armed means nobody claimed it.            *)
Disarm ==
    /\ upc = "exchange"
    /\ doTare' = FALSE
    /\ upc' = "idle" /\ caller' = None
    /\ outcome' = IF doTare THEN "failed" ELSE "tared"
    /\ gaveUp' = IF doTare THEN tare_offset ELSE gaveUp
    /\ UNCHANGED <<tareTimes, tareStatus, tare_offset, sampler, alive, pan, grind,
                   clean, fresh, uiZeroed, grindZeroed>>

(* AutoTuneController::update_tare().                                      *)
PollStatus ==
    /\ upc = "armed" /\ caller = "tune"
    /\ tareStatus' = FALSE
    /\ tareStatus
    /\ upc' = "idle" /\ caller' = None /\ outcome' = "tuned"
    /\ UNCHANGED <<doTare, tareTimes, tare_offset, sampler, alive, pan, grind, history>>

TuneCancelled ==
    /\ upc = "armed" /\ caller = "tune"
    /\ upc' = "idle" /\ caller' = None /\ outcome' = "cancelled"
    /\ UNCHANGED <<sensor, sampler, alive, pan, grind, history>>

-----------------------------------------------------------------------------
(* The grind control task, below the sampling task on core 0: it runs only *)
(* between two passes of it.                                               *)

GrindBegins ==
    /\ ~grinding /\ gpc = "idle" /\ upc = "idle"
    /\ grinding' = TRUE /\ gpc' = "times"
    /\ outcome' = None
    /\ UNCHANGED <<sensor, sampler, alive, pan, upc, caller, history>>

GrindArms ==
    /\ gpc \in Arming /\ spc = "between"
    /\ gpc' \in {"status", "go", "armed"} /\ ArmStore(gpc, gpc')
    /\ IF gpc' = "armed"
       THEN grindZeroed' = FALSE /\ gaveUp' = None
       ELSE UNCHANGED <<grindZeroed, gaveUp>>
    /\ UNCHANGED <<tare_offset, sampler, alive, pan, ui, grinding, clean, fresh, uiZeroed>>

(* A plausible bug: TARE_CONFIRM asks for the status, which an abandoned    *)
(* request may set in the middle of tareNoDelay().                         *)
GrindConfirmsByStatus ==
    /\ gpc = "armed" /\ spc = "between" /\ grinding
    /\ tareStatus
    /\ gpc' = "motor"
    /\ UNCHANGED <<sensor, sampler, alive, pan, ui, grinding, history>>

(* TARE_CONFIRM; whether the scale has settled is a choice of the pass.    *)
GrindConfirms ==
    /\ gpc = "armed" /\ spc = "between" /\ grinding
    /\ ~doTare
    /\ gpc' = "motor"
    /\ UNCHANGED <<sensor, sampler, alive, pan, ui, grinding, history>>

(* STOP, a timeout or the end of the grind: nothing takes the request back. *)
GrindStops ==
    /\ grinding
    /\ grinding' = FALSE
    /\ UNCHANGED <<sensor, sampler, alive, pan, ui, gpc, history>>

ControlNotices ==
    /\ gpc \in {"armed", "motor"} /\ spc = "between" /\ ~grinding
    /\ gpc' = "idle"
    /\ UNCHANGED <<sensor, sampler, alive, pan, ui, grinding, history>>

UiStep == UiArms \/ WaitRound \/ StopWaiting \/ Disarm \/ PollStatus

Next ==
    \/ Sample \/ SamplerPass \/ ScaleStalls \/ PanChanges
    \/ \E who \in {"tare", "tune"} : UiBegins(who)
    \/ UiStep \/ TuneCancelled
    \/ GrindBegins \/ GrindArms \/ GrindConfirms \/ GrindStops \/ ControlNotices

(* The tasks run, whatever a pass of the sampling task does meanwhile; whether *)
(* conversions arrive, and what the user does, is open.                    *)
Spec ==
    /\ Init /\ [][Next]_vars
    /\ WF_vars(Sample) /\ WF_vars(SamplerPass)
    /\ SF_vars(UiStep) /\ SF_vars(GrindArms)

-----------------------------------------------------------------------------
Flags ==
    /\ doTare \in BOOLEAN /\ tareStatus \in BOOLEAN /\ alive \in BOOLEAN
    /\ grinding \in BOOLEAN /\ clean \in BOOLEAN
    /\ uiZeroed \in BOOLEAN /\ grindZeroed \in BOOLEAN

TypeOK ==
    /\ Flags
    /\ tareTimes \in 0 .. DATA_SET /\ tare_offset \in Loads
    /\ spc \in {"between", "added", "check", "count", "claim", "offset", "status"}
    /\ seen \in 0 .. DATA_SET
    /\ spc = "count" => seen < DATA_SET
    /\ pan \in Loads
    /\ upc \in Arming \cup {"idle", "armed", "waiting", "exchange"}
    /\ caller \in {None, "tare", "tune"}
    /\ outcome \in {None, "failed", "tared", "tuned", "cancelled"}
    /\ gpc \in Arming \cup {"idle", "armed", "motor"}
    /\ fresh \in 0 .. DATA_SET + 1
    /\ gaveUp \in Loads \cup {None}

(* Once tare() has reported a timeout, and until somebody asks again, the  *)
(* zero stays where it was: the exchange of the caller and the             *)
(* compare-exchange of the sampling task decide the request between them.  *)
TimedOutStaysPut == gaveUp # None => tare_offset = gaveUp

(* A zero that a UI request asked for, with none outstanding, rests on     *)
(* DATA_SET conversions made after the request, whatever an earlier        *)
(* request that timed out had counted.                                     *)
FreshZero == clean /\ outcome \in {"tared", "tuned"} => fresh >= DATA_SET

(* Auto-tune measures with a zero moved for its own request, not with the  *)
(* status an earlier tare left, and no tare is under way behind it.        *)
TuneOnItsOwnZero ==
    clean /\ outcome = "tuned" => uiZeroed /\ ~doTare

(* The motor of a grind starts on a zero moved after its own request, also *)
(* when the request of an abandoned grind is served in the middle of it.   *)
GrindOnItsOwnZero == gpc = "motor" => grindZeroed

(* On a scale that goes on converting, auto-tune gets its tare or its      *)
(* cancel: there is no timeout to fall back on.                            *)
TuneTareServed == <>[]alive => (caller = "tune" ~> caller # "tune")

-----------------------------------------------------------------------------
(* The invariant behind the safety properties, inductive.                  *)

Asked == upc \in {"armed", "waiting", "exchange"}

\* who may be where: one caller at a time, and none during a grind
CallersInv ==
    /\ grinding => upc = "idle"
    /\ outcome # None => upc = "idle"
    /\ clean /\ upc # "idle" => gpc = "idle"
    /\ upc \in {"waiting", "exchange"} => caller = "tare"

\* a request that was claimed is not up for the caller to take back
ClaimInv ==
    /\ upc \in {"waiting", "exchange"} /\ doTare => spc # "offset"
    /\ gaveUp # None => tare_offset = gaveUp /\ ~doTare /\ spc # "offset"
    /\ gpc = "armed" /\ grinding /\ ~doTare /\ ~grindZeroed => spc = "offset"
    /\ gpc = "motor" => grindZeroed

\* a request made with none outstanding, step by step
CleanInv ==
    clean =>
        /\ upc \in Arming => ~doTare /\ spc \in {"between", "added"}
        /\ upc \in {"status", "go"} => tareTimes = 0
        /\ upc = "go" => ~tareStatus
        /\ upc \in Arming => ~uiZeroed
        /\ Asked /\ doTare =>
              /\ ~tareStatus /\ spc \in {"between", "added", "check", "count", "claim"}
              \* the conversion before the request may be the first one counted
              /\ fresh + 1 >= tareTimes
              /\ spc # "between" => fresh >= tareTimes
              /\ spc = "count" => seen = tareTimes
              /\ spc = "claim" => fresh >= DATA_SET
        /\ Asked /\ ~doTare =>
              /\ fresh >= DATA_SET /\ spc \in {"between", "added", "offset", "status"}
              /\ spc # "offset" => uiZeroed
              /\ tareStatus => spc # "offset"
        /\ outcome = "tuned" => uiZeroed /\ ~doTare /\ gpc = "idle"

TareInv ==
    TypeOK /\ CallersInv /\ ClaimInv /\ CleanInv /\ TimedOutStaysPut /\ FreshZero
=============================================================================
