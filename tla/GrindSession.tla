---------------------------- MODULE GrindSession ----------------------------
(***************************************************************************)
(* What a grind promises to the person at the machine, with no tasks, no   *)
(* queues and no passes: the stage of the session and whether the motor    *)
(* turns, changing together.  GrindController implements it when a handler *)
(* of one core is not cut by the other (see its Session instance).         *)
(***************************************************************************)

VARIABLES
    stage,    \* "idle", "prepare", "grind", "confirm", "completed", "failed", "topup"
    turning   \* is the motor driven?

vars == <<stage, turning>>

Active == {"prepare", "grind", "confirm", "completed", "failed", "topup"}

Init == stage = "idle" /\ turning = FALSE

\* START: the scale is prepared with the motor off.
Start == /\ stage = "idle"
         /\ stage' = "prepare" /\ turning' = FALSE

\* Grinding starts; a driver that refuses leaves the motor off.
Grind == /\ stage = "prepare"
         /\ stage' = "grind" /\ turning' \in BOOLEAN

\* Within a grind the motor is switched as the scale demands.
Dose == /\ stage = "grind"
        /\ stage' = "grind" /\ turning' \in BOOLEAN

\* Stale grounds: the motor waits for the user's CONTINUE.
AskPurge == /\ stage = "grind"
            /\ stage' = "confirm" /\ turning' = FALSE
Continue == /\ stage = "confirm"
            /\ stage' = "grind" /\ turning' \in BOOLEAN

\* A grind completes only with the motor already off.
Complete == /\ stage \in {"grind", "topup"}
            /\ ~turning
            /\ stage' = "completed" /\ turning' = FALSE

\* A failsafe, the time limit or a refused pulse.
Fail == /\ stage \in Active \ {"completed", "failed"}
        /\ stage' = "failed" /\ turning' = FALSE

\* A top-up pulse on the completed screen; it ends by itself.
TopUp    == stage = "completed" /\ stage' = "topup" /\ turning' = TRUE
TopUpEnd == stage = "topup" /\ stage' = "topup" /\ turning' = FALSE

\* STOP, or the acknowledgement of a finished grind.
Leave == /\ stage \in Active
         /\ stage' = "idle" /\ turning' = FALSE

Next == \/ Start \/ Grind \/ Dose \/ AskPurge \/ Continue
        \/ Complete \/ Fail \/ TopUp \/ TopUpEnd \/ Leave

Spec == Init /\ [][Next]_vars
=============================================================================
