--------------------------- MODULE CloudSyncProofs ---------------------------
(***************************************************************************)
(* What the device may believe about the server, when it may call, and how *)
(* it yields to a grind, for delays, caps and stores of any size.          *)
(***************************************************************************)
EXTENDS CloudSync, FiniteSetTheorems, WellFoundedInduction, TLAPS

LEMMA SessionsFinite ==
  /\ IsFiniteSet(Sessions) /\ Cardinality(Sessions) \in Nat
  /\ \A S \in SUBSET Sessions :
        IsFiniteSet(S) /\ Cardinality(S) \in 0 .. Cardinality(Sessions)
<1>1. IsFiniteSet(Sessions)
  BY CloudAssumption, FS_Interval DEF Sessions
<1>2. Cardinality(Sessions) \in Nat
  BY <1>1, FS_CardinalityType
<1>3. ASSUME NEW S \in SUBSET Sessions
      PROVE  IsFiniteSet(S) /\ Cardinality(S) \in 0 .. Cardinality(Sessions)
  <2>1. IsFiniteSet(S) /\ Cardinality(S) <= Cardinality(Sessions)
    BY <1>1, <1>3, FS_Subset
  <2> QED BY <2>1, <1>2, FS_CardinalityType
<1> QED BY <1>1, <1>2, <1>3

(* A set of sessions that is not empty has an oldest.                       *)
LEMMA HasOldest ==
  ASSUME NEW S \in SUBSET Sessions, S # {}
  PROVE  OldestOf(S) \in S /\ OldestOf(S) \in Sessions
<1> DEFINE R == {ss \in Nat \X Nat : ss[1] < ss[2]}
<1>1. S \subseteq Nat
  BY CloudAssumption DEF Sessions
<1>2. IsWellFoundedOn(R, Nat)
  <2>1. IsWellFoundedOn(OpToRel(<, Nat), Nat)
    BY NatLessThanWellFounded
  <2>2. R = OpToRel(<, Nat)
    BY DEF OpToRel
  <2> QED BY <2>1, <2>2
<1>3. PICK x \in S : \A y \in S : ~ (<<y, x>> \in R)
  <2> HIDE DEF R
  <2> QED BY <1>1, <1>2, WFMin
<1>4. ASSUME NEW y \in S PROVE x <= y
  <2>1. <<y, x>> \in Nat \X Nat /\ <<y, x>>[1] = y /\ <<y, x>>[2] = x
    BY <1>1
  <2>2. ~ (<<y, x>>[1] < <<y, x>>[2])
    BY <1>3, <2>1
  <2> QED BY <1>1, <2>1, <2>2
<1> QED BY <1>3, <1>4 DEF OldestOf

(* A run, its answers and the requests of a grind.                         *)
LEMMA RunStep ==
  ASSUME TypeOK, RunInv, [Next]_vars PROVE RunInv'
<1>t. /\ uploaded \in Nat /\ wanted \in Nat /\ want \subseteq Sessions
      /\ (phase # "none" <=> state = "UPLOADING") /\ (in_flight => phase # "none")
      /\ Cardinality(want) \in Nat
      /\ overlapped \in 0 .. 2
  BY CloudAssumption, SessionsFinite DEF TypeOK
<1> USE <1>t DEF RunInv, SmallerOf, device, radio, tracking, run, PassFrame, RunFrame, Continues, Track, RunForgotten, RequestEnds, StepAllowed, PassesOn, RequestBegins, WantRead, UploadEnds, BrewEnds, StepAllowed, PassesOn, RequestBegins, WantRead, UploadEnds, BrewEnds
<1>1. CASE GrindStarts
  BY <1>1 DEF GrindStarts
<1>2. CASE GrindCancelled
  BY <1>2 DEF GrindCancelled
<1>3. CASE GrindSaved
  BY <1>3 DEF GrindSaved
<1>4. CASE GrindNotSaved
  BY <1>4 DEF GrindNotSaved
<1>5. CASE ShotLogged
  BY <1>5 DEF ShotLogged
<1>6. CASE Tick
  BY <1>6 DEF Tick
<1>7. CASE IdlePass
  BY <1>7 DEF IdlePass
<1>8. CASE OpenWindow
  BY <1>8 DEF OpenWindow
<1>9. CASE RadioRefused
  BY <1>9 DEF RadioRefused
<1>10. CASE WindowAborted
  BY <1>10 DEF WindowAborted, FinishAttempt, ScheduleAfter
<1>11. CASE Connected
  BY <1>11 DEF Connected, BeginUploadOrFinish, FinishAttempt, ScheduleAfter
<1>12. CASE ConnectTimeout
  BY <1>12 DEF ConnectTimeout, FinishAttempt, ScheduleAfter
<1>13. CASE ClockSynced
  BY <1>13 DEF ClockSynced, BeginUploadOrFinish, FinishAttempt, ScheduleAfter
<1>14. CASE SntpTimeout
  BY <1>14 DEF SntpTimeout, BeginUploadOrFinish, FinishAttempt, ScheduleAfter
<1>15. CASE RunAborted
  BY <1>15 DEF RunAborted, EndRun, ScheduleAfter
<1>16. CASE Request
  <2>1. CASE ManifestBegins
    BY <2>1 DEF ManifestBegins
  <2>2. CASE UploadBegins
    BY <2>2, CloudAssumption DEF UploadBegins, UploadsOver
  <2>3. CASE BrewBegins
    BY <2>3 DEF BrewBegins
  <2>4. CASE LastBegins
    BY <2>4 DEF LastBegins
  <2> QED BY <1>16, <2>1, <2>2, <2>3, <2>4 DEF Request
<1>17. CASE RequestFailed
  BY <1>17 DEF RequestFailed, EndRun, ScheduleAfter
<1>18. CASE ManifestAnswered
  <2>1. want' \in SUBSET Sessions /\ wanted' = Cardinality(want')
    BY <1>18 DEF ManifestAnswered, TypeOK
  <2>2. Cardinality(want') \in Nat
    BY <2>1, SessionsFinite
  <2>3. run_current => flash \ (server \cup waived) \subseteq want'
    BY <1>18 DEF ManifestAnswered
  <2> QED BY <1>18, <2>1, <2>2, <2>3 DEF ManifestAnswered
<1>19. CASE ManifestCut
  <2>1. want' \in SUBSET Sessions /\ wanted' = Cardinality(want')
    BY <1>19 DEF ManifestCut, TypeOK
  <2>2. Cardinality(want') \in Nat
    BY <2>1, SessionsFinite
  <2>3. run_current => flash \ (server \cup waived') \subseteq want'
    BY <1>19 DEF ManifestCut
  <2> QED BY <1>19, <2>1, <2>2, <2>3 DEF ManifestCut
<1>20. CASE FilePurged
  <2>1. NextWanted \in want /\ want' = want \ {NextWanted}
    BY <1>20, HasOldest DEF FilePurged, NextWanted, UploadsOver
  <2>2. Cardinality(want') = Cardinality(want) - 1
    BY <2>1, SessionsFinite, FS_RemoveElement
  <2>3. uploaded' + Cardinality(want') < wanted'
    BY <1>20, <2>2 DEF FilePurged
  <2> QED BY <1>20, <2>2, <2>3 DEF FilePurged
<1>21. CASE FileUnreadable
  <2>1. NextWanted \in want /\ want' = want \ {NextWanted}
    BY <1>21, HasOldest DEF FileUnreadable, NextWanted, UploadsOver
  <2>2. Cardinality(want') = Cardinality(want) - 1
    BY <2>1, SessionsFinite, FS_RemoveElement
  <2>3. uploaded' + Cardinality(want') < wanted'
    BY <1>21, <2>2 DEF FileUnreadable
  <2> QED BY <1>21, <2>2, <2>3 DEF FileUnreadable
<1>22. CASE SessionUploaded
  <2>1. NextWanted \in want /\ want' = want \ {NextWanted}
    BY <1>22, HasOldest DEF SessionUploaded, NextWanted, UploadsOver
  <2>2. Cardinality(want') = Cardinality(want) - 1
    BY <2>1, SessionsFinite, FS_RemoveElement
  <2>3. uploaded' + Cardinality(want') = uploaded + Cardinality(want) /\ wanted' = wanted
    BY <1>22, <2>2 DEF SessionUploaded
  <2>4. run_current' /\ uploaded' + Cardinality(want') = wanted'
          => flash' \ (server' \cup waived') \subseteq want'
    BY <1>22, <2>1, <2>3 DEF SessionUploaded
  <2> QED BY <1>22, <2>3, <2>4 DEF SessionUploaded
<1>23. CASE SessionRefused
  <2>1. NextWanted \in want /\ want' = want \ {NextWanted}
    BY <1>23, HasOldest DEF SessionRefused, NextWanted, UploadsOver
  <2>2. Cardinality(want') = Cardinality(want) - 1
    BY <2>1, SessionsFinite, FS_RemoveElement
  <2>3. uploaded' + Cardinality(want') = uploaded + Cardinality(want) /\ wanted' = wanted
    BY <1>23, <2>2 DEF SessionRefused
  <2>4. run_current' /\ uploaded' + Cardinality(want') = wanted'
          => flash' \ (server' \cup waived') \subseteq want'
    BY <1>23, <2>1, <2>3 DEF SessionRefused
  <2> QED BY <1>23, <2>3, <2>4 DEF SessionRefused
<1>24. CASE PhaseOver
  <2>1. Cardinality(want) = 0 <=> want = {}
    BY SessionsFinite, FS_EmptySet
  <2>2. want' = {} /\ Cardinality(want') = 0 /\ uploaded' = 0
    BY <1>24, FS_EmptySet DEF PhaseOver
  <2>3. wanted' = (IF wanted - uploaded < 1 THEN wanted - uploaded ELSE 1)
        \/ wanted' = (IF wanted - uploaded <= 1 THEN wanted - uploaded ELSE 1)
    BY <1>24 DEF PhaseOver
  <2>4. wanted' >= 0 /\ (wanted' = 0 => uploaded + Cardinality(want) = wanted /\ want = {})
    BY <1>24, <2>1, <2>3 DEF PhaseOver
  <2> QED BY <1>24, <2>2, <2>4 DEF PhaseOver
<1>25. CASE BrewAnswered
  BY <1>25 DEF BrewAnswered
<1>26. CASE BrewFailed
  BY <1>26 DEF BrewFailed
<1>27. CASE ConfigFetched
  BY <1>27 DEF ConfigFetched
<1>28. CASE RunDone
  BY <1>28 DEF RunDone, EndRun, ScheduleAfter
<1>29. CASE UNCHANGED vars
  BY <1>29 DEF vars
<1> QED
  BY <1>1, <1>2, <1>3, <1>4, <1>5, <1>6, <1>7, <1>8, <1>9, <1>10, <1>11, <1>12,
     <1>13, <1>14, <1>15, <1>16, <1>17, <1>18, <1>19, <1>20, <1>21, <1>22, <1>23, <1>24,
     <1>25, <1>26, <1>27, <1>28, <1>29 DEF Next

(* The wait since the last activity.                                       *)
LEMMA DelayStep ==
  ASSUME TypeOK, DelayInv, [Next]_vars PROVE DelayInv'
<1>t. /\ age \in Nat /\ quiet \in Nat /\ QUIET \in Nat /\ brews_seen \in Nat
      /\ age <= QUIET /\ quiet <= QUIET
      /\ brews \subseteq Sessions /\ session_id \in Sessions /\ prompt \subseteq Sessions
      /\ \A s \in Sessions : s \in Nat
      /\ (phase # "none" <=> state = "UPLOADING") /\ (in_flight => phase # "none")
      /\ IsFiniteSet(brews) /\ Cardinality(brews) \in Nat
      /\ time_result \in {"SUCCESS", "SNTP_FAILED"}
      /\ state \in {"IDLE", "CONNECTING", "SYNCING", "UPLOADING"}
  BY CloudAssumption, SessionsFinite DEF TypeOK, Sessions
<1>e. Cardinality(brews) = 0 <=> brews = {}
  BY <1>t, FS_EmptySet
<1> USE <1>t, <1>e DEF DelayInv, SmallerOf, Activity, device, radio, tracking, run, PassFrame, RunFrame, Continues, Track, RunForgotten, RequestEnds, StepAllowed, PassesOn, RequestBegins, WantRead, UploadEnds, BrewEnds, StepAllowed, PassesOn, RequestBegins, WantRead, UploadEnds, BrewEnds
<1>1. CASE GrindStarts
  BY <1>1 DEF GrindStarts
<1>2. CASE GrindCancelled
  BY <1>2 DEF GrindCancelled
<1>3. CASE GrindSaved
  BY <1>3 DEF GrindSaved
<1>4. CASE GrindNotSaved
  BY <1>4 DEF GrindNotSaved
<1>5. CASE ShotLogged
  <2>1. brews' = brews \cup {session_id} /\ session_id \notin brews
    BY <1>5 DEF ShotLogged
  <2>2. Cardinality(brews') = Cardinality(brews) + 1
    BY <2>1, FS_AddElement
  <2> QED BY <1>5, <2>1, <2>2 DEF ShotLogged
<1>6. CASE Tick
  <2>1. /\ age' = (IF phase = "none" THEN SmallerOf(age + 1, QUIET) ELSE 0)
        /\ quiet' = SmallerOf(quiet + 1, QUIET)
        /\ UNCHANGED <<device, state, version_seen, brews_seen>>
        /\ (state = "IDLE" => version_seen /\ brews_seen = Cardinality(brews))
    BY <1>6 DEF Tick
  <2>2. phase = "none" /\ age <= quiet => age' <= quiet'
    BY <2>1
  <2>3. CASE state = "IDLE"
    <3>1. phase = "none" /\ age <= quiet
      BY <2>1, <2>3
    <3> QED BY <2>1, <2>2, <2>3, <3>1
  <2>4. CASE state # "IDLE"
    BY <2>1, <2>2, <2>4
  <2> QED BY <2>3, <2>4
<1>7. CASE IdlePass
  BY <1>7 DEF IdlePass
<1>8. CASE OpenWindow
  BY <1>8 DEF OpenWindow
<1>9. CASE RadioRefused
  BY <1>9 DEF RadioRefused
<1>10. CASE WindowAborted
  BY <1>10 DEF WindowAborted, FinishAttempt, ScheduleAfter
<1>11. CASE Connected
  BY <1>11 DEF Connected, BeginUploadOrFinish, FinishAttempt, ScheduleAfter
<1>12. CASE ConnectTimeout
  BY <1>12 DEF ConnectTimeout, FinishAttempt, ScheduleAfter
<1>13. CASE ClockSynced
  BY <1>13 DEF ClockSynced, BeginUploadOrFinish, FinishAttempt, ScheduleAfter
<1>14. CASE SntpTimeout
  BY <1>14 DEF SntpTimeout, BeginUploadOrFinish, FinishAttempt, ScheduleAfter
<1>15. CASE RunAborted
  BY <1>15 DEF RunAborted, EndRun, ScheduleAfter
<1>16. CASE Request
  BY <1>16 DEF Request, ManifestBegins, UploadBegins, BrewBegins, LastBegins
<1>17. CASE RequestFailed
  BY <1>17 DEF RequestFailed, EndRun, ScheduleAfter
<1>18. CASE ManifestAnswered
  BY <1>18 DEF ManifestAnswered
<1>19. CASE ManifestCut
  BY <1>19 DEF ManifestCut
<1>20. CASE FilePurged
  BY <1>20 DEF FilePurged
<1>21. CASE FileUnreadable
  BY <1>21 DEF FileUnreadable
<1>22. CASE SessionUploaded
  BY <1>22 DEF SessionUploaded
<1>23. CASE SessionRefused
  BY <1>23 DEF SessionRefused
<1>24. CASE PhaseOver
  BY <1>24 DEF PhaseOver
<1>25. CASE BrewAnswered
  BY <1>25 DEF BrewAnswered
<1>26. CASE BrewFailed
  BY <1>26 DEF BrewFailed
<1>27. CASE ConfigFetched
  BY <1>27 DEF ConfigFetched
<1>28. CASE RunDone
  BY <1>28 DEF RunDone, EndRun, ScheduleAfter
<1>29. CASE UNCHANGED vars
  BY <1>29 DEF vars
<1> QED
  BY <1>1, <1>2, <1>3, <1>4, <1>5, <1>6, <1>7, <1>8, <1>9, <1>10, <1>11, <1>12,
     <1>13, <1>14, <1>15, <1>16, <1>17, <1>18, <1>19, <1>20, <1>21, <1>22, <1>23, <1>24,
     <1>25, <1>26, <1>27, <1>28, <1>29 DEF Next

(* What the device believes to have sent.                                  *)
LEMMA SyncedStep ==
  ASSUME TypeOK, RunInv, SyncedMeansStored, [Next]_vars PROVE SyncedMeansStored'
<1> USE DEF SyncedMeansStored, device, radio, tracking, run, PassFrame, RunFrame, Continues, Track, RunForgotten, RequestEnds, StepAllowed, PassesOn, RequestBegins, WantRead, UploadEnds, BrewEnds, StepAllowed, PassesOn, RequestBegins, WantRead, UploadEnds, BrewEnds
<1>1. CASE GrindStarts
  BY <1>1 DEF GrindStarts
<1>2. CASE GrindCancelled
  BY <1>2 DEF GrindCancelled
<1>3. CASE GrindSaved
  BY <1>3 DEF GrindSaved
<1>4. CASE GrindNotSaved
  BY <1>4 DEF GrindNotSaved
<1>5. CASE ShotLogged
  BY <1>5 DEF ShotLogged
<1>6. CASE Tick
  BY <1>6 DEF Tick
<1>7. CASE IdlePass
  BY <1>7 DEF IdlePass
<1>8. CASE OpenWindow
  BY <1>8 DEF OpenWindow
<1>9. CASE RadioRefused
  BY <1>9 DEF RadioRefused
<1>10. CASE WindowAborted
  BY <1>10 DEF WindowAborted, FinishAttempt, ScheduleAfter
<1>11. CASE Connected
  BY <1>11 DEF Connected, BeginUploadOrFinish, FinishAttempt, ScheduleAfter
<1>12. CASE ConnectTimeout
  BY <1>12 DEF ConnectTimeout, FinishAttempt, ScheduleAfter
<1>13. CASE ClockSynced
  BY <1>13 DEF ClockSynced, BeginUploadOrFinish, FinishAttempt, ScheduleAfter
<1>14. CASE SntpTimeout
  BY <1>14 DEF SntpTimeout, BeginUploadOrFinish, FinishAttempt, ScheduleAfter
<1>15. CASE RunAborted
  BY <1>15 DEF RunAborted, EndRun, ScheduleAfter
<1>16. CASE Request
  BY <1>16 DEF Request, ManifestBegins, UploadBegins, BrewBegins, LastBegins
<1>17. CASE RequestFailed
  BY <1>17 DEF RequestFailed, EndRun, ScheduleAfter
<1>18. CASE ManifestAnswered
  BY <1>18 DEF ManifestAnswered
<1>19. CASE ManifestCut
  BY <1>19 DEF ManifestCut
<1>20. CASE FilePurged
  BY <1>20 DEF FilePurged
<1>21. CASE FileUnreadable
  BY <1>21 DEF FileUnreadable
<1>22. CASE SessionUploaded
  BY <1>22 DEF SessionUploaded
<1>23. CASE SessionRefused
  BY <1>23 DEF SessionRefused
<1>24. CASE PhaseOver
  BY <1>24 DEF PhaseOver
<1>25. CASE BrewAnswered
  BY <1>25 DEF BrewAnswered
<1>26. CASE BrewFailed
  BY <1>26 DEF BrewFailed
<1>27. CASE ConfigFetched
  BY <1>27 DEF ConfigFetched
<1>28. CASE RunDone
  <2>1. UNCHANGED <<flash, server, backlog, waived>>
    BY <1>28 DEF RunDone
  <2>2. CASE uploaded >= wanted /\ run_current
    <3>1. want \in SUBSET Sessions /\ uploaded \in Nat /\ wanted \in Nat
      BY <2>2, CloudAssumption, SessionsFinite DEF TypeOK
    <3>2. Cardinality(want) = 0 /\ uploaded + Cardinality(want) = wanted
      BY <1>28, <2>2, <3>1, SessionsFinite DEF RunDone, RunInv
    <3>3. want = {}
      BY <3>1, <3>2, SessionsFinite, FS_EmptySet
    <3>4. flash \ (server \cup waived) \subseteq want
      BY <1>28, <2>2, <3>2 DEF RunDone, RunInv
    <3> QED BY <2>1, <3>3, <3>4
  <2>3. CASE ~(uploaded >= wanted /\ run_current)
    <3>1. version_synced' => version_synced
      BY <1>28, <2>3 DEF RunDone, EndRun
    <3> QED BY <2>1, <3>1
  <2> QED BY <2>2, <2>3
<1>29. CASE UNCHANGED vars
  BY <1>29 DEF vars
<1> QED
  BY <1>1, <1>2, <1>3, <1>4, <1>5, <1>6, <1>7, <1>8, <1>9, <1>10, <1>11, <1>12,
     <1>13, <1>14, <1>15, <1>16, <1>17, <1>18, <1>19, <1>20, <1>21, <1>22, <1>23, <1>24,
     <1>25, <1>26, <1>27, <1>28, <1>29 DEF Next

LEMMA FlagsStep ==
  ASSUME Flags, [Next]_vars PROVE Flags'
<1> USE DEF Flags, device, radio, tracking, run, PassFrame, RunFrame, Continues, Track, RunForgotten, RequestEnds, StepAllowed, PassesOn, RequestBegins, WantRead, UploadEnds, BrewEnds, StepAllowed, PassesOn, RequestBegins, WantRead, UploadEnds, BrewEnds
<1>1. CASE GrindStarts
  BY <1>1 DEF GrindStarts
<1>2. CASE GrindCancelled
  BY <1>2 DEF GrindCancelled
<1>3. CASE GrindSaved
  BY <1>3 DEF GrindSaved
<1>4. CASE GrindNotSaved
  BY <1>4 DEF GrindNotSaved
<1>5. CASE ShotLogged
  BY <1>5 DEF ShotLogged
<1>6. CASE Tick
  BY <1>6 DEF Tick
<1>7. CASE IdlePass
  BY <1>7 DEF IdlePass
<1>8. CASE OpenWindow
  BY <1>8 DEF OpenWindow
<1>9. CASE RadioRefused
  BY <1>9 DEF RadioRefused
<1>10. CASE WindowAborted
  BY <1>10 DEF WindowAborted, FinishAttempt, ScheduleAfter
<1>11. CASE Connected
  BY <1>11 DEF Connected, BeginUploadOrFinish, FinishAttempt, ScheduleAfter
<1>12. CASE ConnectTimeout
  BY <1>12 DEF ConnectTimeout, FinishAttempt, ScheduleAfter
<1>13. CASE ClockSynced
  BY <1>13 DEF ClockSynced, BeginUploadOrFinish, FinishAttempt, ScheduleAfter
<1>14. CASE SntpTimeout
  BY <1>14 DEF SntpTimeout, BeginUploadOrFinish, FinishAttempt, ScheduleAfter
<1>15. CASE RunAborted
  BY <1>15 DEF RunAborted, EndRun, ScheduleAfter
<1>16. CASE Request
  BY <1>16 DEF Request, ManifestBegins, UploadBegins, BrewBegins, LastBegins
<1>17. CASE RequestFailed
  BY <1>17 DEF RequestFailed, EndRun, ScheduleAfter
<1>18. CASE ManifestAnswered
  BY <1>18 DEF ManifestAnswered
<1>19. CASE ManifestCut
  BY <1>19 DEF ManifestCut
<1>20. CASE FilePurged
  BY <1>20 DEF FilePurged
<1>21. CASE FileUnreadable
  BY <1>21 DEF FileUnreadable
<1>22. CASE SessionUploaded
  BY <1>22 DEF SessionUploaded
<1>23. CASE SessionRefused
  BY <1>23 DEF SessionRefused
<1>24. CASE PhaseOver
  BY <1>24 DEF PhaseOver
<1>25. CASE BrewAnswered
  BY <1>25 DEF BrewAnswered
<1>26. CASE BrewFailed
  BY <1>26 DEF BrewFailed
<1>27. CASE ConfigFetched
  BY <1>27 DEF ConfigFetched
<1>28. CASE RunDone
  BY <1>28 DEF RunDone, EndRun, ScheduleAfter
<1>29. CASE UNCHANGED vars
  BY <1>29 DEF vars
<1> QED
  BY <1>1, <1>2, <1>3, <1>4, <1>5, <1>6, <1>7, <1>8, <1>9, <1>10, <1>11, <1>12,
     <1>13, <1>14, <1>15, <1>16, <1>17, <1>18, <1>19, <1>20, <1>21, <1>22, <1>23, <1>24,
     <1>25, <1>26, <1>27, <1>28, <1>29 DEF Next

(* The ranges of what begin_upload_or_finish() assigns.                    *)
RunTypes ==
    /\ state \in {"IDLE", "CONNECTING", "SYNCING", "UPLOADING"}
    /\ until_attempt \in 0 .. BACKOFF_MAX /\ backoff \in 1 .. BACKOFF_MAX
    /\ time_result \in {"SUCCESS", "SNTP_FAILED"}
    /\ brews_seen \in 0 .. Cardinality(Sessions) /\ age \in 0 .. QUIET
    /\ phase \in {"none", "MANIFEST", "UPLOAD", "BREW_UPLOAD", "CONFIG_FETCH", "SNAPSHOT"}
    /\ (phase # "none") <=> (state = "UPLOADING")
    /\ in_flight => phase # "none"
    /\ want \subseteq Sessions /\ wanted \in 0 .. Cardinality(Sessions)
    /\ uploaded \in 0 .. MAX_UPLOADS_PER_RUN /\ cursor \in 0 .. MaxGrinds + 1

(* begin_upload_or_finish() leaves an open run or an idle radio.            *)
LEMMA BeginTypes ==
  ASSUME TypeOK, NEW result \in {"SUCCESS", "SNTP_FAILED"}, phase = "none",
         BeginUploadOrFinish(result)
  PROVE  RunTypes'
<1> USE CloudAssumption, SessionsFinite DEF TypeOK, RunTypes, tracking, run
<1>1. CASE window_purpose = "CLOUD_SYNC"
  BY <1>1 DEF BeginUploadOrFinish
<1>2. CASE window_purpose = "CLOCK_ONLY"
  <2>1. state' = "IDLE" /\ UNCHANGED <<version_seen, version_synced, brews_seen, run, time_result>>
    BY <1>2 DEF BeginUploadOrFinish, FinishAttempt
  <2>2. age' \in 0 .. QUIET /\ until_attempt' \in 0 .. BACKOFF_MAX /\ backoff' \in 1 .. BACKOFF_MAX
    BY <1>2 DEF BeginUploadOrFinish, FinishAttempt, ScheduleAfter, SmallerOf
  <2> QED BY <2>1, <2>2
<1> QED BY <1>1, <1>2

(* Every variable keeps its range, and a run lasts as long as its window.   *)
LEMMA TypeStep ==
  ASSUME TypeOK, RunInv, [Next]_vars PROVE TypeOK'
<1>f. Flags'
  BY FlagsStep DEF TypeOK
<1>s. Sessions = 1 .. MaxGrinds + 1
  BY DEF Sessions
<1> USE <1>f, <1>s, CloudAssumption, SessionsFinite DEF TypeOK, SmallerOf, device, radio, tracking, run, PassFrame, RunFrame, Continues, Track, RunForgotten, RequestEnds, StepAllowed, PassesOn, RequestBegins, WantRead, UploadEnds, BrewEnds, StepAllowed, PassesOn, RequestBegins, WantRead, UploadEnds, BrewEnds
<1>1. CASE GrindStarts
  BY <1>1 DEF GrindStarts
<1>2. CASE GrindCancelled
  BY <1>2 DEF GrindCancelled
<1>3. CASE GrindSaved
  <2>1. Kept(flash \cup {session_id}) \subseteq flash \cup {session_id}
    BY DEF Kept
  <2>2. flash' \subseteq Sessions /\ backlog' \subseteq flash' /\ prompt' \subseteq Sessions
        /\ waived' \subseteq Sessions
    BY <1>3, <2>1 DEF GrindSaved
  <2>3. UNCHANGED <<session_id, brews, server, radio, brews_seen, age, phase, want, wanted,
                    uploaded, cursor, in_flight>> /\ quiet' = 0 /\ overlapped' = 0
    BY <1>3 DEF GrindSaved
  <2> QED BY <2>2, <2>3
<1>4. CASE GrindNotSaved
  BY <1>4 DEF GrindNotSaved
<1>5. CASE ShotLogged
  BY <1>5 DEF ShotLogged
<1>6. CASE Tick
  BY <1>6 DEF Tick
<1>7. CASE IdlePass
  BY <1>7 DEF IdlePass
<1>8. CASE OpenWindow
  <2>1. WindowPurpose \in {"CLOCK_ONLY", "CLOUD_SYNC"}
    BY DEF WindowPurpose
  <2>2. brews_seen' \in 0 .. Cardinality(Sessions)
    BY <1>8 DEF OpenWindow
  <2>3. age' \in 0 .. QUIET
    BY <1>8 DEF OpenWindow
  <2> QED BY <1>8, <2>1, <2>2, <2>3 DEF OpenWindow
<1>9. CASE RadioRefused
  <2>1. WindowPurpose \in {"CLOCK_ONLY", "CLOUD_SYNC"}
    BY DEF WindowPurpose
  <2>2. brews_seen' \in 0 .. Cardinality(Sessions)
    BY <1>9 DEF RadioRefused
  <2>3. age' \in 0 .. QUIET
    BY <1>9 DEF RadioRefused
  <2> QED BY <1>9, <2>1, <2>2, <2>3 DEF RadioRefused
<1>10. CASE WindowAborted
  BY <1>10 DEF WindowAborted, FinishAttempt, ScheduleAfter
<1>11. CASE Connected
  <2>1. CASE state' = "SYNCING"
    BY <1>11, <2>1 DEF Connected, BeginUploadOrFinish, FinishAttempt
  <2>2. CASE BeginUploadOrFinish("SUCCESS")
    <3>1. RunTypes'
      BY <1>11, <2>2, BeginTypes DEF Connected
    <3> QED BY <1>11, <3>1 DEF Connected, RunTypes
  <2> QED BY <1>11, <2>1, <2>2 DEF Connected
<1>12. CASE ConnectTimeout
  BY <1>12 DEF ConnectTimeout, FinishAttempt, ScheduleAfter
<1>13. CASE ClockSynced
  <2>1. RunTypes'
    BY <1>13, BeginTypes DEF ClockSynced
  <2> QED BY <1>13, <2>1 DEF ClockSynced, RunTypes
<1>14. CASE SntpTimeout
  <2>1. RunTypes'
    BY <1>14, BeginTypes DEF SntpTimeout
  <2> QED BY <1>14, <2>1 DEF SntpTimeout, RunTypes
<1>15. CASE RunAborted
  BY <1>15 DEF RunAborted, EndRun, ScheduleAfter
<1>16. CASE Request
  <2>1. CASE ManifestBegins
    BY <2>1 DEF ManifestBegins
  <2>2. CASE UploadBegins
    BY <2>2 DEF UploadBegins
  <2>3. CASE BrewBegins
    <3>1. cursor' \in Sessions
      BY <2>3, HasOldest DEF BrewBegins, BrewsLeft
    <3> QED BY <2>3, <3>1 DEF BrewBegins
  <2>4. CASE LastBegins
    BY <2>4 DEF LastBegins
  <2> QED BY <1>16, <2>1, <2>2, <2>3, <2>4 DEF Request
<1>17. CASE RequestFailed
  <2>1. server' \subseteq Sessions /\ waived' \subseteq Sessions
    BY <1>17, HasOldest DEF RequestFailed, RunInv, NextWanted
  <2> QED BY <1>17, <2>1 DEF RequestFailed, EndRun, ScheduleAfter
<1>18. CASE ManifestAnswered
  BY <1>18 DEF ManifestAnswered
<1>19. CASE ManifestCut
  BY <1>19 DEF ManifestCut
<1>20. CASE FilePurged
  BY <1>20 DEF FilePurged
<1>21. CASE FileUnreadable
  <2>1. phase = "UPLOAD" /\ in_flight /\ want' = want \ {NextWanted}
    BY <1>21 DEF FileUnreadable
  <2>2. NextWanted \in Sessions /\ uploaded < MAX_UPLOADS_PER_RUN
    BY <2>1, HasOldest DEF RunInv, NextWanted
  <2>3. uploaded' \in 0 .. MAX_UPLOADS_PER_RUN /\ want' \subseteq Sessions
        /\ server' \subseteq Sessions /\ waived' \subseteq Sessions
    BY <1>21, <2>1, <2>2 DEF FileUnreadable
  <2> QED BY <1>21, <2>3 DEF FileUnreadable
<1>22. CASE SessionUploaded
  <2>1. phase = "UPLOAD" /\ in_flight /\ want' = want \ {NextWanted}
    BY <1>22 DEF SessionUploaded
  <2>2. NextWanted \in Sessions /\ uploaded < MAX_UPLOADS_PER_RUN
    BY <2>1, HasOldest DEF RunInv, NextWanted
  <2>3. uploaded' \in 0 .. MAX_UPLOADS_PER_RUN /\ want' \subseteq Sessions
        /\ server' \subseteq Sessions /\ waived' \subseteq Sessions
    BY <1>22, <2>1, <2>2 DEF SessionUploaded
  <2> QED BY <1>22, <2>3 DEF SessionUploaded
<1>23. CASE SessionRefused
  <2>1. phase = "UPLOAD" /\ in_flight /\ want' = want \ {NextWanted}
    BY <1>23 DEF SessionRefused
  <2>2. NextWanted \in Sessions /\ uploaded < MAX_UPLOADS_PER_RUN
    BY <2>1, HasOldest DEF RunInv, NextWanted
  <2>3. uploaded' \in 0 .. MAX_UPLOADS_PER_RUN /\ want' \subseteq Sessions
        /\ server' \subseteq Sessions /\ waived' \subseteq Sessions
    BY <1>23, <2>1, <2>2 DEF SessionRefused
  <2> QED BY <1>23, <2>3 DEF SessionRefused
<1>24. CASE PhaseOver
  <2>1. wanted' \in 0 .. Cardinality(Sessions) /\ uploaded' = 0 /\ want' = {}
    BY <1>24 DEF PhaseOver, RunInv
  <2> QED BY <1>24, <2>1 DEF PhaseOver
<1>25. CASE BrewAnswered
  BY <1>25 DEF BrewAnswered
<1>26. CASE BrewFailed
  BY <1>26 DEF BrewFailed
<1>27. CASE ConfigFetched
  BY <1>27 DEF ConfigFetched
<1>28. CASE RunDone
  BY <1>28 DEF RunDone, EndRun, ScheduleAfter
<1>29. CASE UNCHANGED vars
  BY <1>29 DEF vars
<1> QED
  BY <1>1, <1>2, <1>3, <1>4, <1>5, <1>6, <1>7, <1>8, <1>9, <1>10, <1>11, <1>12,
     <1>13, <1>14, <1>15, <1>16, <1>17, <1>18, <1>19, <1>20, <1>21, <1>22, <1>23, <1>24,
     <1>25, <1>26, <1>27, <1>28, <1>29 DEF Next

LEMMA InitSync == Init => SyncInv
<1> SUFFICES ASSUME Init PROVE SyncInv
  OBVIOUS
<1> USE CloudAssumption, SessionsFinite DEF Init
<1>1. TypeOK
  <2>1. Flags
    BY DEF Flags
  <2>2. /\ session_id \in Sessions /\ flash \subseteq Sessions /\ brews \subseteq Sessions
        /\ backlog \subseteq flash /\ server \subseteq Sessions
    BY DEF Earlier, Sessions
  <2> QED BY <2>1, <2>2 DEF TypeOK
<1>2. RunInv /\ SyncedMeansStored
  BY DEF RunInv, SyncedMeansStored
<1>3. DelayInv
  <2>1. brews \in SUBSET Sessions /\ \A s \in brews : s <= session_id
    BY DEF Earlier, Sessions
  <2> QED BY <2>1 DEF DelayInv
<1> QED BY <1>1, <1>2, <1>3 DEF SyncInv

(* The inductive invariant of schedule and run holds in every reachable     *)
(* state.                                                                  *)
THEOREM SyncInvariance == Spec => []SyncInv
<1>1. SyncInv /\ [Next]_vars => SyncInv'
  <2> SUFFICES ASSUME SyncInv, [Next]_vars PROVE SyncInv'
    OBVIOUS
  <2> QED BY TypeStep, RunStep, DelayStep, SyncedStep DEF SyncInv
<1> QED BY InitSync, <1>1, PTL DEF Spec

(* end_run(): synced_version moves to the snapshot of a run that sent all   *)
(* the server wanted, so it never covers a session the server lacks.        *)
THEOREM SyncedIsStored == Spec => []SyncedMeansStored
<1>1. SyncInv => SyncedMeansStored
  BY DEF SyncInv
<1> QED BY SyncInvariance, <1>1, PTL

(* window_allowed() is asked before each request: one may overlap a grind.  *)
THEOREM RunYields == Spec => []YieldsToGrind
<1>1. SyncInv => YieldsToGrind
  BY DEF SyncInv, RunInv, YieldsToGrind
<1> QED BY SyncInvariance, <1>1, PTL

(* wants_window() and sync_window_due(): the radio does not come up for the *)
(* cloud before CLOUD_SYNC_GRIND_DELAY_MS of quiet.                         *)
THEOREM QuietIsKept == Spec => QuietBeforeCloud
<1> DEFINE Quiet == state = "IDLE" /\ state' = "CONNECTING" /\ window_purpose' = "CLOUD_SYNC"
                    /\ ~sync_requested => quiet = QUIET
<1>1. SyncInv /\ [Next]_vars => [Quiet]_vars
  <2> SUFFICES ASSUME SyncInv, Next, state = "IDLE", state' = "CONNECTING",
                      window_purpose' = "CLOUD_SYNC", ~sync_requested
               PROVE  quiet = QUIET
    OBVIOUS
  <2>1. OpenWindow
    <3>1. ~(GrindStarts \/ GrindCancelled \/ GrindSaved \/ GrindNotSaved \/ ShotLogged \/ Tick
            \/ IdlePass \/ RadioRefused)
      BY DEF GrindStarts, GrindCancelled, GrindSaved, GrindNotSaved, ShotLogged, Tick, IdlePass,
             RadioRefused, radio
    <3>2. ~(WindowAborted \/ Connected \/ ConnectTimeout \/ ClockSynced \/ SntpTimeout
            \/ RunAborted \/ Request)
      BY DEF WindowAborted, Connected, ConnectTimeout, ClockSynced, SntpTimeout, RunAborted,
             Request, ManifestBegins, UploadBegins, BrewBegins, LastBegins, RequestBegins, Continues
    <3>3. phase = "none" /\ ~in_flight
      BY DEF SyncInv, TypeOK
    <3>4. ~(ManifestAnswered \/ ManifestCut \/ FilePurged \/ FileUnreadable \/ SessionUploaded
            \/ SessionRefused \/ PhaseOver)
      BY <3>3 DEF ManifestAnswered, ManifestCut, FilePurged, FileUnreadable, SessionUploaded,
                  SessionRefused, PhaseOver, UploadEnds, RequestEnds
    <3>5. ~(BrewAnswered \/ BrewFailed \/ ConfigFetched \/ RequestFailed \/ RunDone)
      BY <3>3 DEF BrewAnswered, BrewFailed, ConfigFetched, RequestFailed, RunDone, BrewEnds,
                  RequestEnds
    <3> QED BY <3>1, <3>2, <3>4, <3>5 DEF Next
  <2>2. ~Activity /\ age >= QUIET
    BY <2>1 DEF OpenWindow, WindowPurpose, WantsWindow
  <2>3. /\ age \in 0 .. QUIET /\ quiet \in 0 .. QUIET /\ QUIET \in Nat
        /\ brews_seen \in Nat /\ brews \in SUBSET Sessions
    BY CloudAssumption, SessionsFinite DEF SyncInv, TypeOK
  <2>4. Cardinality(brews) = 0 <=> brews = {}
    BY <2>3, SessionsFinite, FS_EmptySet
  <2>5. age <= quiet
    BY <2>2, <2>3, <2>4, SessionsFinite DEF SyncInv, DelayInv, Activity
  <2> QED BY <2>2, <2>3, <2>5
<1> QED BY SyncInvariance, <1>1, PTL DEF Spec, QuietBeforeCloud
=============================================================================
