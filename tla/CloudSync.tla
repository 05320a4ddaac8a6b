----------------------------- MODULE CloudSync -----------------------------
(***************************************************************************)
(* When the radio comes up and what a window does: WifiService             *)
(* (src/system/wifi_service.cpp) with the decisions of                     *)
(* sync_schedule_logic.h, and its consumer CloudSync (cloud_sync.cpp),     *)
(* both driven by loop(); the session files and the queue of brew records  *)
(* they send, and a server that answers or does not.                       *)
(*                                                                         *)
(* Time passes in units: QUIET of them are the 30 minutes after a grind,   *)
(* backoffs run from 1 to BACKOFF_MAX.  A version counter is kept as what  *)
(* the code compares: whether it still is the one seen, synced, or         *)
(* snapshotted by the run.                                                 *)
(***************************************************************************)
EXTENDS Integers, FiniteSets

CONSTANTS
    QUIET,                  \* CLOUD_SYNC_GRIND_DELAY_MS
    BACKOFF_MAX,            \* WIFI_RETRY_BACKOFF_MAX_MS
    MAX_STORED_SESSIONS,    \* files kept on flash
    MAX_UPLOADS_PER_RUN,
    MaxGrinds, MaxQueued    \* bounds of the exploration: grinds, brew records

ASSUME CloudAssumption ==
    /\ QUIET \in Nat \ {0} /\ BACKOFF_MAX \in Nat \ {0}
    /\ MAX_STORED_SESSIONS \in Nat \ {0} /\ MAX_UPLOADS_PER_RUN \in Nat \ {0}
    /\ MaxGrinds \in Nat /\ MaxQueued \in Nat

(* The session of an earlier boot, and those of this one.                  *)
Earlier == 1
Sessions == 1 .. MaxGrinds + 1

VARIABLES
    \* the device around: a grind, update or export; the last session id, the
    \* session files, the shot log on screen, the brew files, and the session
    \* files of an earlier boot
    busy, session_id, flash, prompt, brews, backlog,
    \* the server
    server,
    \* WifiService
    state, sync_requested, attempt_scheduled, until_attempt, backoff,
    window_purpose, time_result, clock_fresh,
    \* CloudSync: the counter is the one seen, the one synced; brews seen; time
    \* since last_activity_ms
    version_seen, version_synced, brews_seen, age,
    \* the run: phase, counter snapshot still current, what the server wants
    \* (while the manifest is out: what it lists), counts, brew cursor, whether
    \* an answer brought the settings, an HTTP request under way
    phase, run_current, want, wanted, uploaded, cursor, config_refreshed, in_flight,
    \* history: time since a session or brew record was written, requests that
    \* ended during this grind, sessions on flash that the device stopped
    \* offering without the server having them
    quiet, overlapped, waived

device == <<busy, session_id, flash, prompt, brews, backlog>>
radio == <<state, sync_requested, attempt_scheduled, until_attempt, backoff,
           window_purpose, time_result, clock_fresh>>
tracking == <<version_seen, version_synced, brews_seen, age>>
run == <<phase, run_current, want, wanted, uploaded, cursor, config_refreshed, in_flight>>
vars == <<device, server, radio, tracking, run, quiet, overlapped, waived>>

SmallerOf(a, b) == IF a < b THEN a ELSE b
OldestOf(S) == CHOOSE s \in S : \A t \in S : s <= t

(* WifiService::init() and CloudSync::init(): the clock attempt of the     *)
(* boot.  A reset in the middle of anything may leave a session file that  *)
(* the server has or not, and the brew record of it.                       *)
Init ==
    /\ state = "IDLE" /\ sync_requested = FALSE
    /\ attempt_scheduled = TRUE /\ until_attempt = 1 /\ backoff = 1
    /\ window_purpose = "CLOCK_ONLY" /\ time_result = "SUCCESS" /\ clock_fresh = FALSE
    /\ version_seen = TRUE /\ version_synced = TRUE /\ age = 0
    /\ phase = "none" /\ run_current = TRUE /\ want = {} /\ wanted = 0
    /\ uploaded = 0 /\ cursor = 0 /\ config_refreshed = FALSE /\ in_flight = FALSE
    /\ busy = FALSE /\ overlapped = 0 /\ waived = {}
    /\ session_id = Earlier /\ prompt = {} /\ quiet = 0
    /\ flash \in SUBSET {Earlier} /\ server \in SUBSET flash /\ backlog = flash
    /\ brews \in SUBSET flash /\ brews_seen = 0

-----------------------------------------------------------------------------
(* The device around.                                                      *)

(* A grind, an update or an export begins, and window_allowed() turns; a    *)
(* grind takes the next session id and the place of the shot log.          *)
GrindStarts ==
    /\ ~busy /\ session_id <= MaxGrinds
    /\ busy' = TRUE /\ session_id' = session_id + 1 /\ prompt' = {}
    /\ UNCHANGED <<flash, brews, backlog, server, radio, tracking, run, quiet, overlapped,
                   waived>>

GrindCancelled ==
    /\ busy
    /\ busy' = FALSE /\ overlapped' = 0
    /\ UNCHANGED <<session_id, flash, prompt, brews, backlog, server, radio, tracking, run, quiet,
                   waived>>

(* cleanup_old_session_files() after a file too many.                      *)
Kept(files) ==
    IF Cardinality(files) > MAX_STORED_SESSIONS THEN files \ {OldestOf(files)} ELSE files

(* A finished grind: its file is flushed and the version counter moves on. *)
GrindSaved ==
    /\ busy
    /\ busy' = FALSE /\ overlapped' = 0
    /\ prompt' = {session_id}
    /\ flash' = Kept(flash \cup {session_id})
    /\ backlog' = backlog \cap flash' /\ waived' = waived \cap flash'
    /\ version_seen' = FALSE /\ version_synced' = FALSE /\ run_current' = FALSE
    /\ quiet' = 0
    /\ UNCHANGED <<session_id, brews, server, radio, brews_seen, age, phase, want, wanted,
                   uploaded, cursor, config_refreshed, in_flight>>

(* Logging is off: the session is not written, and its shot can be logged   *)
(* nevertheless.                                                           *)
GrindNotSaved ==
    /\ busy
    /\ busy' = FALSE /\ overlapped' = 0 /\ prompt' = {session_id}
    /\ UNCHANGED <<session_id, flash, brews, backlog, server, radio, tracking, run, quiet,
                   waived>>

(* The shot log of the last grind is answered: BrewLog::queue_record() and *)
(* WifiService::request_sync_now().  Provisioning sets the same flag.      *)
ShotLogged ==
    /\ ~busy /\ session_id \in prompt /\ Cardinality(brews) < MaxQueued
    /\ brews' = brews \cup {session_id} /\ prompt' = {}
    /\ sync_requested' = TRUE
    /\ quiet' = 0
    /\ UNCHANGED <<busy, session_id, flash, backlog, server, state, attempt_scheduled,
                   until_attempt, backoff, window_purpose, time_result, clock_fresh,
                   tracking, run, overlapped, waived>>

(* A unit of time, which is long: an idle loop() has polled meanwhile.  The *)
(* age of the last activity, which the end of a run resets, is forgotten    *)
(* while one lasts.                                                        *)
Tick ==
    /\ state = "IDLE" => version_seen /\ brews_seen = Cardinality(brews)
    /\ (age < QUIET /\ phase = "none") \/ quiet < QUIET \/ until_attempt > 0
    /\ age' = IF phase = "none" THEN SmallerOf(age + 1, QUIET) ELSE 0
    /\ quiet' = SmallerOf(quiet + 1, QUIET)
    /\ until_attempt' = IF until_attempt > 0 THEN until_attempt - 1 ELSE 0
    /\ UNCHANGED <<device, server, state, sync_requested, attempt_scheduled, backoff,
                   window_purpose, time_result, clock_fresh, version_seen, version_synced,
                   brews_seen, run, overlapped, waived>>

-----------------------------------------------------------------------------
(* A window closes.                                                        *)

(* finish_attempt(): what the attempt still owes the schedule, and the     *)
(* quiet delay, which an aborted window restarts.                          *)
ScheduleAfter(result, aged) ==
    \/ /\ result = "SUCCESS"
       /\ attempt_scheduled' = FALSE /\ backoff' = 1 /\ age' = aged
       /\ UNCHANGED until_attempt
    \/ /\ result = "ABORTED"
       /\ age' = 0
       /\ IF window_purpose = "CLOUD_SYNC"
          THEN UNCHANGED <<attempt_scheduled, until_attempt>>
          ELSE attempt_scheduled' = TRUE /\ until_attempt' = 1
       /\ UNCHANGED backoff
    \/ /\ result \in {"WIFI_FAILED", "SNTP_FAILED"}
       /\ attempt_scheduled' = TRUE /\ until_attempt' = backoff
       /\ backoff' = SmallerOf(2 * backoff, BACKOFF_MAX) /\ age' = aged

(* The window ends outside a run.                                          *)
FinishAttempt(result) ==
    /\ state' = "IDLE"
    /\ ScheduleAfter(result, age)
    /\ UNCHANGED <<version_seen, version_synced, brews_seen, run>>

(* What nothing reads until the next run sets it anew.                     *)
RunForgotten ==
    /\ time_result' = "SUCCESS" /\ run_current' = TRUE /\ want' = {} /\ wanted' = 0
    /\ uploaded' = 0 /\ cursor' = 0 /\ config_refreshed' = FALSE

(* A plausible bug: the counter of the moment taken for the one synced.    *)
EndRunLive(success) ==
    /\ phase' = "none" /\ in_flight' = FALSE
    /\ version_synced' = (success \/ version_synced)
    /\ state' = "IDLE"
    /\ ScheduleAfter(time_result, 0) /\ RunForgotten
    /\ UNCHANGED <<version_seen, brews_seen>>

(* end_run() and finish_attempt(pending_time_result): only a full success  *)
(* moves the synced version, and only to the snapshot of the run.          *)
EndRun(success) ==
    /\ phase' = "none" /\ in_flight' = FALSE
    /\ version_synced' = IF success THEN run_current ELSE version_synced
    /\ state' = "IDLE"
    /\ ScheduleAfter(time_result, 0) /\ RunForgotten
    /\ UNCHANGED <<version_seen, brews_seen>>

(* begin_upload_or_finish(): the run begins in a window opened for it.  The *)
(* backoff that the end of the window resets counts as reset.              *)
BeginUploadOrFinish(result) ==
    \/ /\ window_purpose = "CLOUD_SYNC"
       /\ state' = "UPLOADING" /\ time_result' = result
       /\ phase' = "MANIFEST" /\ run_current' = TRUE /\ want' = {}
       /\ uploaded' = 0 /\ cursor' = 0 /\ config_refreshed' = FALSE
       /\ age' = 0
       /\ backoff' = (IF result = "SUCCESS" THEN 1 ELSE backoff)
       /\ UNCHANGED <<attempt_scheduled, until_attempt, version_seen, version_synced,
                      brews_seen, wanted, in_flight>>
    \/ /\ window_purpose = "CLOCK_ONLY"
       /\ FinishAttempt(result)
       /\ UNCHANGED time_result

-----------------------------------------------------------------------------
(* Passes of WifiService::handle().                                        *)

PassFrame == UNCHANGED <<device, server, quiet, overlapped, waived>>

(* wants_window() on the way: a new session or record restarts the wait.   *)
Activity == ~version_seen \/ (Cardinality(brews) # brews_seen /\ brews # {})
HaveWork == ~version_synced \/ brews # {}

(* A plausible bug: the wait looked at before the activity.                *)
WantsWindowLate == HaveWork /\ age >= QUIET
WantsWindow == HaveWork /\ ~Activity /\ age >= QUIET

ScheduledDue == attempt_scheduled /\ until_attempt = 0

(* A plausible bug: a retry stays pending when its deadline has passed.    *)
RetryPendingForever == attempt_scheduled
RetryPending == attempt_scheduled /\ ~ScheduledDue

(* sync_window_due().                                                      *)
WindowDue == sync_requested \/ (~RetryPending /\ (WantsWindow \/ ScheduledDue))
WindowPurpose ==
    IF sync_requested \/ (~RetryPending /\ WantsWindow) THEN "CLOUD_SYNC" ELSE "CLOCK_ONLY"

Track ==
    /\ version_seen' = TRUE /\ brews_seen' = Cardinality(brews)

(* An idle pass that opens no window.                                      *)
IdlePass ==
    /\ state = "IDLE"
    /\ ~WindowDue \/ busy
    /\ Track
    /\ age' = IF Activity THEN 0 ELSE age
    /\ UNCHANGED <<radio, version_synced, run>> /\ PassFrame

(* start_attempt(): the radio comes up, or its power cannot be set.  The   *)
(* deadline, which nothing reads until it is set again, is forgotten.      *)
OpenWindow ==
    /\ state = "IDLE" /\ WindowDue /\ ~busy
    /\ Track /\ age' = (IF Activity THEN 0 ELSE age)
    /\ sync_requested' = FALSE /\ attempt_scheduled' = FALSE /\ until_attempt' = 0
    /\ window_purpose' = WindowPurpose
    /\ state' = "CONNECTING"
    /\ UNCHANGED <<backoff, time_result, clock_fresh, version_synced, run>>
    /\ PassFrame

RadioRefused ==
    /\ state = "IDLE" /\ WindowDue /\ ~busy
    /\ Track /\ age' = (IF Activity THEN 0 ELSE age)
    /\ sync_requested' = FALSE /\ window_purpose' = WindowPurpose
    /\ attempt_scheduled' = TRUE /\ until_attempt' = backoff
    /\ backoff' = SmallerOf(2 * backoff, BACKOFF_MAX)
    /\ UNCHANGED <<state, time_result, clock_fresh, version_synced, run>> /\ PassFrame

WindowAborted ==
    /\ state \in {"CONNECTING", "SYNCING"} /\ busy
    /\ FinishAttempt("ABORTED")
    /\ UNCHANGED <<sync_requested, window_purpose, time_result, clock_fresh>> /\ PassFrame

Connected ==
    /\ state = "CONNECTING" /\ ~busy
    /\ IF window_purpose = "CLOCK_ONLY" \/ ~clock_fresh
       THEN /\ state' = "SYNCING"
            /\ UNCHANGED <<attempt_scheduled, until_attempt, backoff, time_result, tracking, run>>
       ELSE BeginUploadOrFinish("SUCCESS")
    /\ UNCHANGED <<sync_requested, window_purpose, clock_fresh>> /\ PassFrame

ConnectTimeout ==
    /\ state = "CONNECTING" /\ ~busy
    /\ FinishAttempt("WIFI_FAILED")
    /\ UNCHANGED <<sync_requested, window_purpose, time_result, clock_fresh>> /\ PassFrame

ClockSynced ==
    /\ state = "SYNCING" /\ ~busy
    /\ clock_fresh' = TRUE
    /\ BeginUploadOrFinish("SUCCESS")
    /\ UNCHANGED <<sync_requested, window_purpose>> /\ PassFrame

SntpTimeout ==
    /\ state = "SYNCING" /\ ~busy
    /\ BeginUploadOrFinish("SNTP_FAILED")
    /\ UNCHANGED <<sync_requested, window_purpose, clock_fresh>> /\ PassFrame

-----------------------------------------------------------------------------
(* A run: one blocking request per pass at most.                           *)

RunFrame ==
    UNCHANGED <<sync_requested, window_purpose, clock_fresh,
                quiet, busy, session_id, flash, prompt, backlog>>

Continues ==
    UNCHANGED <<state, attempt_scheduled, until_attempt, backoff, tracking, time_result,
                run_current>>

RunAborted ==
    /\ state = "UPLOADING" /\ busy /\ ~in_flight
    /\ EndRun(FALSE)
    /\ UNCHANGED <<brews, server, overlapped, waived>> /\ RunFrame

(* A plausible bug: the gate forgotten between two steps of a run.         *)
StepUngated == state = "UPLOADING" /\ ~in_flight

(* The gate lets a pass through.                                           *)
StepAllowed == state = "UPLOADING" /\ ~in_flight /\ ~busy

(* A request is built and goes out; a grind may begin while it blocks.  No *)
(* memory for its buffers counts as a request that fails at once.          *)
RequestBegins ==
    /\ StepAllowed /\ in_flight' = TRUE
    /\ UNCHANGED <<brews, server, overlapped, phase, wanted, uploaded, config_refreshed, waived>>
    /\ Continues /\ RunFrame

RequestEnds ==
    /\ in_flight /\ in_flight' = FALSE
    /\ overlapped' = IF busy THEN SmallerOf(overlapped + 1, 2) ELSE overlapped

(* A pass of step() that sends nothing.                                    *)
PassesOn ==
    /\ StepAllowed
    /\ UNCHANGED <<brews, server, overlapped, config_refreshed, in_flight, waived>>
    /\ Continues /\ RunFrame

(* step_manifest(): the files on flash are listed, and the server asked    *)
(* which of them it wants: those it does not have.                         *)
ManifestBegins ==
    /\ phase = "MANIFEST" /\ want' = flash /\ RequestBegins
    /\ UNCHANGED cursor

WantRead ==
    /\ wanted' = Cardinality(want')
    /\ phase' = IF want' = {} THEN "BREW_UPLOAD" ELSE "UPLOAD"
    /\ UNCHANGED <<brews, server, uploaded, cursor, config_refreshed>> /\ Continues /\ RunFrame

ManifestAnswered ==
    /\ phase = "MANIFEST" /\ RequestEnds
    /\ want' = want \ server /\ WantRead
    /\ UNCHANGED waived

(* Of an answer of status 200 any part may have been read; what is missing *)
(* is taken as not wanted.                                                 *)
ManifestCut ==
    /\ phase = "MANIFEST" /\ RequestEnds
    /\ want' \in SUBSET (want \ server) /\ WantRead
    /\ waived' = waived \cup ((flash \cap (want \ server)) \ want')

(* step_upload(): the next wanted file, if it still exists and can be      *)
(* read, is sent, up to the cap of a run; then it is the turn of the brews. *)
UploadsOver == want = {} \/ uploaded >= MAX_UPLOADS_PER_RUN
NextWanted == OldestOf(want)

FilePurged ==
    /\ phase = "UPLOAD" /\ ~UploadsOver /\ NextWanted \notin flash
    /\ want' = want \ {NextWanted} /\ PassesOn
    /\ UNCHANGED <<phase, wanted, uploaded, cursor>>

UploadBegins ==
    /\ phase = "UPLOAD" /\ ~UploadsOver /\ NextWanted \in flash
    /\ RequestBegins
    /\ UNCHANGED <<want, cursor>>

UploadEnds ==
    /\ phase = "UPLOAD" /\ RequestEnds
    /\ want' = want \ {NextWanted}
    /\ UNCHANGED <<brews, phase, wanted, cursor, config_refreshed>> /\ Continues /\ RunFrame

FileUnreadable ==
    /\ UploadEnds
    /\ UNCHANGED <<server, uploaded, waived>>

(* Status 200 or 201; the file may have been purged meanwhile.             *)
SessionUploaded ==
    /\ UploadEnds /\ uploaded' = uploaded + 1
    /\ server' = server \cup {NextWanted} /\ waived' = waived \ {NextWanted}

(* Status 422: the server rejects the file, which counts as uploaded.      *)
SessionRefused ==
    /\ UploadEnds /\ uploaded' = uploaded + 1
    /\ waived' = waived \cup ({NextWanted} \cap (flash \ server))
    /\ UNCHANGED server

(* step_brew_upload(): the next record; kept while its session is unknown.  *)
BrewsLeft == {b \in brews : b > cursor}

BrewBegins ==
    /\ phase = "BREW_UPLOAD" /\ BrewsLeft # {}
    /\ cursor' = OldestOf(BrewsLeft) /\ RequestBegins
    /\ UNCHANGED want

BrewEnds ==
    /\ phase = "BREW_UPLOAD" /\ RequestEnds
    /\ UNCHANGED <<server, phase, want, wanted, uploaded, cursor, waived>>
    /\ Continues /\ RunFrame

(* The server answers with the status of the record and the settings.      *)
BrewAnswered ==
    /\ BrewEnds
    /\ brews' = IF cursor \in server THEN brews \ {cursor} ELSE brews
    /\ config_refreshed' = TRUE

(* A failed brew request is skipped, and so is a status that was not read. *)
BrewFailed ==
    /\ BrewEnds
    /\ config_refreshed' \in {config_refreshed, TRUE}
    /\ UNCHANGED brews

(* The next phase.  What no later one reads is forgotten: of the counts all *)
(* but whether something is missing.                                       *)
PhaseOver ==
    /\ \/ /\ phase = "UPLOAD" /\ UploadsOver
          /\ phase' = "BREW_UPLOAD" /\ UNCHANGED cursor
       \/ /\ phase = "BREW_UPLOAD" /\ BrewsLeft = {}
          /\ phase' = IF config_refreshed THEN "SNAPSHOT" ELSE "CONFIG_FETCH"
          /\ cursor' = 0
    /\ want' = {} /\ wanted' = SmallerOf(wanted - uploaded, 1) /\ uploaded' = 0
    /\ PassesOn

(* step_config_fetch() and step_snapshot(), whatever their outcome.        *)
LastBegins ==
    /\ phase \in {"CONFIG_FETCH", "SNAPSHOT"} /\ RequestBegins
    /\ UNCHANGED <<want, cursor>>

ConfigFetched ==
    /\ phase = "CONFIG_FETCH" /\ RequestEnds
    /\ phase' = "SNAPSHOT" /\ config_refreshed' = TRUE
    /\ UNCHANGED <<brews, server, want, wanted, uploaded, cursor, waived>>
    /\ Continues /\ RunFrame

(* The manifest or an upload fails, and the run with it; the file may have *)
(* arrived nevertheless.                                                   *)
RequestFailed ==
    /\ in_flight /\ phase \in {"MANIFEST", "UPLOAD"}
    /\ overlapped' = IF busy THEN SmallerOf(overlapped + 1, 2) ELSE overlapped
    /\ EndRun(FALSE)
    /\ \/ UNCHANGED server
       \/ phase = "UPLOAD" /\ server' = server \cup {NextWanted}
    /\ waived' = waived \ server'
    /\ UNCHANGED brews /\ RunFrame

(* The snapshot ends the run, and it is a success if everything wanted was *)
(* counted as uploaded.                                                    *)
RunDone ==
    /\ phase = "SNAPSHOT" /\ in_flight
    /\ overlapped' = IF busy THEN SmallerOf(overlapped + 1, 2) ELSE overlapped
    /\ EndRun(uploaded >= wanted)
    /\ UNCHANGED <<brews, server, waived>> /\ RunFrame

Request == ManifestBegins \/ UploadBegins \/ BrewBegins \/ LastBegins

LoopPass ==
    \/ IdlePass \/ OpenWindow \/ WindowAborted \/ ConnectTimeout \/ SntpTimeout
    \/ RunAborted \/ Request \/ RequestFailed \/ FilePurged \/ FileUnreadable
    \/ PhaseOver \/ BrewFailed \/ ConfigFetched \/ RunDone

Next ==
    \/ GrindStarts \/ GrindCancelled \/ GrindSaved \/ GrindNotSaved \/ ShotLogged
    \/ Tick
    \/ IdlePass \/ OpenWindow \/ RadioRefused \/ WindowAborted \/ Connected
    \/ ConnectTimeout \/ ClockSynced \/ SntpTimeout
    \/ RunAborted \/ Request \/ RequestFailed \/ ManifestAnswered \/ ManifestCut
    \/ FilePurged \/ FileUnreadable \/ SessionUploaded \/ SessionRefused \/ PhaseOver
    \/ BrewAnswered \/ BrewFailed \/ ConfigFetched \/ RunDone

(* loop() runs, time passes and a grind ends.  The router, the time server *)
(* and the store answer if asked often enough.                             *)
Spec ==
    /\ Init /\ [][Next]_vars
    /\ WF_vars(LoopPass) /\ WF_vars(Tick) /\ WF_vars(GrindCancelled)
    /\ SF_vars(OpenWindow) /\ SF_vars(Connected) /\ SF_vars(ClockSynced)
    /\ SF_vars(ManifestAnswered) /\ SF_vars(SessionUploaded \/ SessionRefused)
    /\ SF_vars(BrewAnswered)

-----------------------------------------------------------------------------
Flags ==
    /\ busy \in BOOLEAN /\ sync_requested \in BOOLEAN /\ attempt_scheduled \in BOOLEAN
    /\ clock_fresh \in BOOLEAN /\ version_seen \in BOOLEAN /\ version_synced \in BOOLEAN
    /\ in_flight \in BOOLEAN /\ run_current \in BOOLEAN /\ config_refreshed \in BOOLEAN

TypeOK ==
    /\ Flags
    /\ session_id \in Sessions
    /\ flash \subseteq Sessions /\ prompt \subseteq Sessions
    /\ brews \subseteq Sessions /\ backlog \subseteq flash /\ server \subseteq Sessions
    /\ state \in {"IDLE", "CONNECTING", "SYNCING", "UPLOADING"}
    /\ until_attempt \in 0 .. BACKOFF_MAX /\ backoff \in 1 .. BACKOFF_MAX
    /\ window_purpose \in {"CLOCK_ONLY", "CLOUD_SYNC"}
    /\ time_result \in {"SUCCESS", "SNTP_FAILED"}
    /\ brews_seen \in 0 .. Cardinality(Sessions) /\ age \in 0 .. QUIET
    /\ phase \in {"none", "MANIFEST", "UPLOAD", "BREW_UPLOAD", "CONFIG_FETCH", "SNAPSHOT"}
    /\ (phase # "none") <=> (state = "UPLOADING")
    /\ in_flight => phase # "none"
    /\ want \subseteq Sessions /\ wanted \in 0 .. Cardinality(Sessions)
    /\ uploaded \in 0 .. MAX_UPLOADS_PER_RUN /\ cursor \in 0 .. MaxGrinds + 1
    /\ quiet \in 0 .. QUIET /\ overlapped \in 0 .. 2 /\ waived \subseteq Sessions

(* Whenever the device believes that it has nothing to send, the server    *)
(* holds every session file written since boot, also those flushed in the  *)
(* middle of a run or beyond the cap of one.  Two answers are taken for     *)
(* the server's last word, and leave a file out of it: a 422, and a        *)
(* manifest answer of which less was read than was sent.                   *)
SyncedMeansStored == version_synced => flash \ backlog \subseteq server \cup waived

(* A cloud window that no logged shot asked for opens only after the full  *)
(* quiet delay since the last session or brew record.                      *)
QuietBeforeCloud ==
    [][state = "IDLE" /\ state' = "CONNECTING" /\ window_purpose' = "CLOUD_SYNC"
         /\ ~sync_requested => quiet = QUIET]_vars

(* A grind that starts during a run sees at most the one request that is   *)
(* already out.                                                            *)
YieldsToGrind == overlapped <= 1

(* A brew record whose session the server does not have and will not be    *)
(* sent: it stays in the queue.                                            *)
Orphaned == \E b \in brews : b \notin server /\ (b \notin flash \/ b \in waived)

(* As many files on flash that the server refused, and wants again from     *)
(* every manifest, as a run sends.                                         *)
Clogged == Cardinality(waived) >= MAX_UPLOADS_PER_RUN

(* Once nobody grinds any more, every session file written since boot is   *)
(* on the server, was refused or left out by it, or has given way to newer *)
(* ones, and the radio goes off for good, unless refused files take all    *)
(* the uploads of a run or a brew record has lost its session.             *)
Settles ==
    <>[](\/ Clogged
         \/ /\ flash \ backlog \subseteq server \cup waived
            /\ state = "IDLE" \/ Orphaned)

-----------------------------------------------------------------------------
(* The invariant behind the safety properties, inductive.                  *)

\* what a run knows is short of nothing while its snapshot is current
RunInv ==
    /\ phase = "MANIFEST" /\ in_flight /\ run_current => flash \subseteq want
    /\ phase \in {"UPLOAD", "BREW_UPLOAD", "CONFIG_FETCH", "SNAPSHOT"} =>
          /\ uploaded + Cardinality(want) <= wanted
          /\ run_current /\ uploaded + Cardinality(want) = wanted
                => flash \ (server \cup waived) \subseteq want
    /\ phase = "UPLOAD" /\ in_flight => want # {} /\ uploaded < MAX_UPLOADS_PER_RUN
    /\ phase = "MANIFEST" => uploaded = 0
    /\ ~busy => overlapped = 0
    /\ overlapped <= 1 /\ (in_flight => overlapped = 0)

\* the delay runs from the last activity, or that activity is yet to be seen
DelayInv ==
    /\ \A s \in brews \cup prompt : s <= session_id
    /\ busy \/ session_id \in prompt => session_id \notin brews
    /\ state \in {"CONNECTING", "SYNCING"} => Cardinality(brews) >= brews_seen
    /\ state # "UPLOADING" =>
          /\ age <= quiet \/ ~version_seen \/ Cardinality(brews) > brews_seen
          /\ age = 0 \/ Cardinality(brews) >= brews_seen

SyncInv == TypeOK /\ RunInv /\ DelayInv /\ SyncedMeansStored
=============================================================================
