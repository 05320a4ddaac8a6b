----------------------------- MODULE BrewEntry -----------------------------
(***************************************************************************)
(* The shot log after a grind and what becomes of its answer, across       *)
(* resets at any point: BrewEntryController                                *)
(* (src/ui/controllers/brew_entry_controller.cpp) with the prompt it keeps *)
(* in NVS (brew_prompt.h), BrewLog's queue of answered shots on flash      *)
(* (brew_log.cpp), and the cloud run that sends and removes them.          *)
(*                                                                         *)
(* The UI task (priority 2) and loop() (priority 1) share core 1, so a     *)
(* handler of the UI is interrupted by the uploader only where it waits    *)
(* for a flash or NVS operation, and the uploader by the UI between any    *)
(* two of its loads and stores; a reset hits between any two operations.   *)
(*                                                                         *)
(* A yield and a time are the number of the answer that gave them.         *)
(***************************************************************************)
EXTENDS Integers, FiniteSets

CONSTANTS
    BREW_QUEUE_MAX_FILES,
    MaxGrinds, MaxAnswers, MaxResets    \* bounds of the exploration

ASSUME BrewAssumption ==
    /\ BREW_QUEUE_MAX_FILES \in Nat \ {0, 1}
    /\ MaxGrinds \in Nat /\ MaxAnswers \in Nat /\ MaxResets \in Nat

Sessions == 1 .. MaxGrinds
Steps == {"YIELD", "TIME"}
Records == [session : Sessions, step : Steps]
None == [session |-> 0, step |-> "YIELD"]

VARIABLES
    \* NVS and flash: the stored prompt, the answer in each queued file (0 for
    \* none), the files without a whole record, _next_session_id
    stored, brews, short, next_session_id,
    \* RAM: the screen, what the UI's handler does next, last_started_session_id,
    \* and BrewEntryController
    screen, ui, last_started_session_id, pending_, session_id_, settled_session_id_,
    step_, presented_,
    \* BrewLog's count of the files, and the locals of queue_record(): the file
    \* to evict, whether the session had a file
    pending, oldest, existed,
    upload,                         \* where the cloud run is, with which record
    server,                         \* the answer it holds for each session
    answers, resets,
    \* history: the last answer given for a session; sessions whose answer was
    \* evicted, not written, or written while an older one was being sent; the
    \* prompt that a reset interrupted; whether a boot passed over the stored
    \* prompt; when the count of the files went wrong
    given, lost, owed, put_off, drift

nvs == <<stored, next_session_id>>
entry == <<pending_, session_id_, settled_session_id_, step_, presented_>>
queue == <<brews, short, pending, oldest, existed>>
cloud == <<upload, server>>
history == <<given, lost, owed, put_off, drift>>
vars == <<nvs, screen, ui, last_started_session_id, entry, queue, cloud, answers, resets,
          history>>

Files == {s \in Sessions : brews[s] # 0} \cup short
Idle == [at |-> "idle", session |-> 0, answer |-> 0, loaded |-> 0]
Booting == ui \in {"boot", "restore"}

Init ==
    /\ stored = None /\ brews = [s \in Sessions |-> 0] /\ short = {} /\ next_session_id = 1
    /\ screen = "READY" /\ ui = "idle" /\ last_started_session_id = 0
    /\ pending_ = FALSE /\ session_id_ = 0 /\ settled_session_id_ = 0
    /\ step_ = "YIELD" /\ presented_ = FALSE
    /\ pending = 0 /\ oldest = 0 /\ existed = FALSE
    /\ upload = Idle /\ server = [s \in Sessions |-> 0]
    /\ answers = 0 /\ resets = 0
    /\ given = [s \in Sessions |-> 0] /\ lost = {} /\ owed = None
    /\ put_off = FALSE /\ drift = "never"

-----------------------------------------------------------------------------
(* Leaving the screen, and grinds.                                         *)

(* An answer that was pressed but not queued is dropped with its prompt.   *)
Dropped(s) ==
    IF s \in Sessions /\ given[s] \notin {brews[s], server[s]}
    THEN [given EXCEPT ![s] = 0] ELSE given

(* A plausible bug: the stored copy outlives the screen.                   *)
OnStateChangedKeeps(new) == presented_' = (presented_ /\ new = "BREW_ENTRY") /\ UNCHANGED stored

(* on_state_changed(): every exit retires the stored copy, but not boot's  *)
(* own switch to READY.                                                    *)
OnStateChanged(new) ==
    IF new # "BREW_ENTRY" /\ presented_
    THEN presented_' = FALSE /\ stored' = None
    ELSE UNCHANGED <<presented_, stored>>

(* A prompt left without an answer: skipped, timed out, superseded.        *)
Leave(new) ==
    /\ screen' = new /\ OnStateChanged(new)
    /\ IF presented_
       THEN owed' = None /\ put_off' = FALSE /\ given' = Dropped(session_id_)
       ELSE UNCHANGED <<owed, put_off, given>>

(* GRIND pressed, or auto-start, also from the prompt; the session is      *)
(* opened a few passes later, at SETUP.                                    *)
GrindStarts ==
    /\ ui = "idle" /\ screen \in {"READY", "BREW_ENTRY"} /\ next_session_id <= MaxGrinds
    /\ Leave("GRINDING")
    /\ IF pending_
       THEN settled_session_id_' = session_id_ /\ pending_' = FALSE
       ELSE UNCHANGED <<settled_session_id_, pending_>>
    /\ last_started_session_id' = next_session_id
    /\ next_session_id' = next_session_id + 1
    /\ UNCHANGED <<ui, session_id_, step_, queue, cloud, answers, resets, lost, drift>>

GrindCancelled ==
    /\ ui = "idle" /\ screen = "GRINDING"
    /\ Leave("READY") /\ last_started_session_id' = 0
    /\ UNCHANGED <<next_session_id, ui, pending_, session_id_, settled_session_id_, step_,
                   queue, cloud, answers, resets, lost, drift>>

(* A timeout, or a COMPLETED that never reached the UI.                    *)
GrindEndsUnseen ==
    /\ ui = "idle" /\ screen = "GRINDING"
    /\ Leave("READY")
    /\ UNCHANGED <<next_session_id, ui, last_started_session_id, pending_, session_id_,
                   settled_session_id_, step_, queue, cloud, answers, resets, lost, drift>>

(* COMPLETED, at the end of the grind and of every top-up pulse: arm(), if *)
(* a bean is configured.                                                   *)
Arm(bean) ==
    IF bean /\ last_started_session_id \notin {0, settled_session_id_}
    THEN pending_' = TRUE /\ session_id_' = last_started_session_id
    ELSE pending_' = FALSE /\ UNCHANGED session_id_

Completed ==
    /\ ui = "idle" /\ screen \in {"GRINDING", "GRIND_COMPLETE"}
    /\ screen' = "GRIND_COMPLETE" /\ OnStateChanged("GRIND_COMPLETE")
    /\ \E bean \in BOOLEAN : Arm(bean)
    /\ UNCHANGED <<next_session_id, ui, last_started_session_id, settled_session_id_, step_,
                   queue, cloud, answers, resets, history>>

(* STOPPED: begin_entry() stores the prompt and then shows it.             *)
Stopped ==
    /\ ui = "idle" /\ screen = "GRIND_COMPLETE"
    /\ IF pending_
       THEN /\ pending_' = FALSE /\ settled_session_id_' = session_id_
            /\ step_' = "YIELD" /\ stored' = [session |-> session_id_, step |-> "YIELD"]
            /\ ui' = "present"
            /\ owed' = None /\ put_off' = FALSE /\ given' = Dropped(stored.session)
            /\ UNCHANGED <<screen, presented_>>
       ELSE /\ Leave("READY")
            /\ UNCHANGED <<pending_, settled_session_id_, step_, ui>>
    /\ UNCHANGED <<next_session_id, last_started_session_id, session_id_, queue, cloud,
                   answers, resets, lost, drift>>

Present ==
    /\ ui = "present"
    /\ presented_' = TRUE /\ screen' = "BREW_ENTRY" /\ ui' = "idle"
    /\ UNCHANGED <<nvs, last_started_session_id, pending_, session_id_, settled_session_id_,
                   step_, queue, cloud, answers, resets, history>>

-----------------------------------------------------------------------------
(* The prompt is answered.                                                 *)

AtPrompt == ui = "idle" /\ screen = "BREW_ENTRY"

Advance ==
    /\ AtPrompt /\ step_ = "YIELD"
    /\ step_' = "TIME" /\ stored' = [session |-> session_id_, step |-> "TIME"]
    /\ owed' = None
    /\ UNCHANGED <<next_session_id, screen, ui, last_started_session_id, pending_,
                   session_id_, settled_session_id_, presented_, queue, cloud, answers,
                   resets, given, lost, put_off, drift>>

(* SKIP on the yield step, a yield of zero, or the timeout on either.      *)
Unanswered ==
    /\ AtPrompt
    /\ Leave("READY")
    /\ UNCHANGED <<next_session_id, ui, last_started_session_id, pending_, session_id_,
                   settled_session_id_, step_, queue, cloud, answers, resets, lost, drift>>

AnswerFrame ==
    UNCHANGED <<next_session_id, last_started_session_id, pending_, session_id_,
                settled_session_id_, step_, cloud, resets>>

(* finish(true, ...) from the time step; queue_record() looks at the count. *)
FirstStep == IF pending >= BREW_QUEUE_MAX_FILES THEN "prune" ELSE "exists"

(* A plausible bug: the screen left before the answer is queued.           *)
FinishLeavesFirst ==
    /\ AtPrompt /\ step_ = "TIME" /\ answers < MaxAnswers
    /\ answers' = answers + 1 /\ given' = [given EXCEPT ![session_id_] = answers']
    /\ OnStateChanged("READY") /\ ui' = FirstStep
    /\ UNCHANGED <<screen, queue, lost, owed, put_off, drift>> /\ AnswerFrame

Finish ==
    /\ AtPrompt /\ step_ = "TIME" /\ answers < MaxAnswers
    /\ answers' = answers + 1 /\ given' = [given EXCEPT ![session_id_] = answers']
    /\ ui' = FirstStep
    /\ UNCHANGED <<screen, stored, presented_, queue, lost, owed, put_off, drift>> /\ AnswerFrame

SaveFrame == UNCHANGED <<screen, stored, presented_, answers, given, owed, put_off>> /\ AnswerFrame

\* the UI's count of a file, and the uploader's store that undoes it
Drifts(wrong) == drift' = IF wrong THEN "now" ELSE drift

(* prune_if_full(): the directory is listed, and the oldest file removed,   *)
(* if it is still there and the file system lets it go.                    *)
PruneLists ==
    /\ ui = "prune"
    /\ IF Files = {}
       THEN ui' = "exists" /\ UNCHANGED oldest
       ELSE ui' = "evict" /\ oldest' \in Files /\ \A s \in Files : oldest' <= s
    /\ UNCHANGED <<brews, short, pending, existed, lost, drift>> /\ SaveFrame

PruneEvicts ==
    /\ ui = "evict" /\ ui' = "exists" /\ oldest' = 0
    /\ oldest \in Files
    /\ brews' = [brews EXCEPT ![oldest] = 0] /\ short' = short \ {oldest}
    /\ pending' = IF pending > 0 THEN pending - 1 ELSE pending
    /\ lost' = lost \cup {oldest} /\ Drifts(upload.at = "store")
    /\ UNCHANGED existed /\ SaveFrame

PruneFails ==
    /\ ui = "evict" /\ ui' = "exists" /\ oldest' = 0
    /\ Drifts(oldest \in Files)
    /\ UNCHANGED <<brews, short, pending, existed, lost>> /\ SaveFrame

(* exists(), then open() for writing: a file that is new is there from now  *)
(* on, without its record; an old one keeps its record until it is closed.  *)
Exists ==
    /\ ui = "exists" /\ ui' = "open"
    /\ existed' = (session_id_ \in Files)
    /\ UNCHANGED <<brews, short, pending, oldest, lost, drift>> /\ SaveFrame

Opens ==
    /\ ui = "open" /\ ui' = "close"
    /\ short' = short \cup ({session_id_} \ Files)
    /\ Drifts(existed /\ session_id_ \notin Files)
    /\ UNCHANGED <<brews, pending, oldest, existed, lost>> /\ SaveFrame

OpenFails ==
    /\ ui = "open" /\ ui' = "clear"
    /\ lost' = lost \cup {session_id_}
    /\ UNCHANGED <<queue, drift>> /\ SaveFrame

Sending(s) == upload.session = s /\ upload.at \in {"asked", "remove"}

WriteFrame ==
    /\ brews' = [brews EXCEPT ![session_id_] = answers] /\ short' = short \ {session_id_}
    /\ lost' = IF Sending(session_id_) THEN lost \cup {session_id_} ELSE lost \ {session_id_}
    /\ UNCHANGED <<oldest, existed>> /\ SaveFrame

(* A plausible bug: an overwritten file counted again.                     *)
WriteCountsAlways ==
    /\ ui = "close" /\ ui' = "clear"
    /\ pending' = pending + 1 /\ Drifts(upload.at = "store")
    /\ WriteFrame

(* write() and close(), and a file that was not there is counted.          *)
WriteCloses ==
    /\ ui = "close" /\ ui' = "clear"
    /\ IF existed THEN UNCHANGED <<pending, drift>>
       ELSE pending' = pending + 1 /\ Drifts(upload.at = "store")
    /\ WriteFrame

(* A record that was not written whole: its file is removed, uncounted.     *)
WriteFails ==
    /\ ui = "close" /\ ui' = "discard"
    /\ brews' = [brews EXCEPT ![session_id_] = 0] /\ short' = short \cup {session_id_}
    /\ lost' = lost \cup {session_id_}
    /\ UNCHANGED <<pending, oldest, existed, drift>> /\ SaveFrame

Discard ==
    /\ ui = "discard" /\ ui' = "clear"
    /\ short' \in {short, short \ {session_id_}}
    /\ Drifts(session_id_ \in short /\ (existed <=> session_id_ \notin short'))
    /\ UNCHANGED <<brews, pending, oldest, existed, lost>> /\ SaveFrame

Clear ==
    /\ ui = "clear" /\ ui' = "idle"
    /\ screen' = "READY" /\ OnStateChanged("READY")
    /\ owed' = None /\ put_off' = FALSE /\ existed' = FALSE
    /\ UNCHANGED <<brews, short, pending, oldest, answers, given, lost, drift>> /\ AnswerFrame

-----------------------------------------------------------------------------
(* The cloud run: step_brew_upload().                                      *)

RemovalFrame ==
    UNCHANGED <<nvs, screen, ui, last_started_session_id, entry, oldest, existed, answers,
                resets, given, lost, owed, put_off>>

CloudFrame == RemovalFrame /\ UNCHANGED drift

(* read_next() removes a file without a whole record.                      *)
UploadReads ==
    /\ upload = Idle /\ ~Booting
    /\ \E s \in Files :
          upload' = [at |-> IF s \in short THEN "remove" ELSE "asked",
                     session |-> s, answer |-> brews[s], loaded |-> 0]
    /\ UNCHANGED <<brews, short, pending, server>> /\ CloudFrame

(* The server takes the record, also where it drops it for a session that   *)
(* was deleted, and says so or is not heard; or it does not know the        *)
(* session, or is not reached.                                             *)
UploadAnswered ==
    /\ upload.at = "asked"
    /\ \/ /\ server' = [server EXCEPT ![upload.session] = upload.answer]
          /\ upload' \in {[upload EXCEPT !.at = "remove"], Idle}
       \/ upload' = Idle /\ UNCHANGED server
    /\ UNCHANGED <<brews, short, pending>> /\ CloudFrame

(* remove(): the file, unless it is gone or the UI has it open; then the    *)
(* count is loaded, and stored.                                            *)
UploadRemoves ==
    /\ upload.at = "remove"
    /\ upload.session \in Files /\ ~(ui = "close" /\ upload.session = session_id_)
    /\ brews' = [brews EXCEPT ![upload.session] = 0] /\ short' = short \ {upload.session}
    /\ upload' = [upload EXCEPT !.at = "count"]
    /\ Drifts(ui = "discard" /\ upload.session = session_id_ /\ ~existed)
    /\ UNCHANGED <<pending, server>> /\ RemovalFrame

RemoveFails ==
    /\ upload.at = "remove" /\ upload' = Idle
    /\ UNCHANGED <<brews, short, pending, server>> /\ CloudFrame

UploadLoads ==
    /\ upload.at = "count"
    /\ upload' = IF pending > 0 THEN [upload EXCEPT !.at = "store", !.loaded = pending] ELSE Idle
    /\ UNCHANGED <<brews, short, pending, server>> /\ CloudFrame

UploadStores ==
    /\ upload.at = "store" /\ upload' = Idle
    /\ pending' = upload.loaded - 1
    /\ UNCHANGED <<brews, short, server>> /\ CloudFrame

-----------------------------------------------------------------------------
(* Resets.                                                                 *)

Reset ==
    /\ resets < MaxResets /\ resets' = resets + 1
    /\ ui' = "boot" /\ screen' = "READY" /\ last_started_session_id' = 0
    /\ pending_' = FALSE /\ session_id_' = 0 /\ settled_session_id_' = 0
    /\ step_' = "YIELD" /\ presented_' = FALSE
    /\ pending' = 0 /\ oldest' = 0 /\ existed' = FALSE /\ upload' = Idle
    /\ owed' = IF AtPrompt THEN [session |-> session_id_, step |-> step_]
               ELSE IF presented_ THEN None ELSE owed
    /\ drift' = IF drift = "now" THEN "before" ELSE drift
    /\ UNCHANGED <<nvs, brews, short, server, answers, given, lost, put_off>>

(* A plausible bug: boot's own switch to READY wipes the stored prompt.    *)
BootWipes ==
    /\ ui = "boot" /\ ui' = "restore"
    /\ pending' = Cardinality(Files) /\ stored' = None
    /\ UNCHANGED <<next_session_id, screen, last_started_session_id, entry, brews, short, oldest,
                   existed, cloud, answers, resets, history>>

(* BrewLog::init() counts the files; ui_manager.init() switches to READY.  *)
Boot ==
    /\ ui = "boot" /\ ui' = "restore"
    /\ pending' = Cardinality(Files) /\ OnStateChanged("READY")
    /\ UNCHANGED <<next_session_id, screen, last_started_session_id, pending_, session_id_,
                   settled_session_id_, step_, brews, short, oldest, existed, cloud, answers,
                   resets, history>>

(* restore_entry(), unless the power was off, the prompt has expired, the  *)
(* bean is gone, or nothing is stored.                                     *)
Restore ==
    /\ ui = "restore" /\ ui' = "idle"
    /\ stored # None
    /\ session_id_' = stored.session /\ settled_session_id_' = stored.session
    /\ pending_' = FALSE /\ step_' = stored.step
    /\ presented_' = TRUE /\ screen' = "BREW_ENTRY"
    /\ UNCHANGED <<nvs, last_started_session_id, queue, cloud, answers, resets, history>>

NotRestored ==
    /\ ui = "restore" /\ ui' = "idle"
    /\ stored' = None /\ put_off' = FALSE
    /\ owed' = None
    /\ given' = Dropped(stored.session)
    /\ UNCHANGED <<next_session_id, screen, last_started_session_id, entry, queue, cloud,
                   answers, resets, lost, drift>>

(* After a failed update, or without a calibration, the boot shows another  *)
(* screen and passes over the stored prompt; so it does over a record that *)
(* does not load.                                                          *)
RestoreSkipped ==
    /\ ui = "restore" /\ ui' = "idle"
    /\ screen' \in {"OTHER", "READY"}
    /\ put_off' = (stored # None)
    /\ UNCHANGED <<nvs, last_started_session_id, entry, queue, cloud, answers, resets, given,
                   lost, owed, drift>>

OtherLeft ==
    /\ ui = "idle" /\ screen = "OTHER"
    /\ Leave("READY")
    /\ UNCHANGED <<next_session_id, ui, last_started_session_id, pending_, session_id_,
                   settled_session_id_, step_, queue, cloud, answers, resets, lost, drift>>

Next ==
    \/ GrindStarts \/ GrindCancelled \/ GrindEndsUnseen \/ Completed \/ Stopped \/ Present
    \/ Advance \/ Unanswered \/ Finish \/ PruneLists \/ PruneEvicts \/ PruneFails
    \/ Exists \/ Opens \/ OpenFails \/ WriteCloses \/ WriteFails \/ Discard \/ Clear
    \/ UploadReads \/ UploadAnswered \/ UploadRemoves \/ RemoveFails
    \/ UploadLoads \/ UploadStores
    \/ Reset \/ Boot \/ Restore \/ NotRestored \/ RestoreSkipped \/ OtherLeft

Spec == Init /\ [][Next]_vars

-----------------------------------------------------------------------------
Saving == {"prune", "evict", "exists", "open", "close", "discard", "clear"}

TypeOK ==
    /\ stored \in Records \cup {None} /\ owed \in Records \cup {None}
    /\ brews \in [Sessions -> 0 .. MaxAnswers] /\ server \in [Sessions -> 0 .. MaxAnswers]
    /\ given \in [Sessions -> 0 .. MaxAnswers]
    /\ lost \subseteq Sessions /\ short \subseteq Sessions
    /\ next_session_id \in 1 .. MaxGrinds + 1
    /\ last_started_session_id \in 0 .. MaxGrinds /\ session_id_ \in 0 .. MaxGrinds
    /\ settled_session_id_ \in 0 .. MaxGrinds
    /\ screen \in {"READY", "GRINDING", "GRIND_COMPLETE", "BREW_ENTRY", "OTHER"}
    /\ ui \in {"idle", "present", "boot", "restore"} \cup Saving
    /\ pending_ \in BOOLEAN /\ presented_ \in BOOLEAN /\ step_ \in Steps
    /\ pending \in Nat /\ oldest \in 0 .. MaxGrinds /\ existed \in BOOLEAN
    /\ upload \in [at : {"idle", "asked", "remove", "count", "store"}, session : 0 .. MaxGrinds,
                   answer : 0 .. MaxAnswers, loaded : Nat]
    /\ answers \in 0 .. MaxAnswers /\ resets \in 0 .. MaxResets
    /\ put_off \in BOOLEAN /\ drift \in {"never", "before", "now"}

(* The last answer given for a shot is on its way, at the server, or will   *)
(* be asked for again: no reset, upload or eviction between two steps of    *)
(* finish() loses it.  It is lost where the code says so, evicted for       *)
(* newer ones or not written, and where it is written while the uploader    *)
(* holds an older answer to the same shot, or its file was seen without a   *)
(* record, and removes what it finds.                                      *)
AnswerKept ==
    \A s \in Sessions : given[s] # 0 =>
        given[s] \in {brews[s], server[s]} \/ s \in lost \/ stored.session = s

(* A prompt that a reset took off the screen is back on it when the boot   *)
(* is over, with its session and step, unless the boot retired it; one     *)
(* that boots have passed over is still stored.                            *)
PromptRescued ==
    ~Booting /\ owed # None =>
        /\ stored = owed
        /\ IF screen = "BREW_ENTRY" THEN [session |-> session_id_, step |-> step_] = owed
           ELSE put_off

(* The shot log on screen is that of the last grind, restored or not,       *)
(* unless a boot has passed over the stored prompt since.                  *)
PromptOfLastGrind ==
    screen = "BREW_ENTRY" /\ ~put_off => session_id_ = next_session_id - 1

(* As long as no answer has been queued into a removal that is being        *)
(* counted, over a file that goes meanwhile or in vain, the queue stays     *)
(* within its limit, and while nobody is at work on it the count that       *)
(* decides whether a window is wanted is the number of files.  A boot       *)
(* counts them anew.                                                       *)
CountsFiles ==
    /\ drift = "never" => Cardinality(Files) <= BREW_QUEUE_MAX_FILES
    /\ drift # "now" /\ ui \notin {"boot", "close", "discard"}
       /\ upload.at \notin {"count", "store"} => pending = Cardinality(Files)

-----------------------------------------------------------------------------
(* The invariant behind them, inductive: who holds the prompt, what an     *)
(* answer under way and an upload under way have already left behind.      *)

Last == next_session_id - 1

\* the prompt has one home: the screen, the step before it, a boot, or a
\* record that boots pass over
PromptInv ==
    /\ presented_ <=> screen = "BREW_ENTRY"
    /\ stored # None => presented_ \/ ui = "present" \/ Booting \/ put_off
    /\ ui = "present" => screen = "GRIND_COMPLETE" /\ ~put_off
    /\ ui \in Saving => presented_ /\ step_ = "TIME"
    /\ Booting => screen = "READY"
    /\ presented_ \/ ui = "present" =>
          /\ stored # None /\ stored = [session |-> session_id_, step |-> step_]
          /\ settled_session_id_ = session_id_
    /\ stored # None => stored.session <= Last /\ (put_off \/ stored.session = Last)
    /\ pending_ => /\ screen = "GRIND_COMPLETE" /\ session_id_ = Last
                   /\ last_started_session_id # 0 /\ settled_session_id_ # Last
    /\ ui = "present" => ~pending_
    /\ last_started_session_id \in {0, Last} /\ settled_session_id_ <= Last

OwedInv ==
    owed # None =>
        /\ stored = owed
        /\ IF presented_ THEN [session |-> session_id_, step |-> step_] = owed
           ELSE Booting \/ put_off

\* a queued answer is the last one given, and no older than what was sent;
\* what the uploader has read is still what it sends and removes
AnswerInv ==
    /\ ui \in Saving => given[session_id_] = answers /\ answers # 0
    /\ ui = "clear" =>
          \/ brews[session_id_] = answers \/ session_id_ \in lost
          \/ brews[session_id_] = 0 /\ server[session_id_] = answers
    /\ ui = "discard" => session_id_ \in lost
    /\ \A s \in Sessions :
          /\ brews[s] <= answers /\ server[s] <= answers /\ given[s] <= answers
          /\ s \in short => brews[s] = 0
          /\ brews[s] # 0 => /\ given[s] = 0 \/ brews[s] <= given[s]
                             /\ server[s] <= brews[s] \/ s \in lost
                             /\ given[s] \in {0, brews[s]} \/ s \in lost \/ stored.session = s
    /\ upload.at \in {"asked", "remove"} =>
          /\ upload.session \in Sessions
          /\ brews[upload.session] = upload.answer \/ upload.session \in lost
    /\ upload.at = "asked" => upload.answer # 0 /\ upload.answer <= answers
    /\ upload.at = "remove" => upload.answer \in {0, server[upload.session]}

\* what the count owes: a removal not yet counted, a new file not yet counted
CountInv ==
    /\ Booting => upload = Idle
    /\ ui = "open" /\ session_id_ \in Files => existed
    /\ ui = "close" => session_id_ \in Files
    /\ ui = "discard" => /\ brews[session_id_] = 0
                         /\ drift # "now" /\ ~existed => session_id_ \in short
    /\ drift # "now" /\ ui # "boot" =>
          /\ pending = Cardinality(Files) + (IF upload.at \in {"count", "store"} THEN 1 ELSE 0)
                       - (IF ui \in {"close", "discard"} /\ ~existed THEN 1 ELSE 0)
          /\ upload.at = "store" => upload.loaded = pending
    /\ upload.at = "store" => upload.loaded > 0
    /\ drift = "never" =>
          /\ Cardinality(Files) <= BREW_QUEUE_MAX_FILES
          /\ ui \in {"exists", "open"} \/ (ui = "evict" /\ oldest \notin Files)
                => Cardinality(Files) < BREW_QUEUE_MAX_FILES

BrewInv == TypeOK /\ PromptInv /\ OwedInv /\ AnswerInv /\ AnswerKept /\ CountInv
=============================================================================
