--------------------------- MODULE BrewEntryProofs ---------------------------
(***************************************************************************)
(* What a reset, an upload and the next grind leave of the shot log, for   *)
(* queues, grinds, answers and resets of any number.                       *)
(***************************************************************************)
EXTENDS BrewEntry, FiniteSetTheorems, TLAPS

(* An answer is dropped with its prompt only where nothing holds it.        *)
LEMMA DroppedFacts ==
  ASSUME TypeOK, NEW d
  PROVE  /\ Dropped(d) \in [Sessions -> 0 .. MaxAnswers]
         /\ \A s \in Sessions :
               /\ Dropped(d)[s] \in {0, given[s]}
               /\ s = d /\ Dropped(d)[s] # 0 => Dropped(d)[s] \in {brews[s], server[s]}
<1>1. CASE d \in Sessions /\ given[d] \notin {brews[d], server[d]}
  <2>1. Dropped(d) = [given EXCEPT ![d] = 0]
    BY <1>1 DEF Dropped
  <2> QED BY <1>1, <2>1, BrewAssumption DEF TypeOK
<1>2. CASE ~(d \in Sessions /\ given[d] \notin {brews[d], server[d]})
  <2>1. Dropped(d) = given
    BY <1>2 DEF Dropped
  <2> QED BY <1>2, <2>1 DEF TypeOK
<1> QED BY <1>1, <1>2

(* on_state_changed() on the way out: with a prompt on screen nothing is   *)
(* stored any more, and an answer that is not yet queued goes with it;     *)
(* without one the stored prompt stays as it is.                           *)
LEMMA LeaveFacts ==
  ASSUME TypeOK, PromptInv, ui = "idle", NEW new, new # "BREW_ENTRY", Leave(new)
  PROVE  /\ screen' = new /\ ~presented_' /\ presented_' \in BOOLEAN
         /\ \/ presented_ /\ stored' = None /\ owed' = None /\ ~put_off'
            \/ ~presented_ /\ UNCHANGED <<stored, owed, put_off>>
         /\ put_off' \in BOOLEAN
         /\ given' \in [Sessions -> 0 .. MaxAnswers]
         /\ \A s \in Sessions : given'[s] \in {0, given[s]}
         /\ presented_ => \A s \in Sessions :
               stored.session = s /\ given'[s] # 0 => given'[s] \in {brews[s], server[s]}
<1> USE BrewAssumption DEF TypeOK, PromptInv, Leave, OnStateChanged
<1>1. CASE presented_
  <2>1. stored.session = session_id_
    BY <1>1
  <2>2. given' = Dropped(session_id_)
    BY <1>1
  <2>3. /\ given' \in [Sessions -> 0 .. MaxAnswers]
        /\ \A s \in Sessions : given'[s] \in {0, given[s]}
        /\ session_id_ \in Sessions /\ given'[session_id_] # 0
              => given'[session_id_] \in {brews[session_id_], server[session_id_]}
    BY <2>2, DroppedFacts
  <2>4. /\ screen' = new /\ presented_' = FALSE /\ stored' = None /\ owed' = None
        /\ put_off' = FALSE
    BY <1>1
  <2> QED BY <1>1, <2>1, <2>3, <2>4
<1>2. CASE ~presented_
  BY <1>2
<1> QED BY <1>1, <1>2

LEMMA PromptStep ==
  ASSUME TypeOK, PromptInv, OwedInv, [Next]_vars
  PROVE  PromptInv' /\ OwedInv'
<1>t. /\ next_session_id \in Nat \ {0} /\ session_id_ \in Nat /\ settled_session_id_ \in Nat
      /\ step_ \in Steps /\ put_off \in BOOLEAN
  BY BrewAssumption DEF TypeOK
<1>r. stored # None => stored.session \in Nat \ {0}
  BY BrewAssumption DEF TypeOK, Records, Sessions
<1>n. \A i \in Nat \ {0}, st \in Steps : [session |-> i, step |-> st] # None
  BY DEF None
<1> USE <1>t, <1>r DEF PromptInv, OwedInv, Last, Booting, AtPrompt, Saving
<1> USE DEF nvs, entry, queue, cloud, history, AnswerFrame, SaveFrame, RemovalFrame, CloudFrame
<1>a. CASE /\ UNCHANGED <<nvs, screen, last_started_session_id, entry, owed, put_off>>
           /\ ui' = ui \/ {ui, ui'} \subseteq Saving
  BY <1>a
<1>1. CASE GrindStarts
  <2>1. /\ ~presented_' /\ screen' = "GRINDING"
        /\ \/ presented_ /\ stored' = None /\ owed' = None /\ ~put_off'
           \/ ~presented_ /\ UNCHANGED <<stored, owed, put_off>>
    BY <1>1, LeaveFacts DEF GrindStarts
  <2>2. ~pending_' /\ settled_session_id_' \in {settled_session_id_, session_id_}
        /\ (settled_session_id_' = session_id_ => pending_ \/ settled_session_id_ = session_id_)
    BY <1>1 DEF GrindStarts
  <2> QED BY <1>1, <2>1, <2>2 DEF GrindStarts
<1>2. CASE GrindCancelled
  BY <1>2, LeaveFacts DEF GrindCancelled
<1>3. CASE GrindEndsUnseen
  BY <1>3, LeaveFacts DEF GrindEndsUnseen
<1>4. CASE Completed
  BY <1>4 DEF Completed, Arm, OnStateChanged
<1>5. CASE Stopped
  <2>1. CASE pending_
    <3>1. stored' = [session |-> Last, step |-> "YIELD"] /\ session_id_' = Last /\ step_' = "YIELD"
      BY <1>5, <2>1 DEF Stopped
    <3>2. stored'.session = Last /\ stored' # None
      BY <1>5, <2>1, <3>1, <1>n DEF Steps, Stopped
    <3> QED BY <1>5, <2>1, <3>1, <3>2 DEF Stopped
  <2>2. CASE ~pending_
    BY <1>5, <2>2, LeaveFacts DEF Stopped
  <2> QED BY <2>1, <2>2
<1>6. CASE Present
  BY <1>6 DEF Present
<1>7. CASE Advance
  <2>1. stored' = [session |-> session_id_, step |-> "TIME"] /\ session_id_ \in Nat \ {0}
    BY <1>7 DEF Advance
  <2>2. stored'.session = session_id_ /\ stored' # None
    BY <2>1, <1>n DEF Steps
  <2> QED BY <1>7, <2>1, <2>2 DEF Advance
<1>8. CASE Unanswered
  <2>1. ~presented_' /\ stored' = None /\ owed' = None /\ screen' = "READY" /\ ~put_off'
    BY <1>8, LeaveFacts DEF Unanswered
  <2> QED BY <1>8, <2>1 DEF Unanswered
<1>9. CASE Finish
  BY <1>9 DEF Finish, FirstStep
<1>10. CASE PruneLists \/ PruneEvicts \/ PruneFails
  BY <1>10, <1>a DEF PruneLists, PruneEvicts, PruneFails
<1>11. CASE Exists \/ Opens \/ OpenFails \/ WriteCloses \/ WriteFails \/ Discard
  BY <1>11, <1>a DEF Exists, Opens, OpenFails, WriteCloses, WriteFails, Discard, WriteFrame
<1>12. CASE Clear
  BY <1>12 DEF Clear, OnStateChanged
<1>13. CASE UploadReads \/ UploadAnswered \/ UploadRemoves \/ RemoveFails \/ UploadLoads
  <2>1. UNCHANGED <<nvs, screen, ui, last_started_session_id, entry, owed, put_off>>
    BY <1>13 DEF UploadReads, UploadAnswered, UploadRemoves, RemoveFails, UploadLoads
  <2> QED BY <2>1, <1>a
<1>14. CASE UploadStores
  BY <1>14, <1>a DEF UploadStores
<1>16. CASE Reset
  BY <1>16 DEF Reset
<1>17. CASE Boot
  BY <1>17 DEF Boot, OnStateChanged
<1>18. CASE Restore
  <2>1. stored \in Records
    BY <1>18 DEF Restore, TypeOK
  <2>2. stored = [session |-> stored.session, step |-> stored.step] /\ stored.step \in Steps
    BY <2>1 DEF Records
  <2>3. [session |-> session_id_', step |-> step_'] = stored
    BY <1>18, <2>2 DEF Restore
  <2> QED BY <1>18, <2>3 DEF Restore
<1>19. CASE NotRestored
  BY <1>19 DEF NotRestored
<1>20. CASE RestoreSkipped
  BY <1>20 DEF RestoreSkipped
<1>21. CASE OtherLeft
  BY <1>21, LeaveFacts DEF OtherLeft
<1>22. CASE UNCHANGED vars
  BY <1>22, <1>a DEF vars
<1> QED
  BY <1>1, <1>2, <1>3, <1>4, <1>5, <1>6, <1>7, <1>8, <1>9, <1>10, <1>11, <1>12, <1>13,
     <1>14, <1>16, <1>17, <1>18, <1>19, <1>20, <1>21, <1>22 DEF Next

(* An answer is queued, sent, lost or about to be asked for again.         *)
LEMMA AnswerStep ==
  ASSUME TypeOK, PromptInv, AnswerInv, AnswerKept, [Next]_vars
  PROVE  AnswerInv' /\ AnswerKept'
<1>v. \A s \in Sessions : s \in Nat \ {0}
  BY BrewAssumption DEF Sessions
<1>t. /\ next_session_id \in Nat \ {0} /\ session_id_ \in Nat /\ answers \in Nat
      /\ brews \in [Sessions -> 0 .. MaxAnswers] /\ given \in [Sessions -> 0 .. MaxAnswers]
      /\ server \in [Sessions -> 0 .. MaxAnswers]
      /\ lost \subseteq Sessions /\ short \subseteq Sessions
      /\ upload \in [at : {"idle", "asked", "remove", "count", "store"}, session : 0 .. MaxGrinds,
                     answer : 0 .. MaxAnswers, loaded : Nat]
  BY BrewAssumption DEF TypeOK
<1>s. stored \in Records \cup {None}
  BY DEF TypeOK
<1>r. stored \in Records => stored.session \in Sessions
  BY DEF Records
<1>u. ui \in Saving \/ ui = "present" \/ presented_ =>
          session_id_ \in Sessions /\ stored.session = session_id_
  BY <1>s, <1>r DEF PromptInv
<1> USE <1>t, <1>u, <1>v DEF AnswerInv, AnswerKept, Saving
<1> USE DEF nvs, entry, queue, cloud, history, AnswerFrame, SaveFrame, RemovalFrame, CloudFrame
<1> DEFINE Left ==
      /\ UNCHANGED <<queue, cloud, answers, lost>> /\ ui' \notin Saving
      /\ given' \in [Sessions -> 0 .. MaxAnswers]
      /\ \A s \in Sessions :
            /\ given'[s] \in {0, given[s]}
            /\ stored'.session # s /\ stored.session = s /\ given'[s] # 0
                  => given'[s] \in {brews[s], server[s]}
<1>0. CASE Left
  <2>1. \A s \in Sessions :
           stored.session = s /\ stored'.session # s => given'[s] \in {0, brews[s], server[s]}
    BY <1>0
  <2>2. \A s \in Sessions : given'[s] # 0 /\ s \notin lost /\ stored'.session # s =>
           given'[s] \in {brews[s], server[s]}
    BY <1>0, <2>1
  <2>3. \A s \in Sessions : brews[s] # 0 /\ s \notin lost /\ stored'.session # s =>
           given'[s] \in {0, brews[s]}
    <3> SUFFICES ASSUME NEW s \in Sessions, brews[s] # 0, s \notin lost, stored'.session # s,
                        given'[s] # 0
                 PROVE  given'[s] = brews[s]
      OBVIOUS
    <3>1. given'[s] = given[s] /\ brews[s] \in Nat /\ server[s] \in Nat /\ given[s] \in Nat
      BY <1>0
    <3>2. brews[s] <= given[s] /\ server[s] <= brews[s]
      BY <3>1
    <3> QED BY <3>1, <3>2, <2>2
  <2>4. UNCHANGED <<brews, short, upload, server, answers, lost>>
    BY <1>0
  <2>5. \A s \in Sessions : given'[s] <= answers /\ (given'[s] = 0 \/ given'[s] = given[s])
    BY <1>0
  <2> QED BY <1>0, <2>2, <2>3, <2>4, <2>5
<1> HIDE DEF Left
<1>e. ASSUME NEW new, new # "BREW_ENTRY", ui = "idle", Leave(new)
      PROVE  /\ given' \in [Sessions -> 0 .. MaxAnswers]
             /\ \A s \in Sessions :
                   /\ given'[s] \in {0, given[s]}
                   /\ stored'.session # s /\ stored.session = s /\ given'[s] # 0
                         => given'[s] \in {brews[s], server[s]}
  BY <1>e, LeaveFacts
<1>1. CASE GrindStarts
  <2>1. Left
    BY <1>1, <1>e DEF GrindStarts, Left
  <2> QED BY <2>1, <1>0
<1>2. CASE GrindCancelled
  <2>1. Left
    BY <1>2, <1>e DEF GrindCancelled, Left
  <2> QED BY <2>1, <1>0
<1>3. CASE GrindEndsUnseen
  <2>1. Left
    BY <1>3, <1>e DEF GrindEndsUnseen, Left
  <2> QED BY <2>1, <1>0
<1>4. CASE Completed
  <2>1. stored' = stored \/ presented_
    BY <1>4 DEF Completed, OnStateChanged
  <2>2. ~presented_
    BY <1>4 DEF Completed, PromptInv
  <2> QED BY <1>4, <2>1, <2>2 DEF Completed
<1>5. CASE Stopped
  <2>1. CASE pending_
    <3>1. given' = Dropped(stored.session) /\ UNCHANGED <<queue, cloud, answers, lost>>
          /\ ui' = "present"
      BY <1>5, <2>1 DEF Stopped
    <3>2. /\ given' \in [Sessions -> 0 .. MaxAnswers]
          /\ \A s \in Sessions : given'[s] \in {0, given[s]}
          /\ \A s \in Sessions : s = stored.session /\ given'[s] # 0
                => given'[s] \in {brews[s], server[s]}
      BY <3>1, DroppedFacts
    <3>3. Left
      BY <3>1, <3>2 DEF Left
    <3> QED BY <3>3, <1>0
  <2>2. CASE ~pending_
    <3>1. Left
      BY <1>5, <2>2, <1>e DEF Stopped, Left
    <3> QED BY <3>1, <1>0
  <2> QED BY <2>1, <2>2
<1>6. CASE Present
  BY <1>6 DEF Present
<1>7. CASE Advance
  BY <1>7 DEF Advance, AtPrompt, PromptInv
<1>8. CASE Unanswered
  <2>1. Left
    BY <1>8, <1>e DEF Unanswered, AtPrompt, Left
  <2> QED BY <2>1, <1>0
<1>9. CASE Finish
  <2>1. session_id_ \in Sessions /\ stored.session = session_id_
    BY <1>9 DEF Finish, AtPrompt, PromptInv
  <2>2. /\ answers' = answers + 1 /\ given' = [given EXCEPT ![session_id_] = answers + 1]
        /\ UNCHANGED <<brews, short, server, upload, lost, stored, session_id_>>
        /\ ui' \in {"prune", "exists"}
    BY <1>9 DEF Finish, FirstStep
  <2>3. \A s \in Sessions : given'[s] = IF s = session_id_ THEN answers + 1 ELSE given[s]
    BY <2>1, <2>2
  <2>4. \A s \in Sessions :
           brews[s] \in Nat /\ server[s] \in Nat /\ given[s] \in Nat
    OBVIOUS
  <2> QED BY <2>1, <2>2, <2>3, <2>4
<1>10. CASE PruneLists \/ PruneFails \/ Exists \/ OpenFails
  <2>1. /\ UNCHANGED <<brews, short, server, upload, given, answers, stored, session_id_>>
        /\ ui' \in {"exists", "evict", "open", "clear"} /\ ui \in Saving
        /\ lost \subseteq lost'
        /\ ui' = "clear" => session_id_ \in lost'
    BY <1>10 DEF PruneLists, PruneFails, Exists, OpenFails
  <2> QED BY <2>1
<1>11. CASE PruneEvicts
  <2>1. /\ brews' = [brews EXCEPT ![oldest] = 0] /\ short' = short \ {oldest}
        /\ lost' = lost \cup {oldest} /\ ui' = "exists" /\ ui \in Saving
        /\ UNCHANGED <<server, upload, given, answers, stored, session_id_>>
    BY <1>11 DEF PruneEvicts
  <2>2. \A s \in Sessions : brews'[s] = IF s = oldest THEN 0 ELSE brews[s]
    BY <2>1
  <2> QED BY <2>1, <2>2
<1>12. CASE Opens
  <2>1. /\ short' = short \cup ({session_id_} \ Files) /\ ui' = "close" /\ ui \in Saving
        /\ UNCHANGED <<brews, server, upload, given, answers, lost, stored, session_id_>>
    BY <1>12 DEF Opens
  <2>2. session_id_ \notin Files => brews[session_id_] = 0
    BY <2>1 DEF Files
  <2> QED BY <2>1, <2>2
<1>13. CASE WriteCloses
  <2>1. /\ brews' = [brews EXCEPT ![session_id_] = answers] /\ short' = short \ {session_id_}
        /\ lost' = IF Sending(session_id_) THEN lost \cup {session_id_}
                   ELSE lost \ {session_id_}
        /\ ui' = "clear" /\ ui \in Saving
        /\ UNCHANGED <<server, upload, given, answers, stored, session_id_>>
    BY <1>13 DEF WriteCloses, WriteFrame
  <2>2. \A s \in Sessions : brews'[s] = IF s = session_id_ THEN answers ELSE brews[s]
    BY <2>1
  <2>3. \A s \in Sessions : brews[s] \in Nat /\ server[s] \in Nat /\ given[s] \in Nat
    OBVIOUS
  <2>4. session_id_ \in Sessions /\ stored.session = session_id_
        /\ given[session_id_] = answers /\ answers # 0
    BY <2>1
  <2> QED BY <2>1, <2>2, <2>3, <2>4 DEF Sending
<1>14. CASE WriteFails
  <2>1. /\ brews' = [brews EXCEPT ![session_id_] = 0] /\ short' = short \cup {session_id_}
        /\ lost' = lost \cup {session_id_} /\ ui' = "discard" /\ ui \in Saving
        /\ UNCHANGED <<server, upload, given, answers, stored, session_id_>>
    BY <1>14 DEF WriteFails
  <2>2. \A s \in Sessions : brews'[s] = IF s = session_id_ THEN 0 ELSE brews[s]
    BY <2>1
  <2> QED BY <2>1, <2>2
<1>15. CASE Discard
  <2>1. /\ short' \subseteq short /\ ui' = "clear" /\ ui = "discard"
        /\ UNCHANGED <<brews, server, upload, given, answers, lost, stored, session_id_>>
    BY <1>15 DEF Discard
  <2> QED BY <2>1
<1>16. CASE Clear
  <2>1. /\ UNCHANGED <<upload, server, brews, short, given, answers, lost>> /\ ui' = "idle"
        /\ stored.session = session_id_ /\ session_id_ \in Sessions
    BY <1>16 DEF Clear
  <2>2. given[session_id_] = answers
    BY <1>16 DEF Clear
  <2>3. given'[session_id_] \in {brews[session_id_], server[session_id_]}
        \/ session_id_ \in lost
    BY <1>16, <2>1, <2>2 DEF Clear
  <2>4. stored' = stored \/ stored' = None
    BY <1>16 DEF Clear, OnStateChanged
  <2>5. \A s \in Sessions : s # session_id_ => stored.session # s
    BY <2>1
  <2>6. brews[session_id_] # 0 => given[session_id_] = brews[session_id_] \/ session_id_ \in lost
    BY <1>16, <2>1, <2>2 DEF Clear
  <2> QED BY <2>1, <2>3, <2>4, <2>5, <2>6
<1>17. CASE UploadReads
  <2>1. PICK s \in Files :
           upload' = [at |-> IF s \in short THEN "remove" ELSE "asked",
                      session |-> s, answer |-> brews[s], loaded |-> 0]
    BY <1>17 DEF UploadReads
  <2>2. /\ s \in Sessions /\ upload'.session = s /\ upload'.answer = brews[s]
        /\ upload'.at = IF s \in short THEN "remove" ELSE "asked"
        /\ s \notin short => brews[s] # 0
    BY <2>1 DEF Files
  <2>3. UNCHANGED <<ui, brews, short, server, given, answers, lost, stored, session_id_>>
    BY <1>17 DEF UploadReads
  <2> QED BY <2>2, <2>3
<1>18. CASE UploadAnswered
  <2>1. /\ upload.at = "asked" /\ upload.session \in Sessions
        /\ upload.answer # 0 /\ upload.answer <= answers /\ upload.answer \in Nat
        /\ brews[upload.session] = upload.answer \/ upload.session \in lost
    BY <1>18 DEF UploadAnswered
  <2>2. UNCHANGED <<brews, short, given, answers, lost, ui, stored, session_id_>>
    BY <1>18 DEF UploadAnswered
  <2>3. CASE UNCHANGED server /\ upload' = Idle
    BY <2>2, <2>3 DEF Idle
  <2>4. CASE /\ server' = [server EXCEPT ![upload.session] = upload.answer]
             /\ upload' \in {[upload EXCEPT !.at = "remove"], Idle}
    <3>2. \A s \in Sessions :
             server'[s] = IF s = upload.session THEN upload.answer ELSE server[s]
      BY <2>4, <2>1
    <3>3. \/ upload'.at = "remove" /\ upload'.session = upload.session
             /\ upload'.answer = upload.answer
          \/ upload'.at = "idle"
      BY <2>4 DEF Idle
    <3>g. ui = "clear" => session_id_ \in Sessions /\ given[session_id_] = answers
      BY <1>u
    <3>4. (ui = "clear" =>
             \/ brews[session_id_] = answers \/ session_id_ \in lost
             \/ brews[session_id_] = 0 /\ server[session_id_] = answers)'
      BY <2>1, <2>2, <3>2, <3>g
    <3>5. (\A s \in Sessions :
             /\ brews[s] <= answers /\ server[s] <= answers /\ given[s] <= answers
             /\ s \in short => brews[s] = 0
             /\ brews[s] # 0 => /\ given[s] = 0 \/ brews[s] <= given[s]
                                /\ server[s] <= brews[s] \/ s \in lost
                                /\ given[s] \in {0, brews[s]} \/ s \in lost
                                   \/ stored.session = s)'
      BY <2>1, <2>2, <3>2
    <3>6. AnswerKept'
      BY <2>1, <2>2, <3>2
    <3>7. (ui \in Saving => given[session_id_] = answers /\ answers # 0)'
      BY <2>2
    <3>8. (/\ upload.at \in {"asked", "remove"} =>
                 /\ upload.session \in Sessions
                 /\ brews[upload.session] = upload.answer \/ upload.session \in lost
           /\ upload.at = "asked" => upload.answer # 0 /\ upload.answer <= answers
           /\ upload.at = "remove" => upload.answer \in {0, server[upload.session]})'
      BY <2>1, <2>2, <3>2, <3>3
    <3>9. (ui = "discard" => session_id_ \in lost)'
      BY <2>2
    <3> HIDE DEF AnswerKept
    <3> QED BY <3>4, <3>5, <3>6, <3>7, <3>8, <3>9
  <2> QED BY <1>18, <2>3, <2>4 DEF UploadAnswered
<1>19. CASE UploadRemoves
  <2>1. /\ upload.at = "remove" /\ upload.session \in Sessions
        /\ brews' = [brews EXCEPT ![upload.session] = 0] /\ short' = short \ {upload.session}
        /\ upload' = [upload EXCEPT !.at = "count"]
        /\ UNCHANGED <<server, given, answers, lost, ui, stored, session_id_>>
    BY <1>19 DEF UploadRemoves, Files
  <2>2. \A s \in Sessions : brews'[s] = IF s = upload.session THEN 0 ELSE brews[s]
    BY <2>1
  <2>3. upload'.at = "count"
    BY <2>1
  <2>4. brews[upload.session] \in {0, server[upload.session]} \/ upload.session \in lost
    BY <2>1
  <2> QED BY <2>1, <2>2, <2>3, <2>4
<1>20. CASE RemoveFails \/ UploadLoads \/ UploadStores
  <2>1. UNCHANGED <<brews, short, server, given, answers, lost, ui, stored, session_id_>>
    BY <1>20 DEF RemoveFails, UploadLoads, UploadStores
  <2>2. upload' = Idle \/ upload' = [upload EXCEPT !.at = "store", !.loaded = pending]
    BY <1>20 DEF RemoveFails, UploadLoads, UploadStores
  <2>3. upload'.at \in {"idle", "store"}
    <3>1. CASE upload' = Idle
      BY <3>1 DEF Idle
    <3>2. CASE upload' = [upload EXCEPT !.at = "store", !.loaded = pending]
      BY <1>t, <3>2
    <3> QED BY <2>2, <3>1, <3>2
  <2> QED BY <2>1, <2>3
<1>21. CASE Reset
  BY <1>21 DEF Reset, Idle
<1>22. CASE Boot
  <2>1. stored' = stored
    BY <1>22 DEF Boot, OnStateChanged, PromptInv, Booting
  <2> QED BY <1>22, <2>1 DEF Boot
<1>23. CASE Restore \/ RestoreSkipped
  BY <1>23 DEF Restore, RestoreSkipped
<1>24. CASE NotRestored
  <2>1. /\ given' \in [Sessions -> 0 .. MaxAnswers]
        /\ \A s \in Sessions : given'[s] \in {0, given[s]}
        /\ \A s \in Sessions : s = stored.session /\ given'[s] # 0
              => given'[s] \in {brews[s], server[s]}
    BY <1>24, DroppedFacts DEF NotRestored
  <2>2. UNCHANGED <<queue, cloud, answers, lost>> /\ ui' = "idle"
    BY <1>24 DEF NotRestored
  <2>3. Left
    BY <2>1, <2>2 DEF Left
  <2> QED BY <2>3, <1>0
<1>25. CASE OtherLeft
  <2>1. Left
    BY <1>25, <1>e DEF OtherLeft, Left
  <2> QED BY <2>1, <1>0
<1>26. CASE UNCHANGED vars
  BY <1>26 DEF vars
<1> QED
  BY <1>1, <1>2, <1>3, <1>4, <1>5, <1>6, <1>7, <1>8, <1>9, <1>10, <1>11, <1>12, <1>13,
     <1>14, <1>15, <1>16, <1>17, <1>18, <1>19, <1>20, <1>21, <1>22, <1>23, <1>24, <1>25,
     <1>26 DEF Next

LEMMA FilesFinite ==
  ASSUME TypeOK
  PROVE  IsFiniteSet(Files) /\ Cardinality(Files) \in Nat
<1>1. IsFiniteSet(Sessions)
  BY BrewAssumption, FS_Interval DEF Sessions
<1>2. Files \subseteq Sessions
  BY DEF Files, TypeOK
<1>3. IsFiniteSet(Files)
  BY <1>1, <1>2, FS_Subset
<1> QED BY <1>3, FS_CardinalityType

(* BrewLog's count is the number of files, but for a removal or a new file  *)
(* that is not counted yet, until it drifts.                               *)
LEMMA CountStep ==
  ASSUME TypeOK, PromptInv, AnswerInv, CountInv, [Next]_vars
  PROVE  CountInv'
<1>t. /\ pending \in Nat /\ BREW_QUEUE_MAX_FILES \in Nat /\ BREW_QUEUE_MAX_FILES >= 2
      /\ brews \in [Sessions -> 0 .. MaxAnswers] /\ short \subseteq Sessions
      /\ existed \in BOOLEAN /\ drift \in {"never", "before", "now"}
      /\ upload \in [at : {"idle", "asked", "remove", "count", "store"}, session : 0 .. MaxGrinds,
                     answer : 0 .. MaxAnswers, loaded : Nat]
  BY BrewAssumption DEF TypeOK
<1>f. IsFiniteSet(Files) /\ Cardinality(Files) \in Nat
  BY FilesFinite
<1>e. Cardinality(Files) = 0 <=> Files = {}
  BY <1>f, FS_EmptySet
<1>u. ui \in Saving => session_id_ \in Sessions /\ answers # 0
  BY DEF PromptInv, AnswerInv, TypeOK, Records, Saving
<1> USE <1>t, <1>f, <1>e DEF CountInv, Drifts, Booting
<1> USE DEF nvs, entry, queue, cloud, history, AnswerFrame, SaveFrame, RemovalFrame, CloudFrame
<1>a. CASE UNCHANGED <<brews, short, pending, upload, drift>>
           /\ ui \notin Saving \cup {"boot"} /\ ui' \notin Saving \cup {"boot", "restore"}
  <2>1. Files' = Files
    BY <1>a DEF Files
  <2> QED BY <1>a, <2>1 DEF Saving
<1>1. CASE GrindStarts \/ GrindCancelled \/ GrindEndsUnseen
  BY <1>1, <1>a DEF GrindStarts, GrindCancelled, GrindEndsUnseen, Saving
<1>2. CASE Completed \/ Stopped \/ Present
  BY <1>2, <1>a DEF Completed, Stopped, Present, Saving
<1>3. CASE Advance \/ Unanswered
  BY <1>3, <1>a DEF Advance, Unanswered, AtPrompt, Saving
<1>4. CASE Restore \/ NotRestored \/ RestoreSkipped \/ OtherLeft
  BY <1>4, <1>a DEF Restore, NotRestored, RestoreSkipped, OtherLeft, Saving
<1>5. CASE Finish
  <2>1. UNCHANGED <<brews, short, pending, upload, drift>> /\ ui = "idle" /\ ui' = FirstStep
    BY <1>5 DEF Finish, AtPrompt
  <2>2. Files' = Files
    BY <2>1 DEF Files
  <2> QED BY <2>1, <2>2 DEF FirstStep
<1>6. CASE PruneLists
  <2>1. /\ UNCHANGED <<brews, short, pending, upload, drift>> /\ ui = "prune"
        /\ \/ Files = {} /\ ui' = "exists"
           \/ ui' = "evict" /\ oldest' \in Files
    BY <1>6 DEF PruneLists
  <2>2. Files' = Files
    BY <2>1 DEF Files
  <2> QED BY <2>1, <2>2
<1>7. CASE PruneEvicts
  <2>1. /\ ui = "evict" /\ ui' = "exists" /\ oldest \in Files
        /\ brews' = [brews EXCEPT ![oldest] = 0] /\ short' = short \ {oldest}
        /\ pending' = IF pending > 0 THEN pending - 1 ELSE pending
        /\ UNCHANGED upload /\ drift' = IF upload.at = "store" THEN "now" ELSE drift
    BY <1>7 DEF PruneEvicts
  <2>2. Files' = Files \ {oldest}
    BY <2>1 DEF Files
  <2>3. Cardinality(Files') = Cardinality(Files) - 1
    BY <2>1, <2>2, FS_RemoveElement
  <2>4. Cardinality(Files) > 0
    BY <2>1, <1>e
  <2> QED BY <2>1, <2>3, <2>4
<1>8. CASE PruneFails \/ Exists
  <2>1. /\ UNCHANGED <<brews, short, pending, upload>> /\ session_id_' = session_id_
        /\ \/ /\ ui = "evict" /\ ui' = "exists"
              /\ drift' = IF oldest \in Files THEN "now" ELSE drift
           \/ /\ ui = "exists" /\ ui' = "open" /\ drift' = drift
              /\ existed' = (session_id_ \in Files)
    BY <1>8 DEF PruneFails, Exists
  <2>2. Files' = Files
    BY <2>1 DEF Files
  <2> QED BY <2>1, <2>2
<1>9. CASE Opens
  <2>1. /\ ui = "open" /\ ui' = "close" /\ session_id_' = session_id_ /\ existed' = existed
        /\ short' = short \cup ({session_id_} \ Files)
        /\ drift' = IF existed /\ session_id_ \notin Files THEN "now" ELSE drift
        /\ UNCHANGED <<brews, pending, upload>>
    BY <1>9 DEF Opens
  <2>2. session_id_ \in Sessions
    BY <2>1, <1>u DEF Saving
  <2>3. Files' = Files \cup {session_id_}
    BY <2>1, <2>2 DEF Files
  <2>4. Cardinality(Files') = IF session_id_ \in Files THEN Cardinality(Files)
                              ELSE Cardinality(Files) + 1
    BY <2>3, FS_AddElement
  <2>5. session_id_' \in Files'
    BY <2>1, <2>3
  <2> QED BY <2>1, <2>4, <2>5
<1>10. CASE OpenFails \/ Clear
  <2>1. UNCHANGED <<brews, short, pending, upload, drift>> /\ ui \in {"open", "clear"}
        /\ ui' \in {"clear", "idle"}
    BY <1>10 DEF OpenFails, Clear
  <2>2. Files' = Files
    BY <2>1 DEF Files
  <2> QED BY <2>1, <2>2
<1>11. CASE WriteCloses
  <2>1. /\ ui = "close" /\ ui' = "clear" /\ UNCHANGED upload
        /\ brews' = [brews EXCEPT ![session_id_] = answers] /\ short' = short \ {session_id_}
        /\ IF existed THEN pending' = pending /\ drift' = drift
           ELSE /\ pending' = pending + 1
                /\ drift' = IF upload.at = "store" THEN "now" ELSE drift
    BY <1>11 DEF WriteCloses, WriteFrame
  <2>2. session_id_ \in Sessions /\ answers # 0
    BY <2>1, <1>u DEF Saving
  <2>3. Files' = Files \cup {session_id_}
    BY <2>1, <2>2 DEF Files
  <2>4. Files' = Files
    BY <2>1, <2>3
  <2> QED BY <2>1, <2>4
<1>12. CASE WriteFails
  <2>1. /\ ui = "close" /\ ui' = "discard" /\ session_id_' = session_id_
        /\ brews' = [brews EXCEPT ![session_id_] = 0] /\ short' = short \cup {session_id_}
        /\ UNCHANGED <<pending, upload, existed, drift>>
    BY <1>12 DEF WriteFails
  <2>2. session_id_ \in Sessions
    BY <2>1, <1>u DEF Saving
  <2>3. Files' = Files \cup {session_id_}
    BY <2>1, <2>2 DEF Files
  <2>4. Files' = Files /\ brews'[session_id_] = 0 /\ session_id_ \in short'
    BY <2>1, <2>2, <2>3
  <2> QED BY <2>1, <2>4
<1>13. CASE Discard
  <2>1. /\ ui = "discard" /\ ui' = "clear" /\ session_id_' = session_id_
        /\ short' \in {short, short \ {session_id_}}
        /\ drift' = IF session_id_ \in short /\ (existed <=> session_id_ \notin short')
                    THEN "now" ELSE drift
        /\ UNCHANGED <<brews, pending, upload, existed>>
    BY <1>13 DEF Discard
  <2>2. session_id_ \in Sessions /\ brews[session_id_] = 0
    BY <2>1, <1>u DEF Saving
  <2>3. CASE session_id_ \in short /\ session_id_ \notin short'
    <3>1. Files' = Files \ {session_id_} /\ session_id_ \in Files
      BY <2>1, <2>2, <2>3 DEF Files
    <3>2. Cardinality(Files') = Cardinality(Files) - 1
      BY <3>1, FS_RemoveElement
    <3> QED BY <2>1, <2>3, <3>2
  <2>4. CASE ~(session_id_ \in short /\ session_id_ \notin short')
    <3>1. short' = short
      BY <2>1, <2>4
    <3>2. Files' = Files
      BY <2>1, <3>1 DEF Files
    <3> QED BY <2>1, <2>4, <3>1, <3>2
  <2> QED BY <2>3, <2>4
<1>14. CASE UploadReads \/ UploadAnswered \/ RemoveFails
  <2>1. /\ UNCHANGED <<brews, short, pending, ui, existed, drift, session_id_, oldest>>
        /\ upload.at \notin {"count", "store"} /\ upload'.at \notin {"count", "store"}
        /\ ~Booting \/ upload' = upload \/ upload' = Idle
    BY <1>14 DEF UploadReads, UploadAnswered, RemoveFails, Idle
  <2>2. Files' = Files
    BY <2>1 DEF Files
  <2>3. (Booting => upload = Idle)'
    BY <2>1
  <2> QED BY <2>1, <2>2, <2>3
<1>15. CASE UploadRemoves
  <2>1. /\ upload.at = "remove" /\ upload'.at = "count" /\ upload.session \in Files
        /\ ~(ui = "close" /\ upload.session = session_id_)
        /\ brews' = [brews EXCEPT ![upload.session] = 0] /\ short' = short \ {upload.session}
        /\ drift' = IF ui = "discard" /\ upload.session = session_id_ /\ ~existed
                    THEN "now" ELSE drift
        /\ UNCHANGED <<pending, ui, session_id_, existed, oldest>>
    BY <1>15 DEF UploadRemoves
  <2>2. Files' = Files \ {upload.session} /\ upload.session \in Sessions
    BY <2>1 DEF Files
  <2>3. Cardinality(Files') = Cardinality(Files) - 1
    BY <2>1, <2>2, FS_RemoveElement
  <2>4. \A s \in Sessions : brews'[s] = IF s = upload.session THEN 0 ELSE brews[s]
    BY <2>1
  <2>5. ~Booting
    BY <2>1 DEF Idle
  <2>6. ui = "discard" => session_id_ \in Sessions
    BY <1>u DEF Saving
  <2> QED BY <2>1, <2>2, <2>3, <2>4, <2>5, <2>6
<1>16. CASE UploadLoads
  <2>1. /\ upload.at = "count" /\ UNCHANGED <<brews, short, pending, ui, existed, drift,
                                              session_id_, oldest>>
        /\ upload' = IF pending > 0 THEN [upload EXCEPT !.at = "store", !.loaded = pending]
                     ELSE Idle
    BY <1>16 DEF UploadLoads
  <2>2. Files' = Files
    BY <2>1 DEF Files
  <2>3. ui \in {"close", "discard"} /\ ~existed /\ drift # "now" => Files # {}
    BY DEF Files, Saving
  <2>4. ~Booting
    BY <2>1 DEF Idle
  <2>5. drift # "now" => pending > 0
    BY <2>1, <2>3, <2>4
  <2>6. CASE pending > 0
    <3>1. upload'.at = "store" /\ upload'.loaded = pending
      BY <2>1, <2>6
    <3> QED BY <2>1, <2>2, <2>4, <2>6, <3>1
  <2>7. CASE ~(pending > 0)
    BY <2>1, <2>2, <2>4, <2>5, <2>7 DEF Idle
  <2> QED BY <2>6, <2>7
<1>17. CASE UploadStores
  <2>1. /\ upload.at = "store" /\ upload' = Idle /\ pending' = upload.loaded - 1
        /\ UNCHANGED <<brews, short, ui, existed, drift, session_id_, oldest>>
    BY <1>17 DEF UploadStores
  <2>2. Files' = Files
    BY <2>1 DEF Files
  <2> QED BY <2>1, <2>2 DEF Idle
<1>18. CASE Reset
  <2>1. Files' = Files
    BY <1>18 DEF Reset, Files
  <2> QED BY <1>18, <2>1 DEF Reset, Idle
<1>19. CASE Boot
  <2>1. Files' = Files
    BY <1>19 DEF Boot, Files
  <2> QED BY <1>19, <2>1 DEF Boot, Idle
<1>20. CASE UNCHANGED vars
  <2>1. Files' = Files
    BY <1>20 DEF vars, Files
  <2> QED BY <1>20, <2>1 DEF vars
<1> QED
  BY <1>1, <1>2, <1>3, <1>4, <1>5, <1>6, <1>7, <1>8, <1>9, <1>10, <1>11, <1>12, <1>13,
     <1>14, <1>15, <1>16, <1>17, <1>18, <1>19, <1>20 DEF Next

(* Every variable keeps its range.                                         *)
LEMMA TypeStep ==
  ASSUME BrewInv, [Next]_vars
  PROVE  TypeOK'
<1>t. TypeOK /\ PromptInv /\ AnswerInv /\ CountInv
  BY DEF BrewInv
<1> DEFINE Uploads == [at : {"idle", "asked", "remove", "count", "store"},
                       session : 0 .. MaxGrinds, answer : 0 .. MaxAnswers, loaded : Nat]
<1>i. Idle \in Uploads
  BY BrewAssumption DEF Idle
<1>u. upload \in Uploads
  BY <1>t DEF TypeOK
<1> USE <1>t, <1>i, BrewAssumption DEF TypeOK, Saving
<1> USE DEF nvs, entry, queue, cloud, history, AnswerFrame, SaveFrame, RemovalFrame, CloudFrame
<1> HIDE DEF Uploads
<1>s. /\ presented_ => session_id_ \in Sessions
      /\ presented_ /\ session_id_ \in Sessions => stored = [session |-> session_id_, step |-> step_]
      /\ ui \in Saving => presented_
  BY DEF PromptInv, Records, None, Last
<1>l. ASSUME NEW new, new # "BREW_ENTRY", ui = "idle", Leave(new)
      PROVE  /\ screen' = new /\ presented_' \in BOOLEAN /\ put_off' \in BOOLEAN
             /\ stored' \in Records \cup {None} /\ owed' \in Records \cup {None}
             /\ given' \in [Sessions -> 0 .. MaxAnswers]
  BY <1>l, LeaveFacts
<1>o. ASSUME NEW new, OnStateChanged(new)
      PROVE  presented_' \in BOOLEAN /\ stored' \in Records \cup {None}
  BY <1>o DEF OnStateChanged
<1>d. ASSUME NEW wrong, Drifts(wrong) PROVE drift' \in {"never", "before", "now"}
  BY <1>d DEF Drifts
<1>1. CASE GrindStarts
  <2>1. pending_' \in BOOLEAN /\ settled_session_id_' \in 0 .. MaxGrinds
    BY <1>1 DEF GrindStarts
  <2>2. next_session_id' \in 1 .. MaxGrinds + 1 /\ last_started_session_id' \in 0 .. MaxGrinds
    BY <1>1 DEF GrindStarts
  <2> QED BY <1>1, <1>l, <2>1, <2>2 DEF GrindStarts
<1>2. CASE GrindCancelled \/ GrindEndsUnseen \/ OtherLeft
  BY <1>2, <1>l DEF GrindCancelled, GrindEndsUnseen, OtherLeft
<1>4. CASE Completed
  <2>1. pending_' \in BOOLEAN /\ session_id_' \in 0 .. MaxGrinds
    BY <1>4 DEF Completed, Arm
  <2> QED BY <1>4, <1>o, <2>1 DEF Completed
<1>5. CASE Stopped
  <2>1. CASE pending_
    <3>1. session_id_ \in Sessions
      BY <2>1 DEF PromptInv, Last, Sessions
    <3>2. stored' \in Records
      BY <1>5, <2>1, <3>1 DEF Stopped, Records, Steps
    <3>3. pending_' \in BOOLEAN /\ step_' \in Steps /\ settled_session_id_' \in 0 .. MaxGrinds
      BY <1>5, <2>1 DEF Stopped, Steps
    <3>4. given' \in [Sessions -> 0 .. MaxAnswers]
      BY <1>5, <2>1 DEF Stopped, Dropped
    <3> QED BY <1>5, <2>1, <3>2, <3>3, <3>4 DEF Stopped
  <2>2. CASE ~pending_
    BY <1>5, <2>2, <1>l DEF Stopped
  <2> QED BY <2>1, <2>2
<1>6. CASE Present
  BY <1>6 DEF Present
<1>7. CASE Advance
  BY <1>7, <1>s DEF Advance, AtPrompt, Records, Steps, PromptInv
<1>8. CASE Unanswered
  BY <1>8, <1>l DEF Unanswered, AtPrompt
<1>9. CASE Finish
  <2>1. answers' \in 0 .. MaxAnswers
    BY <1>9 DEF Finish
  <2>2. given' \in [Sessions -> 0 .. MaxAnswers]
    BY <1>9, <2>1 DEF Finish
  <2> QED BY <1>9, <2>1, <2>2 DEF Finish, FirstStep
<1>10. CASE PruneLists \/ PruneFails
  <2>0. Files \subseteq Sessions
    BY DEF Files
  <2>3. oldest' \in {0, oldest} \cup Files
    BY <1>10 DEF PruneLists, PruneFails
  <2>1. oldest' \in 0 .. MaxGrinds
    BY <2>0, <2>3 DEF Sessions
  <2>2. drift' \in {"never", "before", "now"}
    BY <1>10, <1>d DEF PruneLists, PruneFails
  <2> QED BY <1>10, <2>1, <2>2 DEF PruneLists, PruneFails
<1>11. CASE PruneEvicts
  <2>1. /\ brews' \in [Sessions -> 0 .. MaxAnswers] /\ short' \subseteq Sessions
        /\ pending' \in Nat /\ lost' \subseteq Sessions /\ oldest' \in 0 .. MaxGrinds
    BY <1>11 DEF PruneEvicts, Files
  <2> QED BY <1>11, <1>d, <2>1 DEF PruneEvicts
<1>12. CASE Exists \/ Opens
  <2>1. short' \subseteq Sessions
    BY <1>12, <1>s DEF Exists, Opens
  <2>3. existed' \in BOOLEAN
    <3>1. CASE Exists
      BY <3>1 DEF Exists
    <3>2. CASE Opens
      BY <3>2 DEF Opens
    <3> QED BY <1>12, <3>1, <3>2
  <2>2. drift' \in {"never", "before", "now"}
    BY <1>12, <1>d DEF Exists, Opens
  <2> QED BY <1>12, <2>1, <2>2, <2>3 DEF Exists, Opens
<1>13. CASE OpenFails
  BY <1>13, <1>s DEF OpenFails
<1>14. CASE WriteCloses
  <2>1. /\ brews' \in [Sessions -> 0 .. MaxAnswers] /\ short' \subseteq Sessions
        /\ lost' \subseteq Sessions
    BY <1>14, <1>s DEF WriteCloses, WriteFrame
  <2>2. pending' \in Nat /\ drift' \in {"never", "before", "now"}
    BY <1>14, <1>d DEF WriteCloses
  <2> QED BY <1>14, <2>1, <2>2 DEF WriteCloses, WriteFrame
<1>15. CASE WriteFails
  <2>1. /\ brews' \in [Sessions -> 0 .. MaxAnswers] /\ short' \subseteq Sessions
        /\ lost' \subseteq Sessions
    BY <1>15, <1>s DEF WriteFails
  <2> QED BY <1>15, <2>1 DEF WriteFails
<1>16. CASE Discard
  <2>1. short' \subseteq Sessions
    BY <1>16 DEF Discard
  <2> QED BY <1>16, <1>d, <2>1 DEF Discard
<1>17. CASE Clear
  BY <1>17, <1>o DEF Clear
<1>18. CASE UploadReads
  <2>1. PICK s \in Files :
           upload' = [at |-> IF s \in short THEN "remove" ELSE "asked",
                      session |-> s, answer |-> brews[s], loaded |-> 0]
    BY <1>18 DEF UploadReads
  <2>2. s \in 0 .. MaxGrinds /\ brews[s] \in 0 .. MaxAnswers
    BY DEF Files, Sessions
  <2>3. upload' \in Uploads
    BY <2>1, <2>2 DEF Uploads
  <2> QED BY <1>18, <2>3 DEF UploadReads, Uploads
<1>19. CASE UploadAnswered
  <2>1. server' \in [Sessions -> 0 .. MaxAnswers]
    BY <1>19 DEF UploadAnswered
  <2>2. upload' \in Uploads
    BY <1>19, <1>u DEF UploadAnswered, Uploads
  <2> QED BY <1>19, <2>1, <2>2 DEF UploadAnswered, Uploads
<1>20. CASE UploadRemoves
  <2>1. brews' \in [Sessions -> 0 .. MaxAnswers] /\ short' \subseteq Sessions
    BY <1>20 DEF UploadRemoves, Files
  <2>2. upload' \in Uploads
    BY <1>20, <1>u DEF UploadRemoves, Uploads
  <2> QED BY <1>20, <1>d, <2>1, <2>2 DEF UploadRemoves, Uploads
<1>21. CASE RemoveFails \/ UploadLoads
  <2>1. upload' \in Uploads
    BY <1>21, <1>u DEF RemoveFails, UploadLoads, Uploads
  <2> QED BY <1>21, <2>1 DEF RemoveFails, UploadLoads, Uploads
<1>22. CASE UploadStores
  <2>1. pending' \in Nat
    BY <1>22 DEF UploadStores, CountInv
  <2> QED BY <1>22, <2>1 DEF UploadStores, Uploads
<1>23. CASE Reset
  <2>1. owed' \in Records \cup {None}
    BY <1>23, <1>s DEF Reset, AtPrompt, PromptInv
  <2>2. /\ session_id_' \in 0 .. MaxGrinds /\ settled_session_id_' \in 0 .. MaxGrinds
        /\ last_started_session_id' \in 0 .. MaxGrinds /\ pending' \in Nat
        /\ oldest' \in 0 .. MaxGrinds /\ resets' \in 0 .. MaxResets
    BY <1>23 DEF Reset
  <2>3. /\ pending_' \in BOOLEAN /\ presented_' \in BOOLEAN /\ existed' \in BOOLEAN
        /\ step_' \in Steps /\ drift' \in {"never", "before", "now"} /\ upload' \in Uploads
    BY <1>23 DEF Reset, Steps
  <2> QED BY <1>23, <2>1, <2>2, <2>3 DEF Reset, Uploads
<1>24. CASE Boot
  <2>1. pending' \in Nat
    BY <1>24, FilesFinite DEF Boot
  <2> QED BY <1>24, <1>o, <2>1 DEF Boot
<1>25. CASE Restore
  <2>1. stored.session \in Sessions /\ stored.step \in Steps
    BY <1>25 DEF Restore, Records
  <2>2. session_id_' \in 0 .. MaxGrinds /\ settled_session_id_' \in 0 .. MaxGrinds
    BY <1>25, <2>1 DEF Restore, Sessions
  <2>3. pending_' \in BOOLEAN /\ presented_' \in BOOLEAN /\ step_' \in Steps
    BY <1>25, <2>1 DEF Restore
  <2> QED BY <1>25, <2>2, <2>3 DEF Restore
<1>26. CASE NotRestored
  <2>1. given' \in [Sessions -> 0 .. MaxAnswers]
    BY <1>26 DEF NotRestored, Dropped
  <2> QED BY <1>26, <2>1 DEF NotRestored
<1>27. CASE RestoreSkipped
  BY <1>27 DEF RestoreSkipped
<1>28. CASE UNCHANGED vars
  BY <1>28 DEF vars
<1> QED
  BY <1>1, <1>2, <1>4, <1>5, <1>6, <1>7, <1>8, <1>9, <1>10, <1>11, <1>12, <1>13,
     <1>14, <1>15, <1>16, <1>17, <1>18, <1>19, <1>20, <1>21, <1>22, <1>23, <1>24,
     <1>25, <1>26, <1>27, <1>28 DEF Next

LEMMA InitBrew == Init => BrewInv
<1> SUFFICES ASSUME Init PROVE BrewInv
  OBVIOUS
<1> USE BrewAssumption DEF Init
<1>1. TypeOK
  <2>1. stored \in Records \cup {None} /\ owed \in Records \cup {None} /\ step_ \in Steps
    BY DEF Steps
  <2>2. /\ brews \in [Sessions -> 0 .. MaxAnswers] /\ server \in [Sessions -> 0 .. MaxAnswers]
        /\ given \in [Sessions -> 0 .. MaxAnswers] /\ lost \subseteq Sessions
        /\ short \subseteq Sessions
    OBVIOUS
  <2>3. upload \in [at : {"idle", "asked", "remove", "count", "store"}, session : 0 .. MaxGrinds,
                    answer : 0 .. MaxAnswers, loaded : Nat]
    BY DEF Idle
  <2>4. /\ pending_ \in BOOLEAN /\ presented_ \in BOOLEAN /\ existed \in BOOLEAN
        /\ put_off \in BOOLEAN
    OBVIOUS
  <2>5. /\ next_session_id \in 1 .. MaxGrinds + 1 /\ last_started_session_id \in 0 .. MaxGrinds
        /\ session_id_ \in 0 .. MaxGrinds /\ settled_session_id_ \in 0 .. MaxGrinds
        /\ answers \in 0 .. MaxAnswers /\ resets \in 0 .. MaxResets
        /\ oldest \in 0 .. MaxGrinds /\ pending \in Nat
    OBVIOUS
  <2>6. drift \in {"never", "before", "now"} /\ ui = "idle" /\ screen = "READY"
    OBVIOUS
  <2> QED BY <2>1, <2>2, <2>3, <2>4, <2>5, <2>6 DEF TypeOK
<1>2. PromptInv /\ OwedInv
  BY DEF PromptInv, OwedInv, Last, Booting, Saving
<1>3. AnswerInv /\ AnswerKept
  BY DEF AnswerInv, AnswerKept, Idle, None, Saving
<1>4. CountInv
  <2>1. Files = {}
    BY DEF Files
  <2>2. Cardinality(Files) = 0
    BY <2>1, FS_EmptySet
  <2> QED BY <2>2 DEF CountInv, Idle
<1> QED BY <1>1, <1>2, <1>3, <1>4 DEF BrewInv

(* The inductive invariant of the shot log holds in every reachable state.  *)
THEOREM BrewInvariance == Spec => []BrewInv
<1>1. BrewInv /\ [Next]_vars => BrewInv'
  <2> SUFFICES ASSUME BrewInv, [Next]_vars PROVE BrewInv'
    OBVIOUS
  <2>1. PromptInv' /\ OwedInv'
    BY PromptStep DEF BrewInv
  <2>2. AnswerInv' /\ AnswerKept'
    BY AnswerStep DEF BrewInv
  <2>3. CountInv'
    BY CountStep DEF BrewInv
  <2>4. TypeOK'
    BY TypeStep
  <2> QED BY <2>1, <2>2, <2>3, <2>4 DEF BrewInv
<1> QED BY InitBrew, <1>1, PTL DEF Spec

(* Every variable keeps its range, through resets and restores.             *)
THEOREM BrewTypes == Spec => []TypeOK
<1>1. BrewInv => TypeOK
  BY DEF BrewInv
<1> QED BY BrewInvariance, <1>1, PTL

(* No reset, upload or grind between two steps of finish() loses the last   *)
(* answer given for a shot, unless it is evicted, not written, or queued    *)
(* while the uploader is busy with the file that it overwrites.            *)
THEOREM AnswerIsKept == Spec => []AnswerKept
<1>1. BrewInv => AnswerKept
  BY DEF BrewInv
<1> QED BY BrewInvariance, <1>1, PTL

(* restore_entry() puts an interrupted prompt back as it was, and a boot    *)
(* that does not call it leaves the prompt stored.                         *)
THEOREM PromptIsRescued == Spec => []PromptRescued
<1>1. BrewInv => PromptRescued
  BY DEF BrewInv, OwedInv, PromptInv, PromptRescued
<1> QED BY BrewInvariance, <1>1, PTL

(* The shot log on screen asks about the last grind, also after a restore,  *)
(* unless a boot has passed over the stored prompt.                        *)
THEOREM PromptIsOfLastGrind == Spec => []PromptOfLastGrind
<1>1. BrewInv => PromptOfLastGrind
  BY DEF BrewInv, PromptInv, PromptOfLastGrind, Last
<1> QED BY BrewInvariance, <1>1, PTL

(* Until the two tasks get in each other's way, BrewLog's queue stays       *)
(* within its limit, and pending_count() is the number of its files.       *)
THEOREM CountIsExact == Spec => []CountsFiles
<1>1. BrewInv => CountsFiles
  <2> SUFFICES ASSUME BrewInv PROVE CountsFiles
    OBVIOUS
  <2> QED BY FilesFinite DEF BrewInv, CountInv, CountsFiles, TypeOK
<1> QED BY BrewInvariance, <1>1, PTL

=============================================================================
