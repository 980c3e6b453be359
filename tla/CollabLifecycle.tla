---------------------------- MODULE CollabLifecycle ----------------------------
(***************************************************************************)
(* collab-svc: the life of one collaboration, from the match that creates  *)
(* it to its archive.  Its participants change its status and leave        *)
(* feedback over HTTP (routers/collabs.py, services/collab_service.py),    *)
(* events of other services touch it (workers/event_consumers.py), and     *)
(* Celery nudges and archives it (workers/inactivity_tasks.py,             *)
(* workers/archive_tasks.py).                                              *)
(*                                                                         *)
(* A request loads the row, decides, and writes the columns it changed in  *)
(* one READ COMMITTED transaction; it takes no lock before the write.      *)
(* archive_at and completed_at are written by the code and read by none of *)
(* it, so they are left out.                                               *)
(***************************************************************************)
EXTENDS Integers, Sequences, FiniteSets, SequencesExt

CONSTANTS Profiles,                 \* the two participants
          Targets,                  \* what feedback is about: project, partner
          Requests,                 \* concurrent HTTP requests
          Workers,                  \* Celery worker processes
          NudgeDays, ArchiveDays,   \* settings.nudge_days, settings.archive_days
          MaxDays, MaxMessages, MaxQueue, MaxChanges      \* bounds

ASSUME CollabAssumption ==
    /\ NudgeDays \in Nat /\ ArchiveDays \in Nat /\ NudgeDays < ArchiveDays
    /\ IsFiniteSet(Workers)
    /\ MaxDays \in Nat /\ MaxMessages \in Nat /\ MaxQueue \in Nat /\ MaxChanges \in Nat

VARIABLES
    now,        \* days
    row,        \* the collaboration row
    history,    \* collab_status_event rows, in commit order
    feedback,   \* collab_feedback rows: who, about what
    req,        \* HTTP requests being served
    messages,   \* chat.message.sent events not yet consumed, by sent_at
    sent,       \* chat messages so far
    queue,      \* Celery tasks waiting: how many of each kind
    nudger,     \* workers between send_nudge's SELECT and its UPDATE
    nudges,     \* collab.nudge_due events since the last activity
    idled       \* history variable: was it ever idle for ArchiveDays?

workVars == <<queue, nudger, nudges>>
vars == <<now, row, history, feedback, req, messages, sent, workVars, idled>>

Statuses        == {"still_deciding", "in_progress", "completed", "didnt_work_out"}
TERMINAL_STATES == {"completed", "didnt_work_out"}
TaskKinds       == {"nudge", "archive", "finalize"}

\* domain/state_machine.py: validate_transition
TRANSITION_MAP ==
    [still_deciding |-> {"in_progress", "completed", "didnt_work_out"},
     in_progress    |-> {"still_deciding", "completed", "didnt_work_out"},
     completed      |-> {}, didnt_work_out |-> {}]

NoRow   == [status |-> "none", readOnly |-> FALSE, last |-> 0,
            nudged |-> FALSE, archived |-> FALSE]
IdleReq == [at |-> "idle", status |-> "none", nudged |-> FALSE, new |-> "none"]

Init ==
    /\ now = 0 /\ row = NoRow /\ history = <<>> /\ feedback = {}
    /\ req = [r \in Requests |-> IdleReq]
    /\ messages = {} /\ sent = 0
    /\ queue = [k \in TaskKinds |-> 0]
    /\ nudger = {} /\ nudges = 0 /\ idled = FALSE

Created  == row.status # "none"
Ended    == \E k \in 1..Len(history) : history[k].new \in TERMINAL_STATES

\* last_activity_at < now - d days
IdleFor(w, t, d) == w.last < t - d
NoteIdle(w, t)   == idled' = (idled \/ (w.status # "none" /\ IdleFor(w, t, ArchiveDays)))

Enqueue(k) == queue' = [queue EXCEPT ![k] = @ + 1]
Dequeue(k) == queue[k] > 0 /\ queue' = [queue EXCEPT ![k] = @ - 1]

Day ==
    /\ now < MaxDays
    /\ now' = now + 1
    /\ NoteIdle(row, now')
    /\ UNCHANGED <<row, history, feedback, req, messages, sent, workVars>>

-----------------------------------------------------------------------------
(* workers/event_consumers.py: a message that raises is put back *)

\* create_collaboration: ON CONFLICT DO NOTHING, so a match that is delivered
\* again finds the row and keeps it.
MatchCreated ==
    /\ row' = IF Created THEN row
              ELSE [NoRow EXCEPT !.status = "still_deciding", !.last = now]
    /\ UNCHANGED <<now, history, feedback, req, messages, sent, workVars, idled>>

\* chat-svc: a message is sent and its event is on its way.
ChatMessage ==
    /\ Created /\ sent < MaxMessages
    /\ messages' = messages \cup {now} /\ sent' = sent + 1
    /\ UNCHANGED <<now, row, history, feedback, req, workVars, idled>>

\* update_last_activity: events are applied in the order they arrive.
MessageSent(t) ==
    /\ t \in messages
    /\ messages' = messages \ {t}
    /\ row' = [row EXCEPT !.last = t, !.nudged = FALSE]
    /\ nudges' = 0
    /\ NoteIdle(row', now)
    /\ UNCHANGED <<now, history, feedback, req, sent, queue, nudger>>

\* apply_block
BlockCreated ==
    /\ Created /\ ~row.archived /\ ~row.readOnly
    /\ row' = [row EXCEPT !.readOnly = TRUE]
    /\ UNCHANGED <<now, history, feedback, req, messages, sent, workVars, idled>>

-----------------------------------------------------------------------------
(* POST /collabs/{id}/status and /feedback *)

\* 403 when the row is read-only or archived, 409 when validate_transition
\* raises; neither changes anything.
LoadStatus(r, new) ==
    /\ req[r].at = "idle" /\ Created
    /\ ~row.readOnly /\ ~row.archived
    /\ new \in TRANSITION_MAP[row.status]
    /\ Len(history) + Cardinality({q \in Requests : req[q].at = "commit"}) < MaxChanges
    /\ req' = [req EXCEPT ![r] = [at |-> "commit", status |-> row.status,
                                  nudged |-> row.nudged, new |-> new]]
    /\ UNCHANGED <<now, row, history, feedback, messages, sent, workVars, idled>>

\* Faulty variant: the event records the status without the row taking it.
CommitStatusEventOnly(r) ==
    /\ req[r].at = "commit"
    /\ history' = Append(history, [prev |-> req[r].status, new |-> req[r].new])
    /\ req' = [req EXCEPT ![r] = IF req[r].new \in TERMINAL_STATES
                                 THEN [@ EXCEPT !.at = "enqueue"] ELSE IdleReq]
    /\ UNCHANGED <<now, row, feedback, messages, sent, workVars, idled>>

\* transition_status: the status and the event in one transaction.  Setting
\* nudge_sent_at to NULL is a change only when it was loaded as set.
CommitStatus(r) ==
    LET q == req[r]
        clears == q.nudged /\ q.new \notin TERMINAL_STATES
    IN
    /\ q.at = "commit"
    /\ row' = [row EXCEPT !.status = q.new, !.nudged = @ /\ ~clears]
    /\ history' = Append(history, [prev |-> q.status, new |-> q.new])
    /\ nudges' = IF clears THEN 0 ELSE nudges
    /\ req' = [req EXCEPT ![r] = IF q.new \in TERMINAL_STATES
                                 THEN [q EXCEPT !.at = "enqueue"] ELSE IdleReq]
    /\ UNCHANGED <<now, feedback, messages, sent, queue, nudger, idled>>

\* Faulty variant: only a completed collaboration is finalized.
EnqueueCompletedOnly(r) ==
    /\ req[r].at = "enqueue"
    /\ IF req[r].new = "completed" THEN Enqueue("finalize") ELSE UNCHANGED queue
    /\ req' = [req EXCEPT ![r] = IdleReq]
    /\ UNCHANGED <<now, row, history, feedback, messages, sent, nudger, nudges, idled>>

\* archive_finalize.delay
EnqueueFinalize(r) ==
    /\ req[r].at = "enqueue"
    /\ Enqueue("finalize")
    /\ req' = [req EXCEPT ![r] = IdleReq]
    /\ UNCHANGED <<now, row, history, feedback, messages, sent, nudger, nudges, idled>>

\* upsert_feedback: one row per profile and target, read-only or not.
SubmitFeedback(p, t) ==
    /\ row.status \in TERMINAL_STATES
    /\ feedback' = feedback \cup {<<p, t>>}
    /\ UNCHANGED <<now, row, history, req, messages, sent, workVars, idled>>

-----------------------------------------------------------------------------
(* Celery *)

\* Faulty variant: the archive threshold is the nudge threshold.
CheckArchivesEarly ==
    /\ Created /\ row.status \notin TERMINAL_STATES /\ ~row.archived
    /\ queue["archive"] < MaxQueue
    /\ IdleFor(row, now, NudgeDays) /\ Enqueue("archive")
    /\ UNCHANGED <<now, row, history, feedback, req, messages, sent, nudger, nudges, idled>>

\* inactivity_check: one subtask per collaboration, again in every run of the
\* check until it has run.
InactivityCheck ==
    /\ Created /\ row.status \notin TERMINAL_STATES /\ ~row.archived
    /\ IF IdleFor(row, now, ArchiveDays)
       THEN queue["archive"] < MaxQueue /\ Enqueue("archive")
       ELSE /\ IdleFor(row, now, NudgeDays) /\ ~row.nudged
            /\ queue["nudge"] < MaxQueue /\ Enqueue("nudge")
    /\ UNCHANGED <<now, row, history, feedback, req, messages, sent, nudger, nudges, idled>>

\* send_nudge: SELECT ... WHERE nudge_sent_at IS NULL AND archived_at IS NULL
NudgeSelect(w) ==
    /\ w \notin nudger
    /\ Dequeue("nudge")
    /\ nudger' = IF ~row.nudged /\ ~row.archived THEN nudger \cup {w} ELSE nudger
    /\ UNCHANGED <<now, row, history, feedback, req, messages, sent, nudges, idled>>

\* UPDATE ... WHERE nudge_sent_at IS NULL; the event is sent whether or not
\* the update found the row.
NudgeSend(w) ==
    /\ w \in nudger
    /\ row' = [row EXCEPT !.nudged = TRUE]
    /\ nudges' = nudges + 1
    /\ nudger' = nudger \ {w}
    /\ UNCHANGED <<now, history, feedback, req, messages, sent, queue, idled>>

\* archive_collab: activity since the check is not looked at.
ArchiveCollab ==
    /\ Dequeue("archive")
    /\ row' = [row EXCEPT !.archived = TRUE]
    /\ UNCHANGED <<now, history, feedback, req, messages, sent, nudger, nudges, idled>>

ArchiveFinalize ==
    /\ Dequeue("finalize")
    /\ row' = [row EXCEPT !.archived = TRUE]
    /\ UNCHANGED <<now, history, feedback, req, messages, sent, nudger, nudges, idled>>

-----------------------------------------------------------------------------
Serve(r) == CommitStatus(r) \/ EnqueueFinalize(r)

Celery == \/ ArchiveCollab \/ ArchiveFinalize
          \/ \E w \in Workers : NudgeSelect(w) \/ NudgeSend(w)

Next ==
    \/ Day
    \/ MatchCreated \/ ChatMessage \/ BlockCreated
    \/ \E t \in 0..MaxDays : MessageSent(t)
    \/ \E r \in Requests : Serve(r) \/ \E new \in Statuses : LoadStatus(r, new)
    \/ \E p \in Profiles, t \in Targets : SubmitFeedback(p, t)
    \/ InactivityCheck \/ Celery

Spec == Init /\ [][Next]_vars

\* Requests that have begun run on and the workers drain their queue.  Nothing
\* is assumed of InactivityCheck: no module imports workers/beat_schedule.py, so
\* the beat process runs with an empty schedule.
FairSpec ==
    /\ Spec
    /\ \A r \in Requests : WF_vars(Serve(r))
    /\ WF_vars(ArchiveCollab) /\ WF_vars(ArchiveFinalize)
    /\ \A w \in Workers : WF_vars(NudgeSelect(w) \/ NudgeSend(w))

-----------------------------------------------------------------------------
(* Properties *)

\* An event of the history, and who has given feedback on whom.
CollabStatusEvent == [prev : Statuses, new : Statuses]
CollabFeedback    == Profiles \X Targets

CollabTypeOK ==
    /\ now \in 0..MaxDays /\ sent \in 0..MaxMessages
    /\ row \in [status : Statuses \cup {"none"}, readOnly : BOOLEAN, last : 0..MaxDays,
                nudged : BOOLEAN, archived : BOOLEAN]
    /\ history \in Seq(CollabStatusEvent)
    /\ feedback \subseteq CollabFeedback
    /\ req \in [Requests -> [at : {"idle", "commit", "enqueue"},
                             status : Statuses \cup {"none"}, nudged : BOOLEAN,
                             new : Statuses \cup {"none"}]]
    /\ messages \subseteq 0..MaxDays
    /\ queue \in [TaskKinds -> Nat]
    /\ nudger \subseteq Workers /\ nudges \in Nat /\ idled \in BOOLEAN

\* However requests race, the row's status is the one the last status event
\* announces, and every event is a step TRANSITION_MAP has.
HistoryExplainsStatus ==
    /\ Created => row.status =
         IF history = <<>> THEN "still_deciding" ELSE Last(history).new
    /\ \A k \in 1..Len(history) : history[k].new \in TRANSITION_MAP[history[k].prev]

\* A collaboration is archived because a participant ended it or because it
\* was idle for archive_days, never for any other reason.
ArchivedForReason == row.archived => Ended \/ idled

\* A collaboration is nudged at most once by each worker process between two
\* activities: two tasks may both find it not nudged yet, a third cannot.
NudgedOncePerWorker == nudges <= Cardinality(Workers)

\* "The nudge fires once per inactivity window"
NudgedOnce == nudges <= 1

\* "Triggers immediate archive": what a participant ended is archived in the
\* end, whatever other requests and tasks do.
EndedIsArchived == Ended ~> row.archived

\* "auto-archive (30d)" (beat_schedule.py): a collaboration nobody writes in is
\* archived, unless it is ended or a message comes after all.
QuietIsArchived ==
    (Created /\ IdleFor(row, now, ArchiveDays)) ~>
        (row.archived \/ Ended \/ ~IdleFor(row, now, ArchiveDays))

\* "completed -> (terminal - no further transitions)" (state_machine.py).
TerminalIsFinal ==
    [][row.status \in TERMINAL_STATES => row'.status = row.status]_vars
=============================================================================
