------------------------ MODULE CollabLifecycleProofs ------------------------
(***************************************************************************)
(* TLAPS proofs about CollabLifecycle, for any participants, any number of *)
(* concurrent requests and any finite number of worker processes.          *)
(***************************************************************************)
EXTENDS CollabLifecycle, FiniteSetTheorems, TLAPS

\* Before the match is consumed there is nothing: no event, no request that
\* found the row, no message in it, no task about it.
NothingBeforeMatch ==
    ~Created => /\ row = NoRow /\ history = <<>> /\ messages = {}
                /\ \A r \in Requests : req[r].at = "idle"
                /\ \A k \in TaskKinds : queue[k] = 0
                /\ nudger = {}

\* A request that passed validate_transition carries a step of the map; one
\* that has committed a terminal status has ended the collaboration.
RequestsAreLegal ==
    \A r \in Requests :
        /\ req[r].at = "commit" => /\ req[r].status \in Statuses
                                   /\ req[r].new \in TRANSITION_MAP[req[r].status]
        /\ req[r].at = "enqueue" => Ended

\* A task in the queue keeps the reason it was enqueued for, and no moment at
\* which the collaboration was idle for archive_days has gone unnoticed.
TasksAreJustified ==
    /\ queue["finalize"] > 0 => Ended
    /\ queue["archive"] > 0 => idled
    /\ Created /\ IdleFor(row, now, ArchiveDays) => idled

\* nudge_sent_at is NULL only when no nudge was sent since the last activity;
\* once it is set, only workers that had read it before can still send one.
NudgesAreCounted ==
    IF row.nudged THEN nudges + Cardinality(nudger) <= Cardinality(Workers)
                  ELSE nudges = 0

IInv ==
    /\ CollabTypeOK
    /\ NothingBeforeMatch
    /\ HistoryExplainsStatus
    /\ RequestsAreLegal
    /\ ArchivedForReason
    /\ TasksAreJustified
    /\ NudgesAreCounted

-----------------------------------------------------------------------------
(* Facts about the model's constants and operators *)

LEMMA RowFacts ==
    /\ \A s \in Statuses : TRANSITION_MAP[s] \subseteq Statuses
    /\ \A s \in TERMINAL_STATES : TRANSITION_MAP[s] = {}
    /\ TERMINAL_STATES \subseteq Statuses
    /\ "none" \notin Statuses
  BY DEF TRANSITION_MAP, Statuses, TERMINAL_STATES

\* What the history shows after one more event: that event last, the others
\* where they were, and an end that has come stays.
LEMMA AppendFacts ==
    ASSUME history \in Seq(CollabStatusEvent), NEW e \in CollabStatusEvent,
           history' = Append(history, e)
    PROVE  /\ history' \in Seq(CollabStatusEvent) /\ history' # <<>>
           /\ Last(history') = e
           /\ \A k \in 1..Len(history') :
                 (k \in 1..Len(history) /\ history'[k] = history[k]) \/ history'[k] = e
           /\ Ended' <=> Ended \/ e.new \in TERMINAL_STATES
  <1>1. /\ history' \in Seq(CollabStatusEvent) /\ Len(history') = Len(history) + 1
        /\ history'[Len(history')] = e
        /\ \A k \in 1..Len(history) : history'[k] = history[k]
    OBVIOUS
  <1>2. \A k \in 1..Len(history') : k \in 1..Len(history) \/ k = Len(history')
    BY <1>1
  <1>3. Last(history') = e /\ history' # <<>>
    BY <1>1 DEF Last
  <1>4. Ended' <=> Ended \/ e.new \in TERMINAL_STATES
    BY <1>1, <1>2 DEF Ended
  <1> QED
    BY <1>1, <1>2, <1>3, <1>4

\* The workers between SELECT and UPDATE are some of the worker processes.
LEMMA NudgerFinite ==
    ASSUME nudger \subseteq Workers
    PROVE  /\ IsFiniteSet(nudger) /\ Cardinality(nudger) \in Nat
           /\ Cardinality(Workers) \in Nat
           /\ Cardinality(nudger) <= Cardinality(Workers)
           /\ \A w \in nudger : Cardinality(nudger \ {w}) = Cardinality(nudger) - 1
  <1>1. IsFiniteSet(Workers)
    BY CollabAssumption
  <1>2. IsFiniteSet(nudger) /\ Cardinality(nudger) <= Cardinality(Workers)
    BY <1>1, FS_Subset
  <1>3. Cardinality(nudger) \in Nat /\ Cardinality(Workers) \in Nat
    BY <1>1, <1>2, FS_CardinalityType
  <1>4. \A w \in nudger : Cardinality(nudger \ {w}) = Cardinality(nudger) - 1
    BY <1>2, FS_RemoveElement
  <1> QED
    BY <1>2, <1>3, <1>4

-----------------------------------------------------------------------------
(* Type correctness *)

\* Not inductive on its own: what an event records is what a request carries.
LEMMA TypeStep == CollabTypeOK /\ RequestsAreLegal /\ [Next]_vars => CollabTypeOK'
  <1> SUFFICES ASSUME CollabTypeOK, RequestsAreLegal, [Next]_vars PROVE CollabTypeOK'
    OBVIOUS
  <1> USE CollabAssumption DEF CollabTypeOK, workVars
  <1>1. CASE Day
    BY <1>1 DEF Day, NoteIdle
  <1>2. CASE MatchCreated
    BY <1>2 DEF MatchCreated, NoRow, Statuses
  <1>3. CASE ChatMessage
    BY <1>3 DEF ChatMessage
  <1>4. ASSUME NEW t \in 0..MaxDays, MessageSent(t) PROVE CollabTypeOK'
    BY <1>4 DEF MessageSent, NoteIdle
  <1>5. CASE BlockCreated
    BY <1>5 DEF BlockCreated
  <1>6. ASSUME NEW r \in Requests, NEW new \in Statuses, LoadStatus(r, new)
        PROVE  CollabTypeOK'
    BY <1>6 DEF LoadStatus
  <1>7. ASSUME NEW r \in Requests, EnqueueFinalize(r) PROVE CollabTypeOK'
    BY <1>7 DEF EnqueueFinalize, Enqueue, IdleReq, TaskKinds
  <1>8. ASSUME NEW p \in Profiles, NEW t \in Targets, SubmitFeedback(p, t)
        PROVE  CollabTypeOK'
    BY <1>8 DEF SubmitFeedback, CollabFeedback
  <1>9. CASE InactivityCheck
    <2>1. queue' \in [TaskKinds -> Nat]
      BY <1>9 DEF InactivityCheck, Enqueue, TaskKinds
    <2> QED
      BY <1>9, <2>1 DEF InactivityCheck
  <1>10. CASE ArchiveCollab \/ ArchiveFinalize
    <2>1. PICK k \in TaskKinds : /\ Dequeue(k) /\ row' = [row EXCEPT !.archived = TRUE]
                                /\ UNCHANGED <<now, history, feedback, req, messages, sent,
                                               nudger, nudges, idled>>
      BY <1>10 DEF ArchiveCollab, ArchiveFinalize, TaskKinds
    <2>2. queue' \in [TaskKinds -> Nat]
      BY <2>1 DEF Dequeue
    <2> QED
      BY <2>1, <2>2
  <1>11. ASSUME NEW w \in Workers, NudgeSelect(w) PROVE CollabTypeOK'
    BY <1>11 DEF NudgeSelect, Dequeue, TaskKinds
  <1>12. ASSUME NEW w \in Workers, NudgeSend(w) PROVE CollabTypeOK'
    <2>1. nudges' \in Nat /\ nudger' \subseteq Workers
      BY <1>12 DEF NudgeSend
    <2> QED
      BY <1>12, <2>1 DEF NudgeSend
  <1>13. ASSUME NEW r \in Requests, CommitStatus(r) PROVE CollabTypeOK'
    <2> DEFINE q == req[r]
    <2>1. q.status \in Statuses /\ q.new \in Statuses
      BY <1>13, RowFacts DEF CommitStatus, RequestsAreLegal
    <2>2. history' \in Seq(CollabStatusEvent)
      BY <1>13, <2>1, AppendFacts DEF CommitStatus, CollabStatusEvent
    <2>3. row' \in [status : Statuses \cup {"none"}, readOnly : BOOLEAN, last : 0..MaxDays,
                    nudged : BOOLEAN, archived : BOOLEAN]
      BY <1>13, <2>1 DEF CommitStatus
    <2>4. req' \in [Requests -> [at : {"idle", "commit", "enqueue"},
                                 status : Statuses \cup {"none"}, nudged : BOOLEAN,
                                 new : Statuses \cup {"none"}]]
      <3>1. IdleReq \in [at : {"idle", "commit", "enqueue"}, status : Statuses \cup {"none"},
                         nudged : BOOLEAN, new : Statuses \cup {"none"}]
        BY DEF IdleReq
      <3>2. [q EXCEPT !.at = "enqueue"]
              \in [at : {"idle", "commit", "enqueue"}, status : Statuses \cup {"none"},
                  nudged : BOOLEAN, new : Statuses \cup {"none"}]
        <4>1. q \in [at : {"idle", "commit", "enqueue"}, status : Statuses \cup {"none"},
                     nudged : BOOLEAN, new : Statuses \cup {"none"}]
          BY <1>13
        <4> QED
          BY <4>1
      <3> QED
        <4>1. PICK w : /\ w = IF q.new \in TERMINAL_STATES THEN [q EXCEPT !.at = "enqueue"]
                                                            ELSE IdleReq
                       /\ req' = [req EXCEPT ![r] = w]
          BY <1>13 DEF CommitStatus
        <4> QED
          BY <3>1, <3>2, <4>1
    <2> QED
      BY <1>13, <2>2, <2>3, <2>4 DEF CommitStatus
  <1>14. CASE UNCHANGED vars
    BY <1>14 DEF vars
  <1> QED
    BY <1>1, <1>2, <1>3, <1>4, <1>5, <1>6, <1>7, <1>8, <1>9, <1>10, <1>11, <1>12, <1>13, <1>14
       DEF Next, Serve, Celery

-----------------------------------------------------------------------------
(* The inductive invariant: one lemma for each action *)

LEMMA InitIInv == Init => IInv
  <1> SUFFICES ASSUME Init PROVE IInv
    OBVIOUS
  <1>1. CollabTypeOK
    <2>1. 0 \in 0..MaxDays /\ 0 \in 0..MaxMessages
      BY CollabAssumption
    <2>2. /\ row \in [status : Statuses \cup {"none"}, readOnly : BOOLEAN, last : 0..MaxDays,
                     nudged : BOOLEAN, archived : BOOLEAN]
          /\ req \in [Requests -> [at : {"idle", "commit", "enqueue"},
                                  status : Statuses \cup {"none"}, nudged : BOOLEAN,
                                  new : Statuses \cup {"none"}]]
      BY <2>1 DEF Init, NoRow, IdleReq
    <2>3. history \in Seq(CollabStatusEvent) /\ queue \in [TaskKinds -> Nat]
      BY DEF Init
    <2> QED
      BY <2>1, <2>2, <2>3 DEF Init, CollabTypeOK
  <1>2. NothingBeforeMatch /\ ArchivedForReason
    BY DEF Init, NothingBeforeMatch, ArchivedForReason, NoRow, IdleReq
  <1>3. HistoryExplainsStatus /\ RequestsAreLegal /\ TasksAreJustified
    BY DEF Init, HistoryExplainsStatus, RequestsAreLegal, TasksAreJustified, Created,
           NoRow, IdleReq, TaskKinds
  <1>4. NudgesAreCounted
    BY DEF Init, NudgesAreCounted, NoRow
  <1> QED
    BY <1>1, <1>2, <1>3, <1>4 DEF IInv

\* The status, the events and the requests are what ends a collaboration; a
\* step that leaves them alone leaves these two invariants alone.
LEMMA StatusFrame ==
    ASSUME IInv, UNCHANGED <<history, req>>, row'.status = row.status
    PROVE  HistoryExplainsStatus' /\ RequestsAreLegal' /\ Ended' = Ended /\ Created' = Created
  BY DEF IInv, HistoryExplainsStatus, RequestsAreLegal, Ended, Created

LEMMA DayIInv ==
    ASSUME IInv, Day PROVE IInv'
  <1>1. CollabTypeOK' /\ HistoryExplainsStatus' /\ RequestsAreLegal'
    BY TypeStep, StatusFrame DEF IInv, Next, Day
  <1>2. NothingBeforeMatch' /\ ArchivedForReason' /\ NudgesAreCounted'
    BY DEF IInv, Day, NoteIdle, workVars, NothingBeforeMatch, ArchivedForReason,
           NudgesAreCounted, Created, Ended
  <1>3. TasksAreJustified'
    BY DEF IInv, Day, NoteIdle, workVars, TasksAreJustified, Created, Ended
  <1> QED
    BY <1>1, <1>2, <1>3 DEF IInv

LEMMA MatchCreatedIInv ==
    ASSUME IInv, MatchCreated PROVE IInv'
  <1>1. CollabTypeOK'
    BY TypeStep DEF IInv, Next
  <1>2. CASE Created
    <2>1. UNCHANGED vars
      BY <1>2 DEF MatchCreated, vars, workVars
    <2> QED
      BY <2>1, <1>1, StatusFrame DEF IInv, vars, workVars, NothingBeforeMatch,
         ArchivedForReason, TasksAreJustified, NudgesAreCounted, Created, Ended
  <1>3. CASE ~Created
    <2>1. /\ history = <<>> /\ history' = <<>>
          /\ row' = [NoRow EXCEPT !.status = "still_deciding", !.last = now]
          /\ UNCHANGED <<now, req, queue, nudger, nudges, idled>>
          /\ nudger = {} /\ row = NoRow
      BY <1>3 DEF MatchCreated, IInv, NothingBeforeMatch, workVars
    <2>2. row'.status = "still_deciding" /\ row'.last = now /\ ~row'.archived /\ ~row'.nudged
      BY <2>1 DEF NoRow
    <2>3. NothingBeforeMatch' /\ HistoryExplainsStatus' /\ RequestsAreLegal'
      BY <2>1, <2>2 DEF IInv, NothingBeforeMatch, HistoryExplainsStatus, RequestsAreLegal,
         Created, Ended
    <2>4. ~IdleFor(row', now', ArchiveDays)
      BY <2>1, <2>2, CollabAssumption DEF IdleFor, IInv, CollabTypeOK
    <2>5. ArchivedForReason' /\ TasksAreJustified'
      BY <2>1, <2>2, <2>4 DEF IInv, ArchivedForReason, TasksAreJustified, Ended
    <2>6. NudgesAreCounted'
      BY <2>1, <2>2 DEF IInv, NudgesAreCounted, NoRow
    <2> QED
      BY <1>1, <2>3, <2>5, <2>6 DEF IInv
  <1> QED
    BY <1>2, <1>3

LEMMA ChatMessageIInv ==
    ASSUME IInv, ChatMessage PROVE IInv'
  <1>1. CollabTypeOK' /\ HistoryExplainsStatus' /\ RequestsAreLegal'
    BY TypeStep, StatusFrame DEF IInv, Next, ChatMessage
  <1>2. NothingBeforeMatch' /\ ArchivedForReason' /\ TasksAreJustified' /\ NudgesAreCounted'
    BY DEF IInv, ChatMessage, workVars, NothingBeforeMatch, ArchivedForReason,
           TasksAreJustified, NudgesAreCounted, Created, Ended
  <1> QED
    BY <1>1, <1>2 DEF IInv

\* A late message may set last_activity_at back; that it is then idle is noted.
LEMMA MessageSentIInv ==
    ASSUME IInv, NEW t \in 0..MaxDays, MessageSent(t) PROVE IInv'
  <1>1. /\ row'.status = row.status /\ row'.archived = row.archived /\ ~row'.nudged
        /\ nudges' = 0 /\ Created
    BY DEF MessageSent, IInv, CollabTypeOK, NothingBeforeMatch
  <1>2. CollabTypeOK' /\ HistoryExplainsStatus' /\ RequestsAreLegal'
    BY <1>1, TypeStep, StatusFrame DEF IInv, Next, MessageSent
  <1>3. NothingBeforeMatch' /\ ArchivedForReason' /\ NudgesAreCounted'
    BY <1>1 DEF IInv, MessageSent, NoteIdle, NothingBeforeMatch, ArchivedForReason,
       NudgesAreCounted, Created, Ended
  <1>4. TasksAreJustified'
    BY <1>1 DEF IInv, MessageSent, NoteIdle, TasksAreJustified, Created, Ended
  <1> QED
    BY <1>2, <1>3, <1>4 DEF IInv

LEMMA BlockCreatedIInv ==
    ASSUME IInv, BlockCreated PROVE IInv'
  <1>1. /\ row'.status = row.status /\ row'.archived = row.archived
        /\ row'.nudged = row.nudged /\ row'.last = row.last
    BY DEF BlockCreated, IInv, CollabTypeOK
  <1>2. CollabTypeOK' /\ HistoryExplainsStatus' /\ RequestsAreLegal'
    BY <1>1, TypeStep, StatusFrame DEF IInv, Next, BlockCreated
  <1>3. NothingBeforeMatch' /\ ArchivedForReason' /\ TasksAreJustified' /\ NudgesAreCounted'
    BY <1>1 DEF IInv, BlockCreated, workVars, NothingBeforeMatch, ArchivedForReason,
       TasksAreJustified, NudgesAreCounted, Created, Ended, IdleFor
  <1> QED
    BY <1>2, <1>3 DEF IInv

\* The request saw a live status: what it carries is a step of the map.
LEMMA LoadStatusIInv ==
    ASSUME IInv, NEW r \in Requests, NEW new \in Statuses, LoadStatus(r, new)
    PROVE  IInv'
  <1>1. CollabTypeOK'
    BY TypeStep DEF IInv, Next
  <1>2. /\ Created /\ Created' /\ (Ended' <=> Ended)
        /\ row.status \in Statuses /\ new \in TRANSITION_MAP[row.status]
        /\ UNCHANGED <<now, row, history, queue, nudger, nudges, idled>>
    BY DEF LoadStatus, Created, Ended, IInv, CollabTypeOK, workVars
  <1>3. NothingBeforeMatch' /\ HistoryExplainsStatus'
    BY <1>2 DEF IInv, NothingBeforeMatch, HistoryExplainsStatus
  <1>4. RequestsAreLegal'
    BY <1>2 DEF LoadStatus, IInv, CollabTypeOK, RequestsAreLegal
  <1>5. ArchivedForReason' /\ TasksAreJustified' /\ NudgesAreCounted'
    BY <1>2 DEF IInv, ArchivedForReason, TasksAreJustified, NudgesAreCounted
  <1> QED
    BY <1>1, <1>3, <1>4, <1>5 DEF IInv

\* Whatever was committed since the request read the row, its event comes last
\* and its status is the row's: they are written in one transaction.
LEMMA CommitStatusIInv ==
    ASSUME IInv, NEW r \in Requests, CommitStatus(r)
    PROVE  IInv'
  <1> DEFINE q == req[r]
             e == [prev |-> q.status, new |-> q.new]
  <1>1. CollabTypeOK'
    BY TypeStep DEF IInv, Next, Serve
  <1>2. /\ q.at = "commit" /\ q.status \in Statuses /\ q.new \in TRANSITION_MAP[q.status]
        /\ q.new \in Statuses /\ e \in CollabStatusEvent /\ Created
    BY RowFacts DEF CommitStatus, IInv, RequestsAreLegal, NothingBeforeMatch, CollabStatusEvent
  <1>3. /\ history \in Seq(CollabStatusEvent) /\ history' = Append(history, e)
        /\ row'.status = q.new /\ row'.last = row.last /\ row'.archived = row.archived
        /\ UNCHANGED <<now, queue, nudger, idled>>
    BY DEF CommitStatus, IInv, CollabTypeOK
  <1>4. /\ history' # <<>> /\ Last(history') = e
        /\ \A k \in 1..Len(history') :
              (k \in 1..Len(history) /\ history'[k] = history[k]) \/ history'[k] = e
        /\ (Ended' <=> Ended \/ q.new \in TERMINAL_STATES)
    BY <1>2, <1>3, AppendFacts
  <1>5. Created' /\ NothingBeforeMatch' /\ HistoryExplainsStatus'
    BY <1>2, <1>3, <1>4, RowFacts
       DEF IInv, NothingBeforeMatch, HistoryExplainsStatus, Created
  <1>6. RequestsAreLegal'
    BY <1>4 DEF CommitStatus, IInv, CollabTypeOK, RequestsAreLegal, IdleReq
  <1>7. ArchivedForReason' /\ TasksAreJustified'
    BY <1>2, <1>3, <1>4 DEF IInv, ArchivedForReason, TasksAreJustified, IdleFor
  <1>8. NudgesAreCounted'
    <2>1. CASE q.nudged /\ q.new \notin TERMINAL_STATES
      BY <2>1 DEF CommitStatus, IInv, CollabTypeOK, NudgesAreCounted
    <2>2. CASE ~(q.nudged /\ q.new \notin TERMINAL_STATES)
      BY <2>2 DEF CommitStatus, IInv, CollabTypeOK, NudgesAreCounted
    <2> QED
      BY <2>1, <2>2
  <1> QED
    BY <1>1, <1>5, <1>6, <1>7, <1>8 DEF IInv

LEMMA EnqueueFinalizeIInv ==
    ASSUME IInv, NEW r \in Requests, EnqueueFinalize(r)
    PROVE  IInv'
  <1>1. CollabTypeOK'
    BY TypeStep DEF IInv, Next, Serve
  <1>2. /\ Created /\ Created' /\ Ended /\ Ended'
        /\ queue'["archive"] = queue["archive"]
        /\ UNCHANGED <<now, row, history, nudger, nudges, idled>>
    BY DEF EnqueueFinalize, Enqueue, IInv, CollabTypeOK, TaskKinds, RequestsAreLegal,
           NothingBeforeMatch, Created, Ended
  <1>3. NothingBeforeMatch' /\ HistoryExplainsStatus' /\ RequestsAreLegal'
    BY <1>2 DEF EnqueueFinalize, IInv, NothingBeforeMatch, HistoryExplainsStatus,
       RequestsAreLegal, CollabTypeOK, IdleReq
  <1>4. ArchivedForReason' /\ TasksAreJustified' /\ NudgesAreCounted'
    BY <1>2 DEF IInv, ArchivedForReason, TasksAreJustified, NudgesAreCounted
  <1> QED
    BY <1>1, <1>3, <1>4 DEF IInv

LEMMA SubmitFeedbackIInv ==
    ASSUME IInv, NEW p \in Profiles, NEW t \in Targets, SubmitFeedback(p, t)
    PROVE  IInv'
  <1>1. CollabTypeOK' /\ HistoryExplainsStatus' /\ RequestsAreLegal'
    BY TypeStep, StatusFrame DEF IInv, Next, SubmitFeedback
  <1>2. NothingBeforeMatch' /\ ArchivedForReason' /\ TasksAreJustified' /\ NudgesAreCounted'
    BY DEF IInv, SubmitFeedback, workVars, NothingBeforeMatch, ArchivedForReason,
           TasksAreJustified, NudgesAreCounted, Created, Ended
  <1> QED
    BY <1>1, <1>2 DEF IInv

\* The check enqueues an archive only when it finds the collaboration idle for
\* archive_days at that moment.
LEMMA InactivityCheckIInv ==
    ASSUME IInv, InactivityCheck PROVE IInv'
  <1>1. CollabTypeOK' /\ HistoryExplainsStatus' /\ RequestsAreLegal'
    BY TypeStep, StatusFrame DEF IInv, Next, InactivityCheck
  <1>2. /\ Created /\ Created' /\ (Ended' <=> Ended)
        /\ queue'["finalize"] = queue["finalize"]
        /\ queue'["archive"] > 0 => queue["archive"] > 0 \/ IdleFor(row, now, ArchiveDays)
        /\ UNCHANGED <<now, row, nudger, nudges, idled>>
    BY DEF InactivityCheck, Enqueue, IInv, CollabTypeOK, TaskKinds, Created, Ended
  <1>3. NothingBeforeMatch' /\ ArchivedForReason' /\ TasksAreJustified' /\ NudgesAreCounted'
    BY <1>2 DEF IInv, NothingBeforeMatch, ArchivedForReason, TasksAreJustified, NudgesAreCounted
  <1> QED
    BY <1>1, <1>3 DEF IInv

\* Both archive tasks: the reason was checked when the task was enqueued, and
\* it lasts (an end is never taken back, and idled remembers).
LEMMA ArchiveIInv ==
    ASSUME IInv, ArchiveCollab \/ ArchiveFinalize PROVE IInv'
  <1>1. PICK k \in {"archive", "finalize"} :
            /\ Dequeue(k) /\ row' = [row EXCEPT !.archived = TRUE]
            /\ UNCHANGED <<now, history, feedback, req, messages, sent,
                           nudger, nudges, idled>>
    BY DEF ArchiveCollab, ArchiveFinalize
  <1>2. /\ row'.status = row.status /\ row'.last = row.last /\ row'.nudged = row.nudged
        /\ queue[k] > 0 /\ Created /\ Created' /\ (Ended' <=> Ended)
        /\ queue'["archive"] > 0 => queue["archive"] > 0
        /\ queue'["finalize"] > 0 => queue["finalize"] > 0
    BY <1>1 DEF Dequeue, IInv, CollabTypeOK, TaskKinds, NothingBeforeMatch, Created, Ended
  <1>3. CollabTypeOK' /\ HistoryExplainsStatus' /\ RequestsAreLegal'
    BY <1>1, <1>2, TypeStep, StatusFrame DEF IInv, Next, Celery
  <1>4. NothingBeforeMatch' /\ ArchivedForReason' /\ TasksAreJustified' /\ NudgesAreCounted'
    BY <1>1, <1>2 DEF IInv, NothingBeforeMatch, ArchivedForReason, TasksAreJustified,
       NudgesAreCounted, IdleFor
  <1> QED
    BY <1>3, <1>4 DEF IInv

LEMMA NudgeSelectIInv ==
    ASSUME IInv, NEW w \in Workers, NudgeSelect(w) PROVE IInv'
  <1>1. CollabTypeOK' /\ HistoryExplainsStatus' /\ RequestsAreLegal'
    BY TypeStep, StatusFrame DEF IInv, Next, Celery, NudgeSelect
  <1>2. /\ Created /\ Created' /\ (Ended' <=> Ended)
        /\ queue'["archive"] = queue["archive"] /\ queue'["finalize"] = queue["finalize"]
        /\ nudger' # nudger => ~row.nudged
        /\ UNCHANGED <<now, row, nudges, idled>>
    BY DEF NudgeSelect, Dequeue, IInv, CollabTypeOK, TaskKinds, NothingBeforeMatch,
           Created, Ended
  <1>3. NothingBeforeMatch' /\ ArchivedForReason' /\ TasksAreJustified' /\ NudgesAreCounted'
    BY <1>2 DEF IInv, NothingBeforeMatch, ArchivedForReason, TasksAreJustified, NudgesAreCounted
  <1> QED
    BY <1>1, <1>3 DEF IInv

\* The first nudge finds every worker still waiting to send one at most; each
\* further nudge uses one of them up.
LEMMA NudgeSendIInv ==
    ASSUME IInv, NEW w \in Workers, NudgeSend(w) PROVE IInv'
  <1>1. /\ row'.status = row.status /\ row'.last = row.last /\ row'.archived = row.archived
        /\ row'.nudged /\ w \in nudger /\ Created /\ Created' /\ (Ended' <=> Ended)
        /\ UNCHANGED <<now, queue, idled>>
    BY DEF NudgeSend, IInv, CollabTypeOK, NothingBeforeMatch, Created, Ended
  <1>2. CollabTypeOK' /\ HistoryExplainsStatus' /\ RequestsAreLegal'
    BY <1>1, TypeStep, StatusFrame DEF IInv, Next, Celery, NudgeSend
  <1>3. NothingBeforeMatch' /\ ArchivedForReason' /\ TasksAreJustified'
    BY <1>1 DEF IInv, NothingBeforeMatch, ArchivedForReason, TasksAreJustified, IdleFor
  <1>4. NudgesAreCounted'
    <2>1. nudger \subseteq Workers /\ nudges \in Nat
      BY DEF IInv, CollabTypeOK
    <2>2. nudges + Cardinality(nudger) <= Cardinality(Workers)
      BY <2>1, NudgerFinite DEF IInv, NudgesAreCounted
    <2>3. nudges' = nudges + 1 /\ nudger' = nudger \ {w}
      BY DEF NudgeSend
    <2>4. /\ Cardinality(nudger') = Cardinality(nudger) - 1
          /\ Cardinality(nudger) \in Nat /\ Cardinality(Workers) \in Nat
      BY <1>1, <2>1, <2>3, NudgerFinite
    <2>5. nudges' + Cardinality(nudger') <= Cardinality(Workers)
      BY <2>1, <2>2, <2>3, <2>4
    <2> QED
      BY <1>1, <2>5 DEF NudgesAreCounted
  <1> QED
    BY <1>2, <1>3, <1>4 DEF IInv

LEMMA StutterIInv ==
    ASSUME IInv, UNCHANGED vars PROVE IInv'
  <1>1. CollabTypeOK' /\ HistoryExplainsStatus' /\ RequestsAreLegal'
    BY TypeStep, StatusFrame DEF IInv, vars
  <1>2. NothingBeforeMatch' /\ ArchivedForReason' /\ TasksAreJustified' /\ NudgesAreCounted'
    BY DEF IInv, vars, workVars, NothingBeforeMatch, ArchivedForReason, TasksAreJustified,
           NudgesAreCounted, Created, Ended
  <1> QED
    BY <1>1, <1>2 DEF IInv

LEMMA Inductive == IInv /\ [Next]_vars => IInv'
  <1> SUFFICES ASSUME IInv, [Next]_vars PROVE IInv'
    OBVIOUS
  <1>1. ASSUME NEW r \in Requests, Serve(r) \/ \E new \in Statuses : LoadStatus(r, new)
        PROVE  IInv'
    BY <1>1, CommitStatusIInv, EnqueueFinalizeIInv, LoadStatusIInv DEF Serve
  <1>2. CASE Celery
    BY <1>2, ArchiveIInv, NudgeSelectIInv, NudgeSendIInv DEF Celery
  <1> QED
    BY <1>1, <1>2, DayIInv, MatchCreatedIInv, ChatMessageIInv, MessageSentIInv,
       BlockCreatedIInv, SubmitFeedbackIInv, InactivityCheckIInv, StutterIInv DEF Next

-----------------------------------------------------------------------------
(* Theorems *)

LEMMA Invariance == Spec => []IInv
  BY InitIInv, Inductive, PTL DEF Spec

\* Every variable keeps its type, whatever requests, events and tasks do; in
\* particular an event of the history never records a status the row cannot
\* have (services/collab_service.py).
THEOREM CollabTypeCorrect == Spec => []CollabTypeOK
  BY Invariance, PTL DEF IInv

\* transition_status takes no lock, so any number of requests may have read
\* the row before one of them commits: still the row has the status of the
\* last event, and every event is a step of TRANSITION_MAP.
THEOREM StatusHasHistory == Spec => []HistoryExplainsStatus
  BY Invariance, PTL DEF IInv

\* archive_collab and archive_finalize look at nothing but archived_at; that
\* they archive only what was ended or was idle for archive_days rests on the
\* check that enqueued them.
THEOREM ArchiveHasReason == Spec => []ArchivedForReason
  BY Invariance, PTL DEF IInv

\* send_nudge publishes its event whether or not its UPDATE found the row: a
\* window of inactivity sees at most as many nudges as there are workers.
THEOREM NudgesAreBounded == Spec => []NudgedOncePerWorker
  <1>1. IInv => NudgedOncePerWorker
    BY NudgerFinite DEF IInv, CollabTypeOK, NudgesAreCounted, NudgedOncePerWorker
  <1> QED
    BY <1>1, Invariance, PTL
=============================================================================
