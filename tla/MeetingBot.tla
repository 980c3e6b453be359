------------------------------ MODULE MeetingBot ------------------------------
(***************************************************************************)
(* meeting-svc: meetings of one collab and the bot that records them.      *)
(* routers/meetings.py, workers/bot_tasks.py, workers/webhook_tasks.py and *)
(* the clients of Google Calendar and Recall.ai.  The bot is sent when two *)
(* participants agreed, by a Celery task with an ETA (acks_late); Recall   *)
(* reports each bot's progress by webhooks, at least once and in no order. *)
(* Titles, URLs and the ICS bytes are left out; the service's own events   *)
(* (emit_event) are consumed by nobody.                                    *)
(***************************************************************************)
EXTENDS RequestSlots, Sequences, FiniteSets

CONSTANTS Profiles,          \* the participants
          Starts, Durations, \* meeting times, in clock ticks
          MaxMeetings, MaxDispatches, MaxBots, MaxHooks, MaxCrashes, \* bounds
          MaxClock,
          Codes              \* status codes Recall reports

ASSUME MeetingAssumption == IsFiniteSet(Profiles) /\ {MaxMeetings, MaxRequests} \subseteq Nat

VARIABLES
    clock,
    meetings,   \* meeting.meeting
    consents,   \* meeting.meeting_bot_consent: one row per meeting and profile
    crossed,    \* history: meetings where a revocation and a wish for the bot overlapped
    artifacts,  \* meeting.meeting_artifact: <<meeting, kind>> in insertion order
    calendar,   \* the start of each Google Calendar event
    dispatches, \* dispatch_recall_bot messages in the broker
    bots,       \* Recall.ai bots: the meeting and what each has reported
    handled,    \* Redis recall_event:* keys
    hooks,      \* process_recall_webhook messages in the broker
    crashes

meetingVars == <<clock, meetings, consents, crossed, artifacts, calendar, dispatches, bots,
                 handled, hooks, crashes>>

MeetingStatuses == {"scheduled", "started", "ended", "cancelled"}
BotStatuses     == {"none", "requested", "joining", "joined", "left", "failed"}
MeetingRow == [at : Starts, duration : Durations, event : 1..(MaxMeetings + MaxRequests),
               ics : BOOLEAN, status : MeetingStatuses, enabled : BOOLEAN,
               bot : BotStatuses, botId : {None} \cup 1..MaxBots]
ConsentRow   == {"none", "active", "revoked"}
ArtifactKinds == {"transcript", "recording"}
MeetingArtifact == (1..MaxMeetings) \X ArtifactKinds

MeetingInit ==
    /\ clock = 0 /\ meetings = <<>> /\ calendar = <<>>
    /\ consents = [m \in 1..MaxMeetings |-> [p \in Profiles |-> "none"]]
    /\ crossed = {} /\ artifacts = <<>>
    /\ dispatches = <<>> /\ bots = <<>> /\ handled = {} /\ hooks = <<>> /\ crashes = 0

Active(m)  == {p \in Profiles : consents[m][p] = "active"}
Closed     == {"ended", "cancelled"}
CalendarVars == <<meetings, calendar>>
BotVars    == <<dispatches, bots, handled, hooks, crashes>>

-----------------------------------------------------------------------------
(* Scheduling *)

\* create_meeting's conflict check: the meetings of the collab that are not
\* cancelled and overlap the new one.
Overlaps(at, duration) == \E m \in 1..Len(meetings) :
    /\ meetings[m].status # "cancelled"
    /\ meetings[m].at < at + duration
    /\ meetings[m].at + meetings[m].duration > at

\* GoogleCalendarClient.create_event / patch_event: the event is there (or
\* moved) before the row is; a failed call is a 502 and no row.
CreateEvent(at)   == calendar' = Append(calendar, at)
MoveEvent(e, at)  == calendar' = [calendar EXCEPT ![e] = at]

\* The ICS upload may fail, which is not fatal.
CreateMeeting(c, at, duration, enabled) ==
    /\ Len(calendar) < MaxMeetings + MaxRequests /\ ~Overlaps(at, duration)
    /\ CreateEvent(at)
    /\ \E ics \in BOOLEAN :
          Begin(c, [op |-> "insert", row |-> [at |-> at, duration |-> duration,
                      event |-> Len(calendar) + 1, ics |-> ics, status |-> "scheduled",
                      enabled |-> enabled, bot |-> "none", botId |-> None]])
    /\ UNCHANGED <<clock, meetings, consents, crossed, artifacts, BotVars>>

InsertMeeting(c) ==
    /\ Doing(c, "insert") /\ Len(meetings) < MaxMeetings
    /\ meetings' = Append(meetings, work[c].row) /\ End(c)
    /\ UNCHANGED <<clock, consents, crossed, artifacts, calendar, BotVars>>

\* PATCH: cancel, or move the calendar event and then the row.
Cancelled(row)            == [row EXCEPT !.status = "cancelled"]
Moved(row, at, duration)  == [row EXCEPT !.at = at, !.duration = duration]

PatchMeeting(c, m) ==
    LET row == meetings[m]
    IN
    /\ row.status \notin Closed
    /\ \/ /\ Begin(c, [op |-> "update", m |-> m, loaded |-> row, row |-> Cancelled(row),
                       send |-> {}])
          /\ UNCHANGED calendar
       \/ \E at \in Starts, duration \in Durations :
             /\ Begin(c, [op |-> "update", m |-> m, loaded |-> row,
                          row |-> Moved(row, at, duration), send |-> {}])
             /\ MoveEvent(row.event, at)
    /\ UNCHANGED <<clock, meetings, consents, crossed, artifacts, BotVars>>

\* The commit of a meeting row, and the ETA message start_bot sends after it;
\* the publish may fail, the row stays "requested".
CommitMeeting(c) ==
    LET q == work[c]
    IN
    /\ Doing(c, "update")
    /\ meetings' = [meetings EXCEPT ![q.m] = Flush(@, q.loaded, q.row)]
    /\ dispatches' \in {dispatches} \cup
          {Append(dispatches, [m |-> q.m, eta |-> t, state |-> "queued"]) :
              t \in {t \in q.send : Len(dispatches) < MaxDispatches}}
    /\ End(c)
    /\ UNCHANGED <<clock, consents, crossed, artifacts, calendar, bots, handled, hooks, crashes>>

\* GET /v1/collabs/{id}/meetings and /artifacts.  The cursor of a page is the
\* start of its last meeting: what starts at the same moment is skipped.
ListMeetings(before) == {m \in 1..Len(meetings) : meetings[m].at < before}
ListArtifacts(m)     == SelectSeq(artifacts, LAMBDA a : a[1] = m)

-----------------------------------------------------------------------------
(* Consent *)

\* Both participants' consent is a count of at least two rows.
Both(m, own) == Cardinality(Active(m) \cup own) >= 2

\* Requests that may make a bot wanted or send it, and those that take a
\* consent back.  No lock keeps them apart: meetings where the two overlapped
\* are remembered.
Asks(d)     == \/ \E op \in {"consent", "consented", "create_bot", "dispatched"} : Doing(d, op)
               \/ Doing(d, "update") /\ work[d].send # {}
Asking(m)   == \E d \in Slots : Asks(d) /\ work[d].m = m
Revoking(m) == \E d \in Slots : Doing(d, "revoke") /\ work[d].m = m
Crossing(m, other) == crossed' = IF other THEN crossed \cup {m} ELSE crossed

\* The upsert locks the row of the profile until the commit.
Locked(m, p) == \E d \in Slots : Doing(d, "consented") /\ work[d].m = m /\ work[d].p = p

LoadConsent(c, m, p) ==
    /\ meetings[m].enabled /\ meetings[m].status \notin Closed
    /\ Begin(c, [op |-> "consent", m |-> m, p |-> p, loaded |-> meetings[m]])
    /\ Crossing(m, Revoking(m))
    /\ UNCHANGED <<clock, meetings, consents, artifacts, calendar, BotVars>>

\* Upsert, count (the own row included), and the task is queued before the
\* commit makes either visible.
GiveConsent(c) ==
    LET q == work[c]
        send == Both(q.m, {q.p}) /\ q.loaded.bot = "none"
    IN
    /\ Doing(c, "consent") /\ ~Locked(q.m, q.p)
    /\ send => Len(dispatches) < MaxDispatches
    /\ dispatches' = IF send THEN Append(dispatches, [m |-> q.m, eta |-> q.loaded.at,
                                                      state |-> "queued"])
                     ELSE dispatches
    /\ Step(c, [op |-> "consented", m |-> q.m, p |-> q.p, loaded |-> q.loaded,
                row |-> IF send THEN [q.loaded EXCEPT !.bot = "requested"] ELSE q.loaded])
    /\ UNCHANGED <<clock, meetings, consents, crossed, artifacts, calendar, bots, handled, hooks,
                   crashes>>

CommitConsent(c) ==
    LET q == work[c]
    IN
    /\ Doing(c, "consented")
    /\ meetings' = [meetings EXCEPT ![q.m] = Flush(@, q.loaded, q.row)]
    /\ consents' = [consents EXCEPT ![q.m][q.p] = "active"]
    /\ End(c)
    /\ UNCHANGED <<clock, crossed, artifacts, calendar, BotVars>>

\* Faulty variant: the wish for the bot outlives the consent.
RevokeConsentOnly(c, m, p) ==
    /\ meetings[m].bot \in {"none", "requested"} /\ consents[m][p] = "active"
    /\ Begin(c, [op |-> "revoke", m |-> m, p |-> p, loaded |-> meetings[m], row |-> meetings[m]])
    /\ Crossing(m, Asking(m))
    /\ UNCHANGED <<clock, meetings, consents, artifacts, calendar, BotVars>>

\* Revoke while the bot has not joined; a queued task is left in the broker.
RevokeConsent(c, m, p) ==
    LET row == meetings[m]
    IN
    /\ row.bot \in {"none", "requested"} /\ consents[m][p] = "active"
    /\ Begin(c, [op |-> "revoke", m |-> m, p |-> p, loaded |-> row,
                 row |-> [row EXCEPT !.bot = "none"]])
    /\ Crossing(m, Asking(m))
    /\ UNCHANGED <<clock, meetings, consents, artifacts, calendar, BotVars>>

CommitRevoke(c) ==
    LET q == work[c]
    IN
    /\ Doing(c, "revoke") /\ ~Locked(q.m, q.p)
    /\ meetings' = [meetings EXCEPT ![q.m] = Flush(@, q.loaded, q.row)]
    /\ consents' = [consents EXCEPT ![q.m][q.p] = "revoked"]
    /\ End(c)
    /\ UNCHANGED <<clock, crossed, artifacts, calendar, BotVars>>

\* Start by hand; a meeting that is over is not refused.
StartBot(c, m) ==
    LET row == meetings[m]
    IN
    /\ row.enabled /\ Both(m, {}) /\ row.bot \in {"none", "requested"}
    /\ Begin(c, [op |-> "update", m |-> m, loaded |-> row,
                 row |-> [row EXCEPT !.bot = "requested"], send |-> {0}])
    /\ Crossing(m, Revoking(m))
    /\ UNCHANGED <<clock, meetings, consents, artifacts, calendar, BotVars>>

-----------------------------------------------------------------------------
(* The bot *)

\* dispatch_recall_bot: the message is acknowledged when the task ends.
RunDispatch(c, k) ==
    LET d == dispatches[k]
    IN
    /\ d.state = "queued" /\ d.eta <= clock
    /\ \/ /\ meetings[d.m].bot = "requested" /\ Len(bots) < MaxBots
          /\ Take(c, [op |-> "create_bot", k |-> k, m |-> d.m, loaded |-> meetings[d.m]])
          /\ dispatches' = [dispatches EXCEPT ![k].state = "running"]
          /\ Crossing(d.m, Revoking(d.m))
       \/ /\ meetings[d.m].bot # "requested"
          /\ dispatches' = [dispatches EXCEPT ![k].state = "done"]
          /\ UNCHANGED <<slotVars, crossed>>
    /\ UNCHANGED <<clock, meetings, consents, artifacts, calendar, bots, handled, hooks, crashes>>

\* RecallClient.create_bot.  An error may hide a bot that was created; the
\* breaker and its counter live in a client made anew for each task.
CreateBot(c) ==
    LET q == work[c]
        id == Len(bots) + 1
        commit(r) == [op |-> "dispatched", k |-> q.k, m |-> q.m, loaded |-> q.loaded, row |-> r]
    IN
    /\ Doing(c, "create_bot") /\ id <= MaxBots
    /\ \/ /\ bots' = Append(bots, [m |-> q.m, reported |-> {}])
          /\ Step(c, commit([q.loaded EXCEPT !.botId = id, !.bot = "joining"]))
       \/ /\ bots' \in {bots, Append(bots, [m |-> q.m, reported |-> {}])}
          /\ Step(c, commit([q.loaded EXCEPT !.bot = "failed"]))
    /\ UNCHANGED <<clock, meetings, consents, crossed, artifacts, calendar, dispatches, handled,
                   hooks, crashes>>

CommitDispatch(c) ==
    LET q == work[c]
    IN
    /\ Doing(c, "dispatched")
    /\ meetings' = [meetings EXCEPT ![q.m] = Flush(@, q.loaded, q.row)]
    /\ dispatches' = [dispatches EXCEPT ![q.k].state = "done"]
    /\ End(c)
    /\ UNCHANGED <<clock, consents, crossed, artifacts, calendar, bots, handled, hooks, crashes>>

-----------------------------------------------------------------------------
(* Recall's webhooks *)

\* What a code makes of the bot's status; other codes change nothing.
StatusMap == [joining_call |-> "joining", in_call_recording |-> "joined",
              call_ended |-> "left", done |-> "left", fatal |-> "failed"]

\* The bot reports (external); Recall calls until it gets a 200.  The key is
\* written before the message is queued, so a call that fails to queue it is
\* taken for a duplicate ever after; with Redis down nothing is remembered.
RecallWebhook(b, code) ==
    /\ Len(hooks) < MaxHooks
    /\ bots' = [bots EXCEPT ![b].reported = @ \cup {code}]
    /\ \E redisUp, queued \in BOOLEAN :
          /\ redisUp => <<b, code>> \notin handled
          /\ handled' = IF redisUp THEN handled \cup {<<b, code>>} ELSE handled
          /\ hooks' = Append(hooks, [b |-> b, code |-> code,
                                     state |-> IF queued THEN "queued" ELSE "done"])
    /\ UNCHANGED <<clock, meetings, consents, crossed, artifacts, calendar, dispatches, crashes,
                   slotVars>>

\* process_recall_webhook finds the meeting by the bot it names last.
MeetingOf(b) == {m \in 1..Len(meetings) : meetings[m].botId = b}

Progressed(row, code) ==
    LET mapped == IF code \in DOMAIN StatusMap THEN [row EXCEPT !.bot = StatusMap[code]] ELSE row
    IN IF code = "done" THEN [mapped EXCEPT !.status = "ended", !.bot = "left"] ELSE mapped

RunHook(c, k) ==
    LET h == hooks[k]
    IN
    /\ h.state = "queued"
    /\ hooks' = [hooks EXCEPT ![k].state = IF MeetingOf(h.b) = {} THEN "done" ELSE "running"]
    /\ \/ MeetingOf(h.b) = {} /\ UNCHANGED slotVars
       \/ \E m \in MeetingOf(h.b) :
             Take(c, [op |-> "ingest", k |-> k, m |-> m, loaded |-> meetings[m],
                      row |-> Progressed(meetings[m], h.code)])
    /\ UNCHANGED <<clock, meetings, consents, crossed, artifacts, calendar, dispatches, bots,
                   handled, crashes>>

\* _ingest_artifacts: each of the two may be missing or fail; neither looks
\* for a row that is there already.
Ingested(m, code) == IF code # "done" THEN {<<>>}
    ELSE {SelectSeq(<<<<m, "transcript">>, <<m, "recording">>>>, LAMBDA a : a[2] \in got) :
             got \in SUBSET ArtifactKinds}

CommitHook(c) ==
    LET q == work[c]
    IN
    /\ Doing(c, "ingest")
    /\ meetings' = [meetings EXCEPT ![q.m] = Flush(@, q.loaded, q.row)]
    /\ \E rows \in Ingested(q.m, hooks[q.k].code) : artifacts' = artifacts \o rows
    /\ hooks' = [hooks EXCEPT ![q.k].state = "done"]
    /\ End(c)
    /\ UNCHANGED <<clock, consents, crossed, calendar, dispatches, bots, handled, crashes>>

-----------------------------------------------------------------------------
(* A process dies with its request; a task it was running is delivered again. *)
MeetingCrash(c) ==
    /\ crashes < MaxCrashes /\ work[c] # None
    /\ crashes' = crashes + 1
    /\ End(c)
    /\ dispatches' = IF work[c].op \in {"create_bot", "dispatched"}
                     THEN [dispatches EXCEPT ![work[c].k].state = "queued"] ELSE dispatches
    /\ hooks' = IF work[c].op = "ingest" THEN [hooks EXCEPT ![work[c].k].state = "queued"]
                ELSE hooks
    /\ UNCHANGED <<clock, meetings, consents, crossed, artifacts, calendar, bots, handled>>

MeetingTick == /\ clock < MaxClock /\ clock' = clock + 1
               /\ UNCHANGED <<meetings, consents, crossed, artifacts, calendar, BotVars, slotVars>>

MeetingNext ==
    \/ \E c \in Slots, at \in Starts, duration \in Durations, enabled \in BOOLEAN :
          CreateMeeting(c, at, duration, enabled)
    \/ \E c \in Slots :
          \/ InsertMeeting(c) \/ CommitMeeting(c) \/ GiveConsent(c) \/ CommitConsent(c)
          \/ CommitRevoke(c) \/ CreateBot(c) \/ CommitDispatch(c) \/ CommitHook(c)
          \/ MeetingCrash(c)
          \/ \E m \in 1..Len(meetings) :
                \/ PatchMeeting(c, m) \/ StartBot(c, m)
                \/ \E p \in Profiles : LoadConsent(c, m, p) \/ RevokeConsent(c, m, p)
          \/ \E k \in 1..Len(dispatches) : RunDispatch(c, k)
          \/ \E k \in 1..Len(hooks) : RunHook(c, k)
    \/ \E b \in 1..Len(bots), code \in Codes : RecallWebhook(b, code)
    \/ MeetingTick
===============================================================================
