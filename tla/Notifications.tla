---------------------------- MODULE Notifications ----------------------------
(***************************************************************************)
(* notification-svc: from an event to a user's phone.  The consumer turns  *)
(* an event into one Celery task per recipient (consumers/runner.py), a    *)
(* task writes a row and sends push, mail and banner (workers/tasks.py,    *)
(* dispatch.py), all in one transaction with the row.  An event goes back  *)
(* into its queue when any call fails, a task is retried when it raises    *)
(* and redelivered when its worker dies.  Events are taken as schemas.py   *)
(* requires them; copy texts and the banner are left out.                  *)
(*                                                                         *)
(* First what a user has chosen and the phones that can be reached         *)
(* (api/preferences.py, api/devices.py, preferences.py, channels/push.py): *)
(* a choice is a row per notification type and channel, and no row means   *)
(* "on"; an SNS endpoint belongs to a phone's token, so that two users of  *)
(* one phone share it.  Versions, the Expo token of development builds and *)
(* the permission prompt are left out.                                     *)
(***************************************************************************)
EXTENDS RequestSlots, FiniteSets, Sequences
-----------------------------------------------------------------------------
(* Preferences and phones *)

CONSTANTS Users, Phones,
          Settings,      \* the <<type, channel>> pairs looked at
          MaxChanges     \* bound: requests that change these

VARIABLES
    prefs,      \* notification_preference: [Users -> [Settings -> None or enabled]]
    wishes,     \* history: what each user last asked for and got a 200 for
    devices,    \* push_device: [Users -> [Phones -> None or DeviceRow]]
    endpoints   \* SNS: [Phones -> None or EndpointRow]

settingVars == <<prefs, wishes, devices, endpoints>>

NotificationTypes == {"new_match", "new_request", "request_accepted", "chat_message",
                      "file_shared", "ai_mockup_ready", "collab_nudge",
                      "collab_status_change", "weekly_digest", "support_reply", "marketing"}
Channels        == {"push", "email", "in_app"}
DefaultOffTypes == {"marketing", "weekly_digest"}
PreferenceRows  == [Settings -> {None} \cup BOOLEAN]
DeviceRow       == [arn : BOOLEAN, enabled : BOOLEAN]
EndpointRow     == [owner : Users, live : BOOLEAN]

Change == AtOnce /\ used < MaxChanges

NoChoice == [k \in Settings |-> None]
SettingsInit ==
    /\ prefs = [u \in Users |-> NoChoice] /\ wishes = [u \in Users |-> NoChoice]
    /\ devices = [u \in Users |-> [p \in Phones |-> None]]
    /\ endpoints = [p \in Phones |-> None]

\* _get_preference; a setting outside Settings has no row.
Enabled(u, k) == k \in Settings => prefs[u][k] # FALSE

\* seed_preferences: all rows in one flush; one that is there already fails
\* the flush and takes the others with it.
Seed(rows) == IF \A k \in Settings : rows[k] = None
              THEN [k \in Settings |-> k[1] \notin DefaultOffTypes] ELSE rows

\* PATCH preferences and the one-click unsubscribe look the row up, then
\* update it, or insert it.  An insert that meets a row made in between is a
\* 500 that changes nothing, so that each is one step.
Choose(u, k, on) ==
    /\ prefs'  = [prefs  EXCEPT ![u][k] = on]
    /\ wishes' = [wishes EXCEPT ![u][k] = on]
    /\ Change /\ UNCHANGED <<devices, endpoints>>
Unsubscribe(u, k) == k[2] = "email" /\ Choose(u, k, FALSE)

\* create_platform_endpoint: a token that is known under other user data is
\* answered with InvalidParameter, and its endpoint enabled again.
Endpoint(u, p) == CASE endpoints[p] = None -> [owner |-> u, live |-> TRUE]
                    [] endpoints[p] # None /\ endpoints[p].owner = u -> endpoints[p]
                    [] OTHER -> [endpoints[p] EXCEPT !.live = TRUE]

\* Registration: the row is made with endpoint_enabled set; SNS is asked
\* unless the row has an ARN already, and may fail.
Register(u, p, sns) ==
    LET row == IF devices[u][p] = None THEN [arn |-> FALSE, enabled |-> TRUE] ELSE devices[u][p]
        new == sns /\ ~row.arn
    IN
    /\ devices' = [devices EXCEPT ![u][p] =
                     IF new THEN [arn |-> TRUE, enabled |-> TRUE] ELSE row]
    /\ endpoints' = IF new THEN [endpoints EXCEPT ![p] = Endpoint(u, p)] ELSE endpoints
    /\ Change /\ UNCHANGED <<prefs, wishes>>

\* The endpoint goes with the row, whoever else has registered the phone.
Deregister(u, p) ==
    /\ devices[u][p] # None
    /\ devices' = [devices EXCEPT ![u][p] = None]
    /\ endpoints' = IF devices[u][p].arn THEN [endpoints EXCEPT ![p] = None] ELSE endpoints
    /\ Change /\ UNCHANGED <<prefs, wishes>>

\* SNS disables an endpoint whose token the platform has refused.
EndpointDies(p) == /\ endpoints[p] # None /\ endpoints[p].live
                   /\ endpoints' = [endpoints EXCEPT ![p].live = FALSE]
                   /\ Change /\ UNCHANGED <<prefs, wishes, devices>>

SettingsNext ==
    \/ \E u \in Users, k \in Settings :
          (\E on \in BOOLEAN : Choose(u, k, on)) \/ Unsubscribe(u, k)
    \/ \E u \in Users, p \in Phones :
          (\E sns \in BOOLEAN : Register(u, p, sns)) \/ Deregister(u, p)
    \/ \E p \in Phones : EndpointDies(p)

-----------------------------------------------------------------------------
(* From an event to a phone *)

CONSTANTS Kinds,                      \* the kinds of event that are published
          MaxEvents, MaxDeliveries,   \* bounds: events, deliveries of each
          MaxRetries,                 \* max_retries of every task
          MaxFaults                   \* bound: tasks that raise or die

ASSUME NotifyAssumption == MaxEvents \in Nat /\ MaxRetries \in Nat /\ None \notin {"30s", "48h"}

VARIABLES
    events,     \* colab.events: [kind, to, acked, seen], in order of publication
    msgs,       \* Celery: one task per recipient, [event, to, state, tries]
    guards,     \* Redis: the SETNX keys that are set, <<event, user>>
    notifs,     \* notification: one row per committed dispatch
    pushes,     \* history: [event -> [Users -> [Phones -> pushes published]]]
    faults

notifyVars == <<settingVars, events, msgs, guards, notifs, pushes, faults>>

\* One task per kind: how long its key guards it (None: not at all; new_match
\* 30 s, collab_nudge 48 h), and whether it mails.
NewMatch        == [type |-> "new_match",            guard |-> "30s", mail |-> TRUE]
NewRequest      == [type |-> "new_request",          guard |-> None,  mail |-> TRUE]
RequestAccepted == [type |-> "request_accepted",     guard |-> None,  mail |-> TRUE]
ChatMessage     == [type |-> "chat_message",         guard |-> None,  mail |-> FALSE]
FileShared      == [type |-> "file_shared",          guard |-> None,  mail |-> FALSE]
MockupReady     == [type |-> "ai_mockup_ready",      guard |-> None,  mail |-> TRUE]
CollabNudge     == [type |-> "collab_nudge",         guard |-> "48h", mail |-> TRUE]
StatusChange    == [type |-> "collab_status_change", guard |-> None,  mail |-> FALSE]
StatusCompleted == [type |-> "collab_status_change", guard |-> None,  mail |-> TRUE]
SupportReply    == [type |-> "support_reply",        guard |-> None,  mail |-> TRUE]

\* _route; "collab.status_completed" stands for a collab.status_updated whose
\* new status is completed, which also mails.  "user.created" seeds the
\* preferences and "marketing.broadcast" is only logged; chat.message.sent
\* would be debounced by two presence keys that no service sets.
Route == [k \in Kinds |->
    CASE k = "match.created"         -> NewMatch
      [] k = "invite.sent"           -> NewRequest
      [] k = "invite.accepted"       -> RequestAccepted
      [] k = "chat.message.sent"     -> ChatMessage
      [] k = "chat.file.sent"        -> FileShared
      [] k = "ai.mockup_generated"   -> MockupReady
      [] k = "collab.nudge_due"      -> CollabNudge
      [] k = "collab.status_updated" -> StatusChange
      [] k = "collab.status_completed"  -> StatusCompleted
      [] k = "support.ticket_replied" -> SupportReply
      [] OTHER                       -> None]
ToBoth == {"match.created", "ai.mockup_generated", "collab.nudge_due"}

EventRow   == [kind : Kinds, to : Seq(Users), acked : BOOLEAN, seen : Nat]
NotifRow   == [type : NotificationTypes, to : Users, event : Nat, push : {None, "sent", "failed"},
               mail : {None, "failed"}, read : BOOLEAN]

NotifyInit ==
    /\ SettingsInit /\ events = <<>> /\ msgs = <<>> /\ guards = {} /\ notifs = <<>>
    /\ pushes = [e \in 1..MaxEvents |-> [u \in Users |-> [p \in Phones |-> 0]]]
    /\ faults = 0

Publish(kind, to) ==
    /\ Len(events) < MaxEvents
    /\ Len(to) = IF kind \in ToBoth THEN 2 ELSE 1
    /\ Len(to) = 2 => to[1] # to[2]
    /\ events' = Append(events, [kind |-> kind, to |-> to, acked |-> FALSE, seen |-> 0])
    /\ UNCHANGED <<slotVars, settingVars, msgs, guards, notifs, pushes, faults>>

\* process(requeue=True): acknowledged when every delay() has returned and
\* the connection still stands, else delivered again.
AckedAfter(event, queued) == queued = Len(event.to)

\* handle_message: the tasks are queued one after the other.
Consume(e, queued) ==
    /\ ~events[e].acked /\ events[e].seen < MaxDeliveries
    /\ Route[events[e].kind] # None /\ queued \in 0..Len(events[e].to)
    /\ msgs' = msgs \o [i \in 1..queued |->
                  [event |-> e, to |-> events[e].to[i], state |-> "queued", tries |-> 0]]
    /\ \E ack \in BOOLEAN :
          /\ ack => AckedAfter(events[e], queued)
          /\ ~ack => events[e].seen + 1 < MaxDeliveries
          /\ events' = [events EXCEPT ![e].acked = ack, ![e].seen = @ + 1]
    /\ UNCHANGED <<slotVars, settingVars, guards, notifs, pushes, faults>>

ConsumeCreated(e) ==
    /\ ~events[e].acked /\ events[e].seen < MaxDeliveries /\ events[e].kind = "user.created"
    /\ prefs' = [prefs EXCEPT ![events[e].to[1]] = Seed(@)]
    /\ \E ack \in BOOLEAN : events' = [events EXCEPT ![e].acked = ack, ![e].seen = @ + 1]
    /\ UNCHANGED <<slotVars, wishes, devices, endpoints, msgs, guards, notifs, pushes, faults>>

Task(m)   == Route[events[msgs[m].event].kind]
KeyOf(m)  == <<msgs[m].event, msgs[m].to>>

\* _idempotency_setnx comes before the work, and stays when the work fails.
Start(c, m, guarded) ==
    LET twice == guarded /\ KeyOf(m) \in guards
    IN
    /\ msgs' = [msgs EXCEPT ![m].state = IF twice THEN "done" ELSE "taken"]
    /\ IF twice THEN UNCHANGED slotVars ELSE Take(c, [op |-> "dispatch", m |-> m])
    /\ guards' = IF guarded THEN guards \cup {KeyOf(m)} ELSE guards

RunNotifyTask(c, m) ==
    /\ Free(c) /\ msgs[m].state = "queued"
    /\ Start(c, m, Task(m).guard # None)
    /\ UNCHANGED <<settingVars, events, notifs, pushes, faults>>

\* The 30 seconds of a new_match key are over; 48 hours are longer than any
\* redelivery.
KeyExpires(key) == /\ key \in guards /\ Route[events[key[1]].kind].guard = "30s"
                   /\ guards' = guards \ {key}
                   /\ faults < MaxFaults /\ faults' = faults + 1
                   /\ UNCHANGED <<slotVars, settingVars, events, msgs, notifs, pushes>>

\* What SNS answers for a phone: a disabled endpoint, another error (a
\* deleted endpoint, throttling), or success.
Answers(p) == CASE endpoints[p] = None -> {"error"}
                [] endpoints[p] # None /\ ~endpoints[p].live -> {"disabled"}
                [] OTHER -> {"ok", "error"}

\* send_email to the recipient_email that no payload has: SES refuses it.
SesAnswer == "failed"
\* Mail: on, or the fallback of a key type, which asks for the same
\* preference again and so never differs.
Mail(u, task) == IF task.mail /\ Enabled(u, <<task.type, "email">>) THEN SesAnswer ELSE None

\* Every enabled device with an ARN, if push is on.
Targets(u, task) == {p \in Phones : /\ Enabled(u, <<task.type, "push">>) /\ devices[u][p] # None
                                    /\ devices[u][p].arn /\ devices[u][p].enabled}
Row(e, u, task, answer) ==
    [type |-> task.type, to |-> u, event |-> e, mail |-> Mail(u, task), read |-> FALSE,
     push |-> CASE \E p \in DOMAIN answer : answer[p] = "ok" -> "sent"
                [] DOMAIN answer = {} -> None
                [] OTHER -> "failed"]

\* Faulty variant: the key is given up so that the retry can work.
KeyReleased(key) == guards \ {key}
\* A task that fails leaves its key set: its retry finds it and returns.
KeyStays(key) == guards

\* Faulty variant: the task is acknowledged when it is taken.
RunsAgainUnlessDead(m, ends) == ends = "raises" /\ msgs[m].tries < MaxRetries
\* A task that raises is retried up to max_retries times; one whose worker
\* dies has not been acknowledged (task_acks_late) and is delivered again.
RunsAgain(m, ends) == ends = "dies" \/ msgs[m].tries < MaxRetries

\* dispatch_notification.  The pushes go out; then the transaction commits
\* with the row and the devices whose endpoint was disabled, after which the
\* worker may still die unacknowledged, or the task raises or its worker
\* dies before that and nothing of it is kept.
Dispatch(c, ends) ==
    LET m == work[c].m
        u == msgs[m].to
        task == Task(m)
    IN
    /\ Doing(c, "dispatch")
    /\ \E answer \in [Targets(u, task) -> {"ok", "error", "disabled"}] :
          /\ \A p \in DOMAIN answer : answer[p] \in Answers(p)
          /\ pushes' = [pushes EXCEPT ![msgs[m].event][u] =
                          [p \in Phones |-> IF p \in DOMAIN answer /\ answer[p] = "ok"
                                            THEN @[p] + 1 ELSE @[p]]]
          /\ \/ /\ ends \in {"commits", "unacked"}
                /\ notifs' = Append(notifs, Row(msgs[m].event, u, task, answer))
                /\ devices' = [devices EXCEPT ![u] = [p \in Phones |->
                      IF p \in DOMAIN answer /\ answer[p] = "disabled"
                      THEN [arn |-> FALSE, enabled |-> FALSE] ELSE @[p]]]
                /\ msgs' = [msgs EXCEPT ![m].state = IF ends = "unacked" THEN "queued" ELSE "done"]
                /\ guards' = guards
             \/ /\ ends \in {"raises", "dies"}
                /\ msgs' = [msgs EXCEPT ![m].state = IF RunsAgain(m, ends) THEN "queued" ELSE "done",
                                        ![m].tries = IF ends = "dies" THEN @ ELSE @ + 1]
                /\ guards' = KeyStays(KeyOf(m))
                /\ UNCHANGED <<notifs, devices>>
    /\ faults' = IF ends = "commits" THEN faults ELSE faults + 1
    /\ faults' <= MaxFaults
    /\ End(c) /\ UNCHANGED <<prefs, wishes, endpoints, events>>

\* POST {id}/read and read-all.
MarkRead(ns) ==
    /\ ns # {} /\ \A n \in ns : ~notifs[n].read
    /\ notifs' = [n \in DOMAIN notifs |->
                    IF n \in ns THEN [notifs[n] EXCEPT !.read = TRUE] ELSE notifs[n]]
    /\ Change /\ UNCHANGED <<settingVars, events, msgs, guards, pushes, faults>>
ReadAll(u) == MarkRead({n \in DOMAIN notifs : notifs[n].to = u /\ ~notifs[n].read})

NotifyNext ==
    \/ SettingsNext /\ UNCHANGED <<events, msgs, guards, notifs, pushes, faults>>
    \/ \E kind \in Kinds : \E to \in [1..1 -> Users] \cup [1..2 -> Users] : Publish(kind, to)
    \/ \E e \in DOMAIN events : (\E n \in 0..2 : Consume(e, n)) \/ ConsumeCreated(e)
    \/ \E c \in Slots :
          \/ \E m \in DOMAIN msgs : RunNotifyTask(c, m)
          \/ \E ends \in {"commits", "unacked", "raises", "dies"} : Dispatch(c, ends)
    \/ \E key \in guards : KeyExpires(key)
    \/ \E n \in DOMAIN notifs : MarkRead({n})
    \/ \E u \in Users : ReadAll(u)
===============================================================================
