------------------------------ MODULE CareSystem ------------------------------
(***************************************************************************)
(* How the platform looks after its users: notifications, support tickets, *)
(* the support chatbot, and moderation.  They share no table, key or       *)
(* message: what support-svc publishes goes to an exchange nobody is bound *)
(* to, and so does what moderation-svc publishes.  A behaviour is          *)
(* one of them, named by "area".                                           *)
(***************************************************************************)
EXTENDS Notifications, SupportService, ModerationSystem

CONSTANTS Areas,
          MaxMixed       \* bound: requests to the desk, where not all are reports

VARIABLE area

vars == <<area, slotVars, notifyVars, ticketVars, chatbotVars, moderationVars>>

Init == /\ area \in Areas /\ SlotsInit
        /\ NotifyInit /\ TicketInit /\ ChatbotInit /\ ModerationInit
        /\ area # "tickets" => \A u \in Requesters : billed[u] = "free"   \* nobody else looks
Next == /\ UNCHANGED area
        /\ \/ area = "notify" /\ NotifyNext
              /\ UNCHANGED <<ticketVars, chatbotVars, moderationVars>>
           \/ area = "tickets" /\ TicketNext
              /\ UNCHANGED <<notifyVars, chatbotVars, moderationVars>>
           \/ area = "chatbot" /\ ChatbotNext
              /\ UNCHANGED <<notifyVars, ticketVars, moderationVars>>
           \/ area = "moderation" /\ ModerationNext /\ used' <= MaxMixed
              /\ UNCHANGED <<notifyVars, ticketVars, chatbotVars>>
           \/ area = "reports" /\ ReportNext
              /\ UNCHANGED <<notifyVars, ticketVars, chatbotVars, dmcaVars, scanVars>>

Spec == Init /\ [][Next]_vars

-----------------------------------------------------------------------------
(* Properties *)

\* Every row has its type and refers to rows that are there.
CareTypeOK ==
    /\ prefs \in [Users -> PreferenceRows]
    /\ devices \in [Users -> [Phones -> {None} \cup DeviceRow]]
    /\ endpoints \in [Phones -> {None} \cup EndpointRow]
    /\ \A e \in DOMAIN events : events[e] \in EventRow /\ events[e].seen <= MaxDeliveries
    /\ notifs \in Seq(NotifRow)
    /\ \A m \in DOMAIN msgs : msgs[m].event \in DOMAIN events /\ msgs[m].tries <= MaxRetries + 1
    /\ tickets \in Seq(TicketRow) /\ ticketLog \in Seq(Seq(TicketEvent))
    /\ Len(ticketLog) = Len(tickets)
    /\ chats \in Seq(ChatSessionRow) /\ \A s \in DOMAIN history : history[s] \in Seq(Turn)

\* A nudge reaches a phone once, although its event is delivered again, its
\* task queued again, retried, or redelivered after a crash between the push
\* and the commit (task_collab_nudge).
NudgedOncePerDevice ==
    \A e \in DOMAIN events : Route[events[e].kind] # None /\ Route[events[e].kind].guard = "48h" =>
        \A u \in Users, p \in Phones : pushes[e][u][p] <= 1

\* An event that was acknowledged is not lost on its way to a user: there is
\* their row, or a task that waits or is at work, or one that has used up its
\* retries, although some of the tasks were queued twice, raised, or lost
\* their worker (handle_message, _create_and_dispatch, self.retry).  The kinds
\* that a key guards are left out: their retry finds the key and returns.
Awaited(e, u) == \E m \in DOMAIN msgs :
    /\ msgs[m].event = e /\ msgs[m].to = u
    /\ msgs[m].state # "done" \/ msgs[m].tries > MaxRetries
EventReachesUser ==
    \A e \in DOMAIN events :
        events[e].acked /\ Route[events[e].kind] # None /\ Route[events[e].kind].guard = None =>
            \A i \in DOMAIN events[e].to :
                \/ Awaited(e, events[e].to[i])
                \/ \E n \in DOMAIN notifs : notifs[n].event = e /\ notifs[n].to = events[e].to[i]

\* What a user was told is set stays set until the user says otherwise: the
\* defaults that arrive late, or twice, do not undo it (seed_preferences).
ChoiceSticks ==
    \A u \in Users, k \in Settings : wishes[u][k] # None => prefs[u][k] = wishes[u][k]

\* A ticket that a scan has seen after its deadline is marked, and critical,
\* whatever replies and other scans were under way (sla_scan).
LateIsNoticed ==
    \A t \in DOMAIN tickets :
        /\ looked[t] > tickets[t].ackDue /\ tickets[t].answered = None
              => tickets[t].ackBreached # None /\ tickets[t].priority = "critical"
        /\ looked[t] > tickets[t].resolveDue
              => tickets[t].resolveBreached # None /\ tickets[t].priority = "critical"

\* The model is shown no turn of another user, although the client names the
\* session and turns of a session overlap (_get_or_create_session).
ContextIsOwn == \A p \in prompts : \A i \in DOMAIN p[2] : p[2][i].by = p[1]
===============================================================================
