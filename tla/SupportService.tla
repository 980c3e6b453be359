---------------------------- MODULE SupportService ----------------------------
(***************************************************************************)
(* support-svc.  First tickets and their two deadlines (routers/tickets.py,*)
(* sla.py, workers/sla_tasks.py).  No code sets a ticket to pending_user,  *)
(* resolved or closed (admin-svc posts to routes support-svc does not      *)
(* have), so the paused clock and the satisfaction score, which ask for    *)
(* those states, are never reached and are left out.  Time is in hours.    *)
(* Subjects and texts are left out.                                        *)
(*                                                                         *)
(* Then the chatbot (routers/chatbot.py).  A turn is counted, given a      *)
(* session, answered from the articles that match and from the turns Redis *)
(* holds for the session, and added to them.  The client names the         *)
(* session.  Prompts and answers are left out: a turn is its user and      *)
(* number.                                                                 *)
(***************************************************************************)
EXTENDS RequestSlots, Sequences, FiniteSets
-----------------------------------------------------------------------------
(* Tickets *)

CONSTANTS Requesters, Categories, Instants,   \* Instants: the hours looked at
          MaxTickets, MaxScans

VARIABLES
    hour,
    billed,     \* billing-svc: each user's tier
    tierCache,  \* Redis user:{id}:tier, 5 minutes
    tickets,    \* support_ticket
    ticketLog,  \* support_ticket_event: kinds per ticket
    slaRuns,    \* runs of the SLA scan begun
    looked      \* history: [ticket -> the hour of the last committed scan that saw it]

ticketVars == <<hour, billed, tierCache, tickets, ticketLog, slaRuns, looked>>

Tiers == {"free", "premium", "premium_pro"}
TicketRow == [by : Requesters, status : {"open", "in_progress"}, priority : {"normal", "critical"},
              ackDue : Nat, resolveDue : Nat, ackBreached : {None} \cup Nat,
              resolveBreached : {None} \cup Nat, answered : {None} \cup Nat]

TicketEvent == {"created", "reply", "sla_breach", "sla_resolve_breached"}

TicketInit ==
    /\ hour = 0 /\ billed \in [Requesters -> {"free", "premium_pro"}]
    /\ tierCache = [u \in Requesters |-> None]
    /\ tickets = <<>> /\ ticketLog = <<>> /\ slaRuns = 0 /\ looked = <<>>

\* The cache is gone when the hour has passed.
HourPasses == \E h \in Instants :
    /\ h > hour /\ hour' = h /\ tierCache' = [u \in Requesters |-> None]
    /\ UNCHANGED <<slotVars, billed, tickets, ticketLog, slaRuns, looked>>

AckHours     == [harassment_threats |-> 4, ip_dmca |-> 24, payment |-> 24, technical |-> 24,
                 other |-> 48]
ResolveHours == [harassment_threats |-> 24, ip_dmca |-> 168, payment |-> 72,
                 technical |-> 120, other |-> 168]
\* compute_sla_due: premium_pro halves the first deadline.
SlaDue(category, tier, created) ==
    [ack     |-> created + (IF tier = "premium_pro" THEN AckHours[category] \div 2
                        ELSE AckHours[category]),
     resolve |-> created + ResolveHours[category]]

\* _get_user_tier: a failed lookup is "free", and is cached as that.
LookUpTier(c, u, category) ==
    \E tier \in (IF tierCache[u] # None THEN {tierCache[u]} ELSE {billed[u], "free"}) :
        /\ Begin(c, [op |-> "ticket", u |-> u, category |-> category, tier |-> tier])
        /\ tierCache' = [tierCache EXCEPT ![u] = tier]
        /\ UNCHANGED <<hour, billed, tickets, ticketLog, slaRuns, looked>>
CreateTicket(c) ==
    LET q == work[c]
        due == SlaDue(q.category, q.tier, hour)
    IN
    /\ Doing(c, "ticket") /\ Len(tickets) < MaxTickets
    /\ tickets' = Append(tickets, [by |-> q.u, status |-> "open", priority |-> "normal",
            ackDue |-> due.ack, resolveDue |-> due.resolve, ackBreached |-> None,
            resolveBreached |-> None, answered |-> None])
    /\ ticketLog' = Append(ticketLog, <<"created">>)
    /\ looked' = Append(looked, 0)
    /\ End(c) /\ UNCHANGED <<hour, billed, tierCache, slaRuns>>

\* An agent's first reply takes the ticket up; none is taken back.
Answered(row, actor) == IF actor = "agent" /\ row.answered = None
                        THEN [row EXCEPT !.answered = hour, !.status = "in_progress"] ELSE row
LoadReply(c, t, actor) ==
    /\ Begin(c, [op |-> "reply", t |-> t, loaded |-> tickets[t],
                 row |-> Answered(tickets[t], actor)])
    /\ UNCHANGED ticketVars
ReplyTicket(c) ==
    LET q == work[c]
    IN
    /\ Doing(c, "reply")
    /\ tickets' = [tickets EXCEPT ![q.t] = Flush(@, q.loaded, q.row)]
    /\ ticketLog' = [ticketLog EXCEPT ![q.t] = Append(@, "reply")]
    /\ End(c) /\ UNCHANGED <<hour, billed, tierCache, slaRuns, looked>>

\* sla_scan, the two SELECTs.
AckLate(t)     == /\ tickets[t].answered = None /\ tickets[t].ackBreached = None
                  /\ tickets[t].ackDue < hour
ResolveLate(t) == tickets[t].resolveBreached = None /\ tickets[t].resolveDue < hour

\* One transaction, whose UPDATEs go by id: rows another scan or a reply has
\* changed since the SELECT are written all the same.
ScanAck(c) ==
    /\ Free(c) /\ slaRuns < MaxScans /\ slaRuns' = slaRuns + 1
    /\ Take(c, [op |-> "ack", at |-> hour, saw |-> DOMAIN tickets,
                ack |-> {t \in DOMAIN tickets : AckLate(t)}])
    /\ UNCHANGED <<hour, billed, tierCache, tickets, ticketLog, looked>>
ScanResolve(c) ==
    /\ Doing(c, "ack")
    /\ \E late \in {{t \in DOMAIN tickets : ResolveLate(t)}} :
          Step(c, [op |-> "resolve", at |-> work[c].at, saw |-> work[c].saw,
                   ack |-> work[c].ack, late |-> late])
    /\ UNCHANGED ticketVars
CommitScan(c) ==
    LET q == work[c]
    IN
    /\ Doing(c, "resolve")
    /\ tickets' = [t \in DOMAIN tickets |-> [tickets[t] EXCEPT
          !.ackBreached = IF t \in q.ack THEN q.at ELSE @,
          !.resolveBreached = IF t \in q.late THEN q.at ELSE @,
          !.priority = IF t \in q.ack \cup q.late THEN "critical" ELSE @]]
    /\ ticketLog' = [t \in DOMAIN ticketLog |-> ticketLog[t]
          \o (IF t \in q.ack THEN <<"sla_breach">> ELSE <<>>)
          \o (IF t \in q.late THEN <<"sla_resolve_breached">> ELSE <<>>)]
    /\ looked' = [t \in DOMAIN looked |->
                    IF t \in q.saw /\ q.at > looked[t] THEN q.at ELSE looked[t]]
    /\ End(c) /\ UNCHANGED <<hour, billed, tierCache, slaRuns>>
\* The scan raises or its worker dies: nothing of it is kept.
ScanFails(c) == (Doing(c, "ack") \/ Doing(c, "resolve")) /\ End(c) /\ UNCHANGED ticketVars

TicketNext ==
    \/ HourPasses
    \/ \E c \in Slots :
          \/ \E u \in Requesters, category \in Categories : LookUpTier(c, u, category)
          \/ \E t \in DOMAIN tickets, actor \in {"agent", "user"} : LoadReply(c, t, actor)
          \/ CreateTicket(c) \/ ReplyTicket(c)
          \/ ScanAck(c) \/ ScanResolve(c) \/ CommitScan(c) \/ ScanFails(c)

-----------------------------------------------------------------------------
(* The chatbot *)

CONSTANTS Askers, RateLimit, HistoryTurns,   \* 10 and 6 in the code
          MaxChats                           \* bound: sessions

ASSUME ChatbotAssumption == HistoryTurns \in Nat

VARIABLES
    rate,       \* Redis chatbot_rate:{user}: None or [n, ttl]
    chats,      \* chatbot_session: [by, open], in order of creation
    history,    \* Redis chatbot:{session}:history: the turns of each session
    prompts     \* history: <<user, turns that were put before the model>>

chatbotVars == <<rate, chats, history, prompts>>

ChatSessionRow == [by : Askers, open : BOOLEAN]
Turn == [by : Askers, n : Nat]

ChatbotInit == /\ rate = [u \in Askers |-> None] /\ chats = <<>> /\ history = <<>>
               /\ prompts = {}

Latest(turns) == IF Len(turns) <= HistoryTurns THEN turns
                 ELSE SubSeq(turns, Len(turns) - HistoryTurns + 1, Len(turns))

\* _check_rate_limit: INCR, and EXPIRE by whoever saw the 1.  A request that
\* dies between the two leaves a counter that never expires.
CountTurn(c, u, asked) ==
    LET n == IF rate[u] = None THEN 1 ELSE rate[u].n + 1
    IN
    /\ Begin(c, [op |-> IF n = 1 THEN "expire" ELSE IF n > RateLimit THEN "refused" ELSE "session",
                 u |-> u, asked |-> asked, n |-> used + 1])
    /\ rate' = [rate EXCEPT ![u] = [n |-> n, ttl |-> IF @ = None THEN FALSE ELSE @.ttl]]
    /\ UNCHANGED <<chats, history, prompts>>
SetExpiry(c) ==
    /\ Doing(c, "expire")
    /\ rate' = [rate EXCEPT ![work[c].u] = IF @ = None THEN None ELSE [@ EXCEPT !.ttl = TRUE]]
    /\ Step(c, [work[c] EXCEPT !.op = "session"])
    /\ UNCHANGED <<chats, history, prompts>>
Refuse(c)   == Doing(c, "refused") /\ End(c) /\ UNCHANGED chatbotVars
RequestDies(c) == Doing(c, "expire") /\ End(c) /\ UNCHANGED chatbotVars
WindowEnds(u) == /\ rate[u] # None /\ rate[u].ttl
                 /\ rate' = [rate EXCEPT ![u] = None]
                 /\ UNCHANGED <<slotVars, chats, history, prompts>>

\* Faulty variant: any session that has not expired is continued.
OpenSession(u, s) == s \in DOMAIN chats /\ chats[s].open
\* The named session, if it is the user's and has not expired.
OwnSession(u, s) == s \in DOMAIN chats /\ chats[s].open /\ chats[s].by = u

GetSession(c) ==
    LET q == work[c]
        new == ~OwnSession(q.u, q.asked)
    IN
    /\ Doing(c, "session")
    /\ new => Len(chats) < MaxChats
    /\ chats' = IF new THEN Append(chats, [by |-> q.u, open |-> TRUE]) ELSE chats
    /\ history' = IF new THEN Append(history, <<>>) ELSE history
    /\ Step(c, [op |-> "answer", u |-> q.u, n |-> q.n,
                s |-> IF new THEN Len(chats) + 1 ELSE q.asked])
    /\ UNCHANGED <<rate, prompts>>

\* Without a matching article the hand-off is sent and nothing kept; else the
\* model sees the last turns and its answer is streamed ...
HandOff(c) == Doing(c, "answer") /\ End(c) /\ UNCHANGED chatbotVars
Answer(c) ==
    LET q == work[c]
    IN
    /\ Doing(c, "answer")
    /\ prompts' = prompts \cup {<<q.u, Latest(history[q.s])>>}
    /\ Step(c, [op |-> "get", u |-> q.u, n |-> q.n, s |-> q.s])
    /\ UNCHANGED <<rate, chats, history>>
\* ... and _save_turn reads the list and writes it back with the turn.
GetTurns(c) == /\ Doing(c, "get")
               /\ Step(c, [op |-> "set", u |-> work[c].u, n |-> work[c].n, s |-> work[c].s,
                           turns |-> history[work[c].s]])
               /\ UNCHANGED chatbotVars
SaveTurn(c) ==
    LET q == work[c]
    IN
    /\ Doing(c, "set")
    /\ history' = [history EXCEPT ![q.s] = Latest(Append(q.turns, [by |-> q.u, n |-> q.n]))]
    /\ End(c) /\ UNCHANGED <<rate, chats, prompts>>

\* A session lasts an hour; the nightly purge then takes its row.
SessionEnds(s) == /\ chats[s].open /\ chats' = [chats EXCEPT ![s].open = FALSE]
                  /\ UNCHANGED <<slotVars, rate, history, prompts>>

ChatbotNext ==
    \/ \E c \in Slots :
          \/ \E u \in Askers, asked \in {None} \cup DOMAIN chats : CountTurn(c, u, asked)
          \/ SetExpiry(c) \/ Refuse(c) \/ RequestDies(c) \/ GetSession(c) \/ HandOff(c)
          \/ Answer(c) \/ GetTurns(c) \/ SaveTurn(c)
    \/ \E u \in Askers : WindowEnds(u)
    \/ \E s \in DOMAIN chats : SessionEnds(s)
===============================================================================
